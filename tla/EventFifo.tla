------------------------------ MODULE EventFifo ------------------------------
(***************************************************************************)
(* What the global event queue promises to the program: the producers'     *)
(* events come out to the one event loop in the order they went in, each   *)
(* exactly once, and the loop takes up the next event as long as the       *)
(* handler of the previous one returns.  EventQueue.tla shows that         *)
(* core/evque.c, with its mutex and condition variable, implements this.   *)
(***************************************************************************)
EXTENDS Sequences

CONSTANTS Items,      \* the events that can be posted
          Final(_),   \* Final(e): the handler of e never returns (power off)
          NoItem

VARIABLES chan,    \* events posted and not yet taken
          cur,     \* the event the event loop is handling, or NoItem
          process  \* "running" until the process has ended

vars == <<chan, cur, process>>

Init == chan = <<>> /\ cur = NoItem /\ process = "running"

(* A thread posts an event. *)
Send(e) ==
  /\ process = "running"
  /\ chan' = Append(chan, e)
  /\ UNCHANGED <<cur, process>>

(* The event loop takes the oldest event. *)
Receive ==
  /\ process = "running"
  /\ cur = NoItem
  /\ chan # <<>>
  /\ cur' = Head(chan)
  /\ chan' = Tail(chan)
  /\ UNCHANGED process

(* The handler of the current event returns. *)
Finish ==
  /\ process = "running"
  /\ cur # NoItem
  /\ ~Final(cur)
  /\ cur' = NoItem
  /\ UNCHANGED <<chan, process>>

(* The process may end: start-up failed or it crashed. *)
Die ==
  /\ process = "running"
  /\ process' = "ended"
  /\ UNCHANGED <<chan, cur>>

Next == (\E e \in Items : Send(e)) \/ Receive \/ Finish \/ Die

Fairness == WF_vars(Receive) /\ WF_vars(Finish)

Spec == Init /\ [][Next]_vars /\ Fairness
=============================================================================
