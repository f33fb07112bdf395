------------------------------ MODULE EventQueue ------------------------------
(***************************************************************************)
(* The global event queue, core/evque.c over ds/queue.c, together with the *)
(* event loop of core/main.c that is its only consumer.                    *)
(*                                                                         *)
(* The producers (key scan thread, MCU reader thread) already run when     *)
(* main() creates the queue, and evque_set_event tests the global pointer  *)
(* without a lock.  evque->mutex is always taken before the inner mutex of *)
(* ds/queue.c, so the list operations are atomic steps of its holder here. *)
(* The condition variable is signalled after the mutex is released, and    *)
(* pthread_cond_wait may wake up without a signal.                         *)
(***************************************************************************)
EXTENDS Naturals, Sequences

CONSTANTS Producers,   \* threads that call evque_set_event
          Main,        \* the thread that runs main()
          NoThread,
          Codes,       \* event codes
          StopCodes,   \* codes whose handler powers the device off
          NoItem,      \* the null event pointer
          MaxPosts,    \* bound: calls of evque_set_event per producer
          MaxNoMem     \* bound: calls of malloc that fail

Threads == Producers \cup {Main}

(* A posted event: who allocated it, which of its allocations it is (the   *)
(* identity of the pointer), and its code.                                 *)
Items == [by : Producers, seq : 1..MaxPosts, code : Codes]

ASSUME EventQueueAssumption ==
  /\ Main \notin Producers
  /\ NoThread \notin Threads
  /\ StopCodes \subseteq Codes
  /\ NoItem \notin Items
  /\ MaxPosts \in Nat
  /\ MaxNoMem \in Nat

VARIABLES
  evque,    \* the global pointer: "null", "raw" (allocated only), "ready"
  owner,    \* holder of evque->mutex
  events,   \* evque->events
  pc,       \* where each thread is
  ev,       \* the local `event` of each producer inside evque_set_event
  cur,      \* the event handle_event is working on
  posts,    \* calls of evque_set_event so far, per producer
  noMem,    \* failed mallocs so far
  process   \* "running" until the process has ended

vars == <<evque, owner, events, pc, ev, cur, posts, noMem, process>>

Init ==
  /\ evque = "null"
  /\ owner = NoThread
  /\ events = <<>>
  /\ pc = [t \in Threads |-> IF t = Main THEN "boot" ELSE "idle"]
  /\ ev = [p \in Producers |-> NoItem]
  /\ cur = NoItem
  /\ posts = [p \in Producers |-> 0]
  /\ noMem = 0
  /\ process = "running"

Goto(t, from, to) ==
  /\ process = "running"
  /\ pc[t] = from
  /\ pc' = [pc EXCEPT ![t] = to]

Acquire(t) == owner = NoThread /\ owner' = t

MayFail == noMem < MaxNoMem /\ noMem' = noMem + 1

Exit == process' = "ended"

-----------------------------------------------------------------------------
(* main(): creation of the queue, while the producers are running. *)

(* evque_create: the global pointer is set by malloc, before the fields are
   initialised; a failure ends main(). *)
CreateAlloc ==
  /\ Goto(Main, "boot", "create")
  /\ \/ evque' = "raw" /\ UNCHANGED <<noMem, process>>
     \/ MayFail /\ Exit /\ UNCHANGED evque
  /\ UNCHANGED <<owner, events, ev, cur, posts>>

(* The rest of evque_create, then showMenu and unlockKeyin in main(). *)
CreateInit ==
  /\ Goto(Main, "create", "get")
  /\ \/ evque' = "ready" /\ UNCHANGED <<noMem, process>>
     \/ MayFail /\ Exit /\ evque' = "null"
  /\ UNCHANGED <<owner, events, ev, cur, posts>>

-----------------------------------------------------------------------------
(* evque_set_event, called by a producer. *)

CountPost(p) ==
  /\ process = "running"
  /\ pc[p] = "idle"
  /\ posts[p] < MaxPosts
  /\ posts' = [posts EXCEPT ![p] = @ + 1]

(* The queue exists: the event is allocated. *)
Post(p, c) ==
  /\ CountPost(p)
  /\ evque = "ready"
  /\ Goto(p, "idle", "lock")
  /\ ev' = [ev EXCEPT ![p] = [by |-> p, seq |-> posts[p] + 1, code |-> c]]
  /\ UNCHANGED <<evque, owner, events, cur, noMem, process>>

(* malloc returned null: the call returns -1 and the event is dropped. *)
PostNoMem(p) ==
  /\ CountPost(p)
  /\ evque = "ready"
  /\ MayFail
  /\ UNCHANGED <<evque, owner, events, pc, ev, cur, process>>

(* No queue yet: "null global event queue", the event is dropped. *)
PostNoQueue(p) ==
  /\ CountPost(p)
  /\ evque = "null"
  /\ UNCHANGED <<evque, owner, events, pc, ev, cur, noMem, process>>

(* The pointer is set but mutex and list are not initialised: undefined.  The
   event is lost, or the process crashes. *)
PostTooEarly(p) ==
  /\ CountPost(p)
  /\ evque = "raw"
  /\ Exit \/ UNCHANGED process
  /\ UNCHANGED <<evque, owner, events, pc, ev, cur, noMem>>

SetLock(p) ==
  /\ Goto(p, "lock", "enque")
  /\ Acquire(p)
  /\ UNCHANGED <<evque, events, ev, cur, posts, noMem, process>>

(* queue_enque.  Its result is not tested: when the list node cannot be
   allocated the event is lost and the caller still signals and returns 0. *)
Enque(p) ==
  /\ Goto(p, "enque", "unlock")
  /\ \/ events' = Append(events, ev[p]) /\ UNCHANGED noMem
     \/ MayFail /\ UNCHANGED events
  /\ ev' = [ev EXCEPT ![p] = NoItem]
  /\ UNCHANGED <<evque, owner, cur, posts, process>>

(* Mutant: no signal. *)
SetUnlockQuietly(p) ==
  /\ Goto(p, "unlock", "idle")
  /\ owner' = NoThread
  /\ UNCHANGED <<evque, events, ev, cur, posts, noMem, process>>

SetUnlock(p) ==
  /\ Goto(p, "unlock", "signal")
  /\ owner' = NoThread
  /\ UNCHANGED <<evque, events, ev, cur, posts, noMem, process>>

(* Mutant: the signal reaches nobody. *)
SignalNobody(p) ==
  /\ Goto(p, "signal", "idle")
  /\ UNCHANGED <<evque, owner, events, ev, cur, posts, noMem, process>>

(* pthread_cond_signal, outside the mutex, wakes the event loop if it waits. *)
Signal(p) ==
  /\ process = "running"
  /\ pc[p] = "signal"
  /\ pc' = [pc EXCEPT ![p] = "idle",
                      ![Main] = IF @ = "wait" THEN "relock" ELSE @]
  /\ UNCHANGED <<evque, owner, events, ev, cur, posts, noMem, process>>

-----------------------------------------------------------------------------
(* evque_get_event, called by handle_event in the loop of main(). *)

GetLock ==
  /\ Goto(Main, "get", "test")
  /\ Acquire(Main)
  /\ UNCHANGED <<evque, events, ev, cur, posts, noMem, process>>

(* while (count == 0) pthread_cond_wait: waiting releases the mutex. *)
TestEmpty ==
  /\ events = <<>>
  /\ Goto(Main, "test", "wait")
  /\ owner' = NoThread
  /\ UNCHANGED <<evque, events, ev, cur, posts, noMem, process>>

TestFull ==
  /\ events # <<>>
  /\ Goto(Main, "test", "deque")
  /\ UNCHANGED <<evque, owner, events, ev, cur, posts, noMem, process>>

SpuriousWakeup ==
  /\ Goto(Main, "wait", "relock")
  /\ UNCHANGED <<evque, owner, events, ev, cur, posts, noMem, process>>

Relock ==
  /\ Goto(Main, "relock", "test")
  /\ Acquire(Main)
  /\ UNCHANGED <<evque, events, ev, cur, posts, noMem, process>>

(* Mutant: the head is returned but not unlinked. *)
DequePeek ==
  /\ Goto(Main, "deque", "release")
  /\ cur' = Head(events)
  /\ UNCHANGED <<evque, owner, events, ev, posts, noMem, process>>

(* queue_deque: on an empty list `ev` stays null. *)
Deque ==
  /\ Goto(Main, "deque", "release")
  /\ \/ events # <<>> /\ cur' = Head(events) /\ events' = Tail(events)
     \/ events = <<>> /\ UNCHANGED <<events, cur>>
  /\ UNCHANGED <<evque, owner, ev, posts, noMem, process>>

GetUnlock ==
  /\ Goto(Main, "release", "handle")
  /\ owner' = NoThread
  /\ UNCHANGED <<evque, events, ev, cur, posts, noMem, process>>

IsStop(item) == item # NoItem /\ item.code \in StopCodes

(* handle_event: the handler returns and the event is freed. *)
Handle ==
  /\ Goto(Main, "handle", "get")
  /\ ~IsStop(cur)
  /\ cur' = NoItem
  /\ UNCHANGED <<evque, owner, events, ev, posts, noMem, process>>

(* handle_event: sysctrl_power_off ends in while(1) and never returns. *)
PowerOff ==
  /\ Goto(Main, "handle", "off")
  /\ IsStop(cur)
  /\ UNCHANGED <<evque, owner, events, ev, cur, posts, noMem, process>>

-----------------------------------------------------------------------------
MainStep ==
  \/ CreateAlloc \/ CreateInit
  \/ GetLock \/ TestEmpty \/ TestFull \/ SpuriousWakeup \/ Relock
  \/ Deque \/ GetUnlock \/ Handle \/ PowerOff

(* evque_set_event once it has been entered. *)
InPost(p) == SetLock(p) \/ Enque(p) \/ SetUnlock(p) \/ Signal(p)

Call(p) ==
  \/ \E c \in Codes : Post(p, c)
  \/ PostNoMem(p) \/ PostNoQueue(p) \/ PostTooEarly(p)

Next == MainStep \/ \E p \in Producers : Call(p) \/ InPost(p)

(* Every thread that is inside a call keeps running; a spurious wakeup may
   never come and nobody has to post. *)
MainFair ==
  CreateAlloc \/ CreateInit \/ GetLock \/ TestEmpty \/ TestFull \/ Relock
  \/ Deque \/ GetUnlock \/ Handle \/ PowerOff

Fairness == WF_vars(MainFair) /\ \A p \in Producers : WF_vars(InPost(p))

Spec == Init /\ [][Next]_vars /\ Fairness

-----------------------------------------------------------------------------
MainLabels == {"boot", "create", "get", "test", "wait", "relock", "deque",
               "release", "handle", "off"}
PostLabels == {"idle", "lock", "enque", "unlock", "signal"}

(* Type correctness; only allocated events are ever in the list. *)
TypeOK ==
  /\ evque \in {"null", "raw", "ready"}
  /\ owner \in Threads \cup {NoThread}
  /\ events \in Seq(Items)
  /\ pc \in [Threads -> MainLabels \cup PostLabels]
  /\ pc[Main] \in MainLabels
  /\ \A p \in Producers : pc[p] \in PostLabels
  /\ ev \in [Producers -> Items \cup {NoItem}]
  /\ \A p \in Producers : pc[p] \in {"lock", "enque"} => ev[p] \in Items
  /\ cur \in Items \cup {NoItem}
  /\ posts \in [Producers -> 0..MaxPosts]
  /\ noMem \in 0..MaxNoMem
  /\ process \in {"running", "ended"}

InCritical(t) == pc[t] \in {"enque", "unlock", "test", "deque", "release"}

(* A thread is inside the section guarded by evque->mutex exactly when it
   holds the mutex: two threads never work on the list at once. *)
MutexDiscipline == \A t \in Threads : InCritical(t) <=> owner = t

(* No lost wakeup: when the event loop sleeps in pthread_cond_wait although an
   event is queued, a producer is still on its way to the signal.  (The signal
   is sent after the mutex is released.) *)
NoLostWakeup ==
  (pc[Main] = "wait" /\ events # <<>>) =>
     \E p \in Producers : pc[p] \in {"unlock", "signal"}

(* handle_event never gets a null event from an existing queue, whatever the
   spurious wakeups: the wait is a loop and the list is unchanged between the
   test and the removal. *)
NeverNullEvent ==
  /\ pc[Main] = "deque" => events # <<>>
  /\ pc[Main] \in {"release", "handle", "off"} => cur # NoItem

Before(a, b) == a.by = b.by => a.seq < b.seq

(* The events of one producer are handled in the order it posted them, none
   twice: for one key, PUSH before HOLD before RELEASE. *)
PostingOrder ==
  /\ \A i, j \in 1..Len(events) : i < j => Before(events[i], events[j])
  /\ cur # NoItem => \A i \in 1..Len(events) : Before(cur, events[i])
  /\ \A p \in Producers : ev[p] # NoItem =>
       /\ \A i \in 1..Len(events) : Before(events[i], ev[p])
       /\ cur # NoItem => Before(cur, ev[p])

(* The queue implements the abstract FIFO channel, its fairness included. *)
Fifo == INSTANCE EventFifo WITH chan <- events, Final <- IsStop
FifoSpec == Fifo!Spec

(* Every event that reached the list is eventually handled, unless the loop is
   powering the device off or the process has ended. *)
EventuallyHandled ==
  \A p \in Producers, n \in 1..MaxPosts :
    (\E i \in 1..Len(events) : events[i].by = p /\ events[i].seq = n)
      ~> \/ cur # NoItem /\ cur.by = p /\ cur.seq = n
         \/ pc[Main] = "off"
         \/ process = "ended"
=============================================================================
