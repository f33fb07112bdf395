------------------------------ MODULE KeyStream ------------------------------
(***************************************************************************)
(* What the key scan thread promises to the GUI: the key codes posted to   *)
(* the event queue describe one key at a time, PUSH, then HOLD and REPEATs *)
(* if it stays down, then RELEASE, or RELEASE with the HOLD bit when HOLD  *)
(* was posted.  Locking the keys may cut a stroke short.                   *)
(* KeyinHandler.tla shows that gui/gui_keyin_handler.c keeps the promise.  *)
(***************************************************************************)

CONSTANTS Keycodes, NoPost

VARIABLE sent   \* the last code posted, or NoPost after the keys were locked

Code(k, kind) == [key |-> k, kind |-> kind]

Init == sent = NoPost

Between == sent = NoPost \/ \E k \in Keycodes : sent \in {Code(k, "RELEASE"), Code(k, "HOLD_RELEASE")}

Push(k) == Between /\ sent' = Code(k, "PUSH")

Hold(k) == sent = Code(k, "PUSH") /\ sent' = Code(k, "HOLD")

Repeat(k) == sent \in {Code(k, "HOLD"), Code(k, "REPEAT")} /\ sent' = Code(k, "REPEAT")

Release(k) ==
  \/ sent = Code(k, "PUSH") /\ sent' = Code(k, "RELEASE")
  \/ sent \in {Code(k, "HOLD"), Code(k, "REPEAT")} /\ sent' = Code(k, "HOLD_RELEASE")

Cut == sent' = NoPost

Next == Cut \/ \E k \in Keycodes : Push(k) \/ Hold(k) \/ Repeat(k) \/ Release(k)

Spec == Init /\ [][Next]_sent
=============================================================================
