---------------------------- MODULE RangeFinder ----------------------------
(***************************************************************************)
(* modules/lrf.c: one measurement by the laser range finder.  Pulling the  *)
(* trigger starts a thread that charges the laser, waits until the trigger *)
(* is released, fires, asks the module for the distance and ends;          *)
(* releasing it fires and joins the thread.  A third thread reads the      *)
(* answers.  trigger and inProc are shared without a common lock.          *)
(*                                                                         *)
(* Each start is a shot of its own.  A distance is the set of the shots it *)
(* was computed from, {} being zero.  The laser, its control pins and the  *)
(* line are external; the range gate is zero, so it is never sent.         *)
(***************************************************************************)
EXTENDS Naturals, Sequences

CONSTANTS MaxShots,   \* bound: measurements
          MaxFaults   \* bound: failures of any part, late answers

ASSUME RangeFinderAssumption ==
  MaxShots \in Nat /\ MaxFaults \in Nat

Shots == 1..MaxShots

VARIABLES
  shots,     \* how many threads were created; the last one is this->tid
  thread,    \* where the thread of a shot is
  inProc, trigger, waitAck, range,   \* this->...
  requests,  \* the line: shots whose distance is asked for
  answers,   \* the line: what the module sends
  faults,
  far,       \* history: the shots whose distance was beyond LRF_COMP_INTERVB
  crowded,   \* history: a thread was started before the last one was joined
  doubt      \* history: that, or an answer was lost, late or unreadable

lrfVars == <<shots, thread, inProc, trigger, waitAck, range, requests, answers,
             faults, far, crowded, doubt>>
line == <<requests, answers>>

Ended == {"measured", "failed"}   \* measured: the thread returned 0
Places == Ended \cup {"none", "begin", "charge", "charged", "unreleased", "armed",
                      "over", "fired", "ask", "sent", "free", "asleep", "awake", "joined"}
Triggers == {"none", "wait", "false", "ready", "fire", "overcharge"}
Kinds == {"near", "far", "zero", "bad"}

LrfInit ==
  /\ shots = 0 /\ thread = [n \in Shots |-> "none"]
  /\ inProc = FALSE /\ trigger = "none" /\ waitAck = FALSE /\ range = {}
  /\ requests = <<>> /\ answers = <<>> /\ faults = 0 /\ far = {}
  /\ crowded = FALSE /\ doubt = FALSE

Fault == faults < MaxFaults /\ faults' = faults + 1

At(n, place) == thread[n] = place
Go(n, place) == thread' = [thread EXCEPT ![n] = place]

-----------------------------------------------------------------------------
(* lrf_thread_measuring, up to the laser. *)

Begin(n) ==
  /\ At(n, "begin") /\ Go(n, "charge")
  /\ inProc' = TRUE /\ trigger' = "wait"
  /\ UNCHANGED <<shots, waitAck, range, line, faults, doubt, crowded, far>>

Charge(n) ==
  /\ At(n, "charge")
  /\ \/ Go(n, "charged") /\ UNCHANGED faults
     \/ Go(n, "failed") /\ Fault
  /\ UNCHANGED <<shots, inProc, trigger, waitAck, range, line, doubt, crowded, far>>

(* The test of the trigger and the assignment after it are two steps. *)
TestTrigger(n) ==
  /\ At(n, "charged")
  /\ Go(n, IF trigger = "false" THEN "failed" ELSE "unreleased")
  /\ UNCHANGED <<shots, inProc, trigger, waitAck, range, line, faults, doubt, crowded, far>>

Arm(n) ==
  /\ At(n, "unreleased") /\ Go(n, "armed")
  /\ trigger' = "ready"
  /\ UNCHANGED <<shots, inProc, waitAck, range, line, faults, doubt, crowded, far>>

(* Mutant: the laser fires as soon as it is ready. *)
FireWhenReady(n) ==
  /\ At(n, "armed") /\ trigger \in {"ready", "fire"} /\ Go(n, "fired")
  /\ UNCHANGED <<shots, inProc, trigger, waitAck, range, line, faults, doubt, crowded, far>>

Fire(n) ==
  /\ At(n, "armed") /\ trigger = "fire" /\ Go(n, "fired")
  /\ UNCHANGED <<shots, inProc, trigger, waitAck, range, line, faults, doubt, crowded, far>>

(* lrf_poll_trigger gives up after 3 s. *)
GiveUp(n) ==
  /\ At(n, "armed") /\ trigger # "fire" /\ Go(n, "over")
  /\ UNCHANGED <<shots, inProc, trigger, waitAck, range, line, faults, doubt, crowded, far>>

Overcharge(n) ==
  /\ At(n, "over") /\ Go(n, "failed")
  /\ trigger' = "overcharge"
  /\ UNCHANGED <<shots, inProc, waitAck, range, line, faults, doubt, crowded, far>>

Measure(n) ==
  /\ At(n, "fired")
  /\ \/ Go(n, "ask") /\ UNCHANGED faults
     \/ Go(n, "failed") /\ Fault
  /\ UNCHANGED <<shots, inProc, trigger, waitAck, range, line, doubt, crowded, far>>

(* lrf_request_measures: its result is ignored. *)
Ask(n) ==
  /\ At(n, "ask")
  /\ \/ Go(n, "sent") /\ requests' = Append(requests, n) /\ UNCHANGED <<faults, doubt>>
     \/ Go(n, "measured") /\ Fault /\ doubt' = TRUE /\ UNCHANGED requests
  /\ UNCHANGED <<shots, inProc, trigger, waitAck, range, answers, crowded, far>>

(* lrf_wait_ack: with another thread waiting, it returns at once. *)
TestWait(n) ==
  /\ At(n, "sent")
  /\ Go(n, IF waitAck THEN "measured" ELSE "free")
  /\ doubt' = (doubt \/ waitAck)
  /\ UNCHANGED <<shots, inProc, trigger, waitAck, range, line, faults, crowded, far>>

Sleep(n) ==
  /\ At(n, "free") /\ Go(n, "asleep")
  /\ waitAck' = TRUE
  /\ UNCHANGED <<shots, inProc, trigger, range, line, faults, doubt, crowded, far>>

Wake(n) ==
  /\ At(n, "awake")
  /\ Go(n, IF waitAck THEN "asleep" ELSE "measured")
  /\ UNCHANGED <<shots, inProc, trigger, waitAck, range, line, faults, doubt, crowded, far>>

Measuring(n) ==
  \/ Begin(n) \/ Charge(n) \/ TestTrigger(n) \/ Arm(n) \/ Fire(n) \/ GiveUp(n)
  \/ Overcharge(n) \/ Measure(n) \/ Ask(n) \/ TestWait(n) \/ Sleep(n) \/ Wake(n)

-----------------------------------------------------------------------------
(* lrf_read_message *)

(* lrf_recv_ack wakes one thread. *)
Acknowledge ==
  /\ waitAck' = FALSE
  /\ LET asleep == {n \in Shots : thread[n] = "asleep"} IN
       IF waitAck /\ asleep # {} THEN \E n \in asleep : Go(n, "awake")
                                 ELSE UNCHANGED thread

(* lrf_parse_reqmeas_ack: a far distance is corrected by the one before. *)
RangeAfter(a) ==
  CASE a.kind = "near" -> {a.shot}
    [] a.kind = "far"  -> {a.shot} \cup range
    [] a.kind = "zero" -> {}
    [] a.kind = "bad"  -> range

Read ==
  /\ answers # <<>>
  /\ range' = RangeAfter(Head(answers))
  /\ far' = IF Head(answers).kind = "far" THEN far \cup {Head(answers).shot} ELSE far
  /\ answers' = Tail(answers)
  /\ doubt' = (doubt \/ Head(answers).kind = "bad")
  /\ Acknowledge
  /\ UNCHANGED <<shots, inProc, trigger, requests, faults, crowded>>

(* Mutant: the timeout sets the error but does not acknowledge. *)
ExpireQuietly ==
  /\ waitAck /\ answers = <<>> /\ requests # <<>>
  /\ Fault
  /\ doubt' = TRUE
  /\ UNCHANGED <<shots, thread, waitAck, inProc, trigger, range, requests, answers, crowded, far>>

(* No answer for 3 s: none is due, or it is late. *)
Expire ==
  /\ waitAck /\ answers = <<>>
  /\ IF requests = <<>> THEN UNCHANGED faults ELSE Fault
  /\ doubt' = (doubt \/ requests # <<>>)
  /\ Acknowledge
  /\ UNCHANGED <<shots, inProc, trigger, range, requests, answers, crowded, far>>

-----------------------------------------------------------------------------
(* The module answers, unreadably or with an error bit, or not at all. *)
Answer ==
  /\ requests # <<>>
  /\ requests' = Tail(requests)
  /\ \/ \E k \in Kinds :
          /\ answers' = Append(answers, [shot |-> Head(requests), kind |-> k])
          /\ IF k = "bad" THEN Fault ELSE UNCHANGED faults
          /\ UNCHANGED doubt
     \/ Fault /\ doubt' = TRUE /\ UNCHANGED answers
  /\ UNCHANGED <<shots, thread, inProc, trigger, waitAck, range, crowded, far>>

-----------------------------------------------------------------------------
(* The main thread. *)

(* lrf_start_measuring; inProc is set by the thread. *)
StartMeasuring ==
  /\ ~inProc
  /\ shots < MaxShots
  /\ crowded' = (crowded \/ (shots > 0 /\ thread[shots] # "joined"))
  /\ shots' = shots + 1
  /\ thread' = [thread EXCEPT ![shots + 1] = "begin"]
  /\ doubt' = (doubt \/ crowded')
  /\ UNCHANGED <<inProc, trigger, waitAck, range, line, faults, far>>

(* lrf_fire_laser, with the trigger it has read. *)
FireLaser(seen) ==
  trigger' = CASE seen = "wait"  -> "false"
               [] seen = "ready" -> "fire"
               [] OTHER          -> trigger

(* Mutant: the measurement stays in process. *)
EndMeasuringInProc ==
  /\ thread[shots] \in Ended
  /\ Go(shots, "joined")
  /\ trigger' = "none" /\ UNCHANGED inProc
  /\ UNCHANGED <<shots, waitAck, range, line, faults, doubt, crowded, far>>

(* lrf_finalize_measruing, when pthread_join returns. *)
EndMeasuring ==
  /\ thread[shots] \in Ended
  /\ Go(shots, "joined")
  /\ inProc' = FALSE /\ trigger' = "none"
  /\ UNCHANGED <<shots, waitAck, range, line, faults, doubt, crowded, far>>

=============================================================================
