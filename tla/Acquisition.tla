---------------------------- MODULE Acquisition ----------------------------
(***************************************************************************)
(* core/taqmgr.c and core/sysctrl.c: acquiring a target.  The user pulls   *)
(* and releases the trigger; the distance (module RangeFinder, or typed    *)
(* in), the compass' angles and the observer's place give a position, kept *)
(* at the head of a buffer (module TaqData).  Two more modes measure an    *)
(* edge of the target or where a shot fell, compute the target's size or   *)
(* the shift from it and remove it again; a square takes two edges.        *)
(*                                                                         *)
(* The main thread does the steps of a release one after the other.  What  *)
(* a position is, and sending it, are left out; the trigger's key is       *)
(* external and works while no choice is open.                             *)
(***************************************************************************)
EXTENDS RangeFinder, TaqData

Modes    == {"point", "circular", "length", "width", "fos"}
Statuses == {"idle", "inproc", "acquired"}

(* shot and from: the measurement it was taken with, 0 being typed in, and those
   its distance was computed from; a point of another mode is an aid. *)
Data == [shot : 0..MaxShots, from : SUBSET (0..MaxShots), aid : BOOLEAN,
         size : {"none", "circular", "width", "fos"}]

VARIABLES
  manual,   \* userData has USE_USER_INPUT_RANGE
  mrst,     \* this->mrst is MANUAL_RANGING_INPROC
  mode, status,
  buffer,   \* this->taqBuffer
  held,     \* the user holds the trigger
  call,     \* where the main thread is in a release
  seen,     \* the trigger fire() has read
  ranged,   \* finalizeMeasuring returned 0
  sane,     \* history: no thread joined twice, no missing data read
  early,    \* history: a release came before its thread had started
  spoilt    \* history: a square's width failed and left the length's edge

taqVars == <<manual, mrst, mode, status, buffer, held, call, seen,
             ranged, sane, early, spoilt>>
vars == <<lrfVars, taqVars>>

userData == <<manual, mrst>>
results  == <<mode, status, buffer, spoilt>>
release  == <<call, seen, ranged>>

TaqInit ==
  /\ manual = FALSE /\ mrst = FALSE
  /\ mode = "point" /\ status = "idle"
  /\ buffer = taqdata_manager_create
  /\ held = FALSE /\ call = "none" /\ seen = "none" /\ ranged = FALSE
  /\ sane = TRUE /\ early = FALSE /\ spoilt = FALSE

Init == LrfInit /\ TaqInit

Idle == call = "none"

-----------------------------------------------------------------------------
(* Pulling the trigger: sysctrl_push_trigger, taqmgr_start_target_acquistion. *)

StartRanging ==
  \/ manual /\ mrst' = TRUE /\ UNCHANGED lrfVars
  \/ ~manual /\ StartMeasuring /\ UNCHANGED mrst

(* North is not the grid's, the device is tilted, or a measurement is in process. *)
Refused ==
  /\ \/ Fault /\ UNCHANGED <<shots, thread, inProc, trigger, waitAck, range, line,
                             far, crowded, doubt>>
     \/ ~manual /\ inProc /\ UNCHANGED lrfVars
  /\ UNCHANGED <<mrst, status>>

Push ==
  /\ Idle /\ ~held /\ status # "acquired"
  /\ held' = TRUE
  /\ \/ StartRanging /\ status' = "inproc"
     \/ Refused
  /\ UNCHANGED <<manual, mode, buffer, spoilt, release, sane, early>>

-----------------------------------------------------------------------------
(* Releasing it: sysctrl_release_trigger, taqmgr_finalize_target_acquistion,
   taqmgr_check_taqcond. *)

Doing(step) == call = step
Then(step) == call' = step

Release ==
  /\ Idle /\ held
  /\ held' = FALSE
  /\ Then(IF manual THEN "judge" ELSE "fire")
  /\ ranged' = (manual /\ mrst)
  /\ mrst' = (mrst /\ ~manual)
  /\ early' = (early \/ (~manual /\ shots > 0 /\ ~inProc /\ thread[shots] = "begin"))
  /\ UNCHANGED <<lrfVars, manual, results, seen, sane>>

ReadTrigger ==
  /\ Doing("fire") /\ Then("pull")
  /\ seen' = IF inProc THEN trigger ELSE "none"
  /\ UNCHANGED <<lrfVars, userData, results, held, ranged, sane, early>>

PullTrigger ==
  /\ Doing("pull") /\ Then("finalize")
  /\ FireLaser(seen)
  /\ seen' = "none"
  /\ UNCHANGED <<shots, thread, inProc, waitAck, range, line, faults, far, crowded, doubt>>
  /\ UNCHANGED <<userData, results, held, ranged, sane, early>>

Finalize ==
  /\ Doing("finalize") /\ Then(IF inProc THEN "join" ELSE "judge")
  /\ UNCHANGED <<lrfVars, userData, results, held, seen, ranged, sane, early>>

(* Mutant: what the thread returns is ignored. *)
JoinAnyResult ==
  /\ Doing("join") /\ EndMeasuring /\ Then("judge")
  /\ ranged' = TRUE
  /\ UNCHANGED <<userData, results, held, seen, sane, early>>

(* lrf_finalize_measruing joins the last thread, or one it has joined before. *)
Join ==
  /\ Doing("join")
  /\ \/ EndMeasuring /\ Then("judge")
        /\ ranged' = (thread[shots] = "measured")
        /\ UNCHANGED sane
     \/ /\ thread[shots] = "joined"
        /\ sane' = FALSE
        /\ UNCHANGED <<lrfVars, call, ranged>>
  /\ UNCHANGED <<userData, results, held, seen, early>>

-----------------------------------------------------------------------------
(* What becomes of a measurement. *)

(* sysctrl_release_trigger, with the buffer b as the calculation has left it. *)
Failed(code, b) ==
  LET lost == mode # "point" /\ code \in {"ERROR", "GNSS_ERROR", "DMC_ERROR"} IN
  /\ mode' = "point"
  /\ status' = IF mode = "point" \/ lost THEN "idle" ELSE "acquired"
  /\ buffer' = IF lost THEN taqdata_manager_create ELSE b
  /\ spoilt' = (~lost /\ (spoilt \/ (mode = "width" /\ b = buffer)))

Succeeded(b) ==
  /\ mode' = IF mode = "length" THEN "width" ELSE "point"
  /\ status' = IF mode = "length" THEN status ELSE "acquired"
  /\ buffer' = b
  /\ UNCHANGED spoilt

(* The order in which taqmgr_finalize_target_acquistion tells what is wrong. *)
Wrong(distance, offline) ==
  CASE ranged /\ distance = {} -> "ZERO_RANGE"
    [] "dmc" \in offline       -> "DMC_ERROR"
    [] "gnss" \in offline      -> "GNSS_ERROR"
    [] ~ranged                 -> "ERROR"
    [] OTHER                   -> "ok"

(* What the range finder has kept, or what was typed in; that may be zero. *)
Distances == IF manual THEN {{0}, {}} ELSE {range}

OnlyFaults ==
  UNCHANGED <<shots, thread, inProc, trigger, waitAck, range, line, far, crowded, doubt>>

Judge ==
  /\ Doing("judge")
  /\ \E offline \in SUBSET {"dmc", "gnss"}, distance \in Distances :
       /\ IF offline # {} \/ (manual /\ distance = {}) THEN Fault ELSE UNCHANGED faults
       /\ LET code == Wrong(distance, offline) IN
            \/ code = "ok" /\ Then("angles") /\ UNCHANGED results
            \/ code # "ok" /\ Then("none") /\ Failed(code, buffer)
  /\ ranged' = FALSE
  /\ OnlyFaults
  /\ UNCHANGED <<userData, held, seen, sane, early>>

(* taqmgr_get_foward_angles waits for the compass without a limit. *)
Angles ==
  /\ Doing("angles")
  /\ \/ Then("calculate") /\ UNCHANGED faults
     \/ Then("hung") /\ Fault
  /\ OnlyFaults
  /\ UNCHANGED <<userData, results, held, seen, ranged, sane, early>>

(* taqmgr_calculate_target_position *)
Position ==
  addData(buffer, [shot |-> IF manual THEN 0 ELSE shots,
                   from |-> IF manual THEN {0} ELSE range,
                   aid  |-> mode # "point", size |-> "none"])

(* The point that is n behind the head gets its size, which may be out of range; the
   points in front of it are removed either way. *)
Sized(b, n, fits) == IF fits THEN [b EXCEPT !.items[n + 1].size = mode] ELSE b

Radius(b, fits) == removeNewest(Sized(b, 1, fits))

(* Mutant: a square removes one edge only. *)
SquareSizeOneEdge(b, fits) == removeNewest(Sized(b, 2, fits))

SquareSize(b, fits) == removeNewest(removeNewest(Sized(b, 2, fits)))

Shift(b, fits) == removeNewest(Sized(b, 1, fits))

Result(b, fits) ==
  CASE mode = "circular" -> Radius(b, fits)
    [] mode = "width"    -> SquareSize(b, fits)
    [] mode = "fos"      -> Shift(b, fits)
    [] OTHER             -> b

(* How many points a mode's calculation reads behind the head. *)
Aids == CASE mode = "width" -> 2
          [] mode \in {"circular", "fos"} -> 1
          [] OTHER -> 0

(* The calculations of taqmgr_finalize_target_acquistion: of the position, then of a
   size or shift.  FAIL_GEODCALC in the second is treated like a size out of range. *)
Calculate ==
  /\ Doing("calculate") /\ Then("none")
  /\ \/ Fault /\ Failed("FAIL_GEODCALC", buffer) /\ UNCHANGED sane
     \/ /\ ~hasData(Position, Aids)
        /\ sane' = FALSE
        /\ UNCHANGED <<results, faults>>
     \/ /\ hasData(Position, Aids)
        /\ \/ Succeeded(Result(Position, TRUE)) /\ UNCHANGED faults
           \/ Aids > 0 /\ Failed("TARGET_SIZE_OVER", Result(Position, FALSE)) /\ Fault
        /\ UNCHANGED sane
  /\ OnlyFaults
  /\ UNCHANGED <<userData, held, seen, ranged, early>>

Main ==
  \/ ReadTrigger \/ PullTrigger \/ Finalize \/ Join \/ Judge \/ Angles \/ Calculate

-----------------------------------------------------------------------------
(* The user's choices between measurements. *)

Quiet == Idle /\ ~held
Choosing == Quiet /\ status = "acquired"

(* sysctrl_set_taqmode_circular_target, ... *)
SetTaqmode ==
  /\ Choosing
  /\ status' = "inproc"
  /\ mode' \in {"circular", "length", "fos"}
  /\ UNCHANGED <<lrfVars, userData, buffer, spoilt, release, held, sane, early>>

(* taqmgr_reset and the status after it *)
Reset ==
  /\ buffer' = taqdata_manager_create /\ spoilt' = FALSE
  /\ mode' = "point" /\ status' = "idle"

(* sysctrl_stop_target_acquisition, which adds the head to the list of targets. *)
Stop ==
  /\ Choosing
  /\ Reset
  /\ UNCHANGED lrfVars
  /\ UNCHANGED <<userData, release, held, sane, early>>

(* sysctrl_terminate_target_acquisition: its dialog opens in these modes only. *)
Terminate ==
  /\ Quiet /\ mode # "point"
  /\ mode' = "point" /\ status' = "acquired"
  /\ buffer' = IF mode = "width" THEN removeNewest(buffer) ELSE buffer
  /\ UNCHANGED <<lrfVars, userData, spoilt, release, held, sane, early>>

(* The user types a distance in, or has it measured again; bound: not while an
   acquisition is in process. *)
UseRange ==
  /\ Quiet /\ status # "inproc"
  /\ manual' = ~manual
  /\ UNCHANGED <<lrfVars, mrst, results, release, held, sane, early>>

User == Push \/ Release \/ SetTaqmode \/ Stop \/ Terminate \/ UseRange

Reader == (Read \/ Expire) /\ UNCHANGED taqVars

Measurement(n) == Measuring(n) /\ UNCHANGED taqVars

Next ==
  /\ sane
  /\ \/ Main \/ User \/ Reader
     \/ \E n \in Shots : Measurement(n)
     \/ Answer /\ UNCHANGED taqVars

(* The threads are scheduled; the module answers or its answer is lost. *)
Fairness ==
  /\ WF_vars(sane /\ Main)
  /\ WF_vars(sane /\ Reader)
  /\ WF_vars(sane /\ Answer /\ UNCHANGED taqVars)
  /\ \A n \in Shots : WF_vars(sane /\ Measurement(n))

Spec == Init /\ [][Next]_vars /\ Fairness

-----------------------------------------------------------------------------

(* The types of the variables. *)
TypeOK ==
  /\ shots \in 0..MaxShots /\ thread \in [Shots -> Places]
  /\ inProc \in BOOLEAN /\ trigger \in Triggers /\ waitAck \in BOOLEAN
  /\ range \subseteq Shots /\ far \subseteq Shots
  /\ mode \in Modes /\ status \in Statuses
  /\ buffer \in [items : Seq(Data), focus : 0..MAXNUM_TAQDATA]

(* What is offered to be sent or saved is the target, never the edge or the impact
   measured for its size or shift, and only the target has a size.  A square whose
   width could not be measured is the exception: the length's edge stays at the
   head and is taken for the target. *)
ResultIsTarget ==
  status = "acquired" =>
    /\ hasData(buffer, 0)
    /\ ~getData(buffer, 0).aid \/ spoilt
    /\ \A d \in Range(buffer.items) : d.size # "none" => ~d.aid \/ spoilt

(* What was kept of a measurement is computed from it alone; only of one beyond
   LRF_COMP_INTERVB from the distances kept before it, too (lrf.c:658). *)
FromItself(shot, from) == from = {shot} \/ (shot \in far /\ shot \in from)

(* A point's distance is its own measurement's and, but for a far one, no other's,
   however often the user pulls, and whatever the threads' order, unless an answer
   was lost, late or unreadable (the thread reports success all the same, and the
   distance measured before is used) or two measurements overlapped. *)
OwnRange ==
  \A d \in Range(buffer.items) : FromItself(d.shot, d.from) \/ doubt

(* The laser fires only after the trigger was released in an acquisition, and not
   in one that was refused, unless a release came before its thread had started:
   that thread is charged under the next press, which is refused, and fires when
   it ends. *)
LaserIsWanted ==
  [][\A n \in Shots :
       thread[n] = "armed" /\ thread'[n] = "fired" =>
         ~Idle /\ (status = "inproc" \/ early)]_vars

(* No thread is joined twice and no calculation reads more points than the buffer
   has, in any order of choices, unless two measurements overlapped. *)
NothingMissing == sane \/ crowded

(* A release ends, whatever the range finder does, unless the compass is silent or
   two measurements overlap: of two threads that wait for an answer one is woken. *)
AcquisitionEnds == ~Idle ~> (Idle \/ call = "hung" \/ ~sane \/ crowded)

=============================================================================
