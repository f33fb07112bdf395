--------------------------------- MODULE Mcu ---------------------------------
(***************************************************************************)
(* modules/mcu.c: requests to the microcontroller over a serial line.  The *)
(* main thread writes a request and waits for the reader thread to         *)
(* acknowledge it; the reader parses what the MCU sends and acknowledges   *)
(* whatever is waiting, by any frame or by a timeout.  The MCU moves the   *)
(* shutter and answers, late or never; it also sends frames of its own     *)
(* (voltage, external power, power key).                                   *)
(*                                                                         *)
(* The mutex guards one test or assignment of waitAck at a time, so a      *)
(* critical section is one step here.  The requests that do not move the   *)
(* shutter are one, OTHER.  Left out: standby and the self-test, which the *)
(* updater does not call, and the battery's values.                        *)
(***************************************************************************)
EXTENDS Naturals, Sequences

CONSTANTS MaxInFlight,   \* bound: requests, and frames, on the line
          MaxNotices,    \* bound: frames the MCU sends of its own
          MaxFaults      \* bound: lost, damaged or cut frames, failed writes

ASSUME McuAssumption ==
  MaxInFlight \in Nat \ {0} /\ MaxNotices \in Nat /\ MaxFaults \in Nat

Filters   == {"LXMVT", "HXMVT"}
Positions == {"CLOSE"} \cup Filters

Requests == [cmd : {"MOVE"}, pos : Positions] \cup [cmd : {"OTHER"}, pos : {"none"}]

(* What the reader gets: an answer with the position of the shutter, any other
   frame, and whether its checksum is right. *)
Frames == [cmd : {"MOVE"}, pos : Positions, ok : BOOLEAN]
            \cup [cmd : {"OTHER", "NOTICE"}, pos : {"none"}, ok : BOOLEAN]

Troubles == {"damaged", "notice", "timeout", "early"}

VARIABLES
  pos,      \* MCU: where the shutter is
  tx, rx,   \* the line: requests to the MCU, frames from it
  cut,      \* the reader holds the beginning of a frame whose rest is lost
  shutter,  \* this->shutter: close, filter, motion
  waitAck,  \* this->waitAck
  age,      \* time since the request was written, against the timeouts
  caller,   \* where the main thread is
  op,       \* its last request that was written
  reader,   \* where the reader thread is
  cause,    \* what it acknowledges: a frame or a timeout
  notices, faults,
  known,    \* history: the MCU has reported pos since the shutter moved last
  trouble   \* history: why an acknowledgement was not the answer waited for

host == <<shutter, waitAck, age, caller, op, reader, cause>>

vars == <<pos, tx, rx, cut, host, notices, faults, known, trouble>>

(* mcu_init_attribute: the driver takes the shutter to be open, wherever it is. *)
Init ==
  /\ pos \in Positions
  /\ tx = <<>> /\ rx = <<>> /\ cut = FALSE
  /\ shutter = [close |-> FALSE, filter |-> "HXMVT", motion |-> FALSE]
  /\ waitAck = FALSE
  /\ age = "young"
  /\ caller = "idle"
  /\ op = [cmd |-> "OTHER", pos |-> "none"]
  /\ reader = "poll"
  /\ cause = "answer"
  /\ notices = 0 /\ faults = 0
  /\ known = FALSE
  /\ trouble = {}

Fault == faults < MaxFaults /\ faults' = faults + 1

-----------------------------------------------------------------------------
(* The main thread. *)

(* The position to ask the MCU for: none if the shutter is thought to be there. *)
Target(p) ==
  CASE p = "CLOSE" -> IF shutter.close THEN "none" ELSE "CLOSE"
    [] p = "OPEN"  -> IF shutter.close THEN shutter.filter ELSE "none"
    [] OTHER       -> IF shutter.filter = p THEN "none" ELSE p

(* mcu_write_message: the time is taken when the request is written. *)
Write(r, next) ==
  \/ /\ Len(tx) < MaxInFlight
     /\ tx' = Append(tx, r)
     /\ age' = "young"
     /\ caller' = next
     /\ op' = r
     /\ UNCHANGED faults
  \/ /\ Fault
     /\ UNCHANGED <<tx, age, caller, op>>

(* mcu_move_shutter: nothing is done if the shutter is thought to be there. *)
Move ==
  /\ caller = "idle"
  /\ \E p \in Positions \cup {"OPEN"} :
       /\ Target(p) # "none"
       /\ Write([cmd |-> "MOVE", pos |-> Target(p)], "sent")
  /\ UNCHANGED <<pos, rx, cut, shutter, waitAck, reader, cause, notices, known, trouble>>

(* mcu_request_version, mcu_set_cellthold, mcu_disable_pmic, ... *)
Ask ==
  /\ caller = "idle"
  /\ Write([cmd |-> "OTHER", pos |-> "none"], "wait")
  /\ UNCHANGED <<pos, rx, cut, shutter, waitAck, reader, cause, notices, known, trouble>>

SetMotion ==
  /\ caller = "sent"
  /\ shutter' = [shutter EXCEPT !.motion = TRUE]
  /\ caller' = "wait"
  /\ UNCHANGED <<pos, tx, rx, cut, waitAck, age, op, reader, cause, notices,
                 faults, known, trouble>>

(* mcu_wait_ack *)
SetWait ==
  /\ caller = "wait"
  /\ waitAck' = TRUE
  /\ caller' = "test"
  /\ UNCHANGED <<pos, tx, rx, cut, shutter, age, op, reader, cause, notices,
                 faults, known, trouble>>

TestWait ==
  /\ caller = "test"
  /\ caller' = IF waitAck THEN "asleep" ELSE "idle"
  /\ UNCHANGED <<pos, tx, rx, cut, shutter, waitAck, age, op, reader, cause, notices,
                 faults, known, trouble>>

(* Mutant: a wakeup is taken for the acknowledgement. *)
WakeupNoRetest ==
  /\ caller = "asleep"
  /\ caller' = "idle"
  /\ UNCHANGED <<pos, tx, rx, cut, shutter, waitAck, age, op, reader, cause, notices,
                 faults, known, trouble>>

(* pthread_cond_wait may return without a signal *)
SpuriousWakeup ==
  /\ caller = "asleep"
  /\ caller' = "test"
  /\ UNCHANGED <<pos, tx, rx, cut, shutter, waitAck, age, op, reader, cause,
                 notices, faults, known, trouble>>

-----------------------------------------------------------------------------
(* The reader thread: mcu_read_message. *)

(* Mutant: the answer to a move leaves the shutter closed. *)
ParseKeepsClosed(p) ==
  [close |-> shutter.close \/ p = "CLOSE",
   filter |-> IF p = "CLOSE" THEN shutter.filter ELSE p, motion |-> FALSE]

(* mcu_parse_shutter_position *)
Parse(p) ==
  [close |-> p = "CLOSE", filter |-> IF p = "CLOSE" THEN shutter.filter ELSE p,
   motion |-> FALSE]

(* A frame is complete.  Whatever it is, it acknowledges. *)
Receive ==
  /\ reader = "poll" /\ rx # <<>>
  /\ LET f == Head(rx) IN
       /\ shutter' = IF f.ok /\ f.cmd = "MOVE" THEN Parse(f.pos) ELSE shutter
       /\ cause' = IF ~f.ok THEN "damaged"
                   ELSE IF f.cmd = "NOTICE" THEN "notice" ELSE "answer"
  /\ rx' = Tail(rx)
  /\ reader' = "ack"
  /\ trouble' = IF caller = "sent" THEN trouble \cup {"early"} ELSE trouble
  /\ UNCHANGED <<pos, tx, cut, waitAck, age, caller, op, notices, faults, known>>

(* 3 s, or 9 s while the shutter moves. *)
Overdue == age = "9s" \/ (age = "3s" /\ ~shutter.motion)

(* A second of silence: the request, if one waits, is overdue; or the line has
   been silent for 3 s (which are not counted here). *)
Timeout ==
  /\ reader = "poll" /\ rx = <<>>
  /\ waitAck => Overdue
  /\ cut' = FALSE
  /\ reader' = "ack"
  /\ cause' = "timeout"
  /\ UNCHANGED <<pos, tx, rx, shutter, waitAck, age, caller, op, notices, faults, known,
                 trouble>>

(* Mutant: the caller is woken with waitAck still set. *)
AckNoClear ==
  /\ reader = "ack"
  /\ reader' = IF waitAck THEN "signal" ELSE "poll"
  /\ trouble' = IF waitAck /\ cause # "answer" THEN trouble \cup {cause} ELSE trouble
  /\ cause' = "answer"
  /\ UNCHANGED <<pos, tx, rx, cut, shutter, waitAck, age, caller, op,
                 notices, faults, known>>

(* mcu_recv_ack *)
Ack ==
  /\ reader = "ack"
  /\ waitAck' = FALSE
  /\ reader' = IF waitAck THEN "signal" ELSE "poll"
  /\ trouble' = IF waitAck /\ cause # "answer" THEN trouble \cup {cause} ELSE trouble
  /\ cause' = "answer"
  /\ UNCHANGED <<pos, tx, rx, cut, shutter, age, caller, op, notices, faults, known>>

Signal ==
  /\ reader = "signal"
  /\ caller' = IF caller = "asleep" THEN "test" ELSE caller
  /\ reader' = "poll"
  /\ UNCHANGED <<pos, tx, rx, cut, shutter, waitAck, age, op, cause, notices,
                 faults, known, trouble>>

-----------------------------------------------------------------------------
(* The MCU and the line. *)

Elapse ==
  /\ caller # "idle" /\ age # "9s"
  /\ age' = IF age = "young" THEN "3s" ELSE "9s"
  /\ UNCHANGED <<pos, tx, rx, cut, shutter, waitAck, caller, op, reader, cause,
                 notices, faults, known, trouble>>

(* After the beginning of a frame whose rest is lost, the next one completes it
   to a frame with a wrong checksum. *)
Send(cmd, p) ==
  /\ Len(rx) < MaxInFlight
  /\ rx' = Append(rx, [cmd |-> cmd, pos |-> p, ok |-> ~cut])
  /\ cut' = FALSE

Garble(cmd, p) ==
  /\ Fault
  /\ \/ /\ Len(rx) < MaxInFlight
        /\ rx' = Append(rx, [cmd |-> cmd, pos |-> p, ok |-> FALSE])
        /\ cut' = FALSE
     \/ cut' = TRUE /\ UNCHANGED rx
     \/ UNCHANGED <<rx, cut>>

(* A request is done and answered. *)
Answer ==
  /\ tx # <<>>
  /\ LET r == Head(tx) IN
       /\ pos' = IF r.cmd = "MOVE" THEN r.pos ELSE pos
       /\ \/ /\ Send(r.cmd, r.pos)
             /\ known' = IF r.cmd = "MOVE" THEN ~cut ELSE known
             /\ UNCHANGED faults
          \/ /\ Garble(r.cmd, r.pos)
             /\ known' = (known /\ r.cmd # "MOVE")
  /\ tx' = Tail(tx)
  /\ UNCHANGED <<host, notices, trouble>>

LoseRequest ==
  /\ tx # <<>>
  /\ Fault
  /\ tx' = Tail(tx)
  /\ UNCHANGED <<pos, rx, cut, host, notices, known, trouble>>

Notice ==
  /\ notices < MaxNotices
  /\ notices' = notices + 1
  /\ \/ Send("NOTICE", "none") /\ UNCHANGED faults
     \/ Garble("NOTICE", "none")
  /\ UNCHANGED <<pos, tx, host, known, trouble>>

-----------------------------------------------------------------------------
InCall == SetMotion \/ SetWait \/ TestWait

Reader == Receive \/ Timeout \/ Ack \/ Signal

Device == Answer \/ LoseRequest \/ Notice

Next == Move \/ Ask \/ InCall \/ SpuriousWakeup \/ Reader \/ Elapse \/ Device

(* The threads are scheduled and the clock runs; the MCU may stay silent. *)
Fairness == WF_vars(InCall) /\ WF_vars(Reader) /\ WF_vars(Elapse)

Spec == Init /\ [][Next]_vars /\ Fairness

-----------------------------------------------------------------------------
TypeOK ==
  /\ pos \in Positions
  /\ tx \in Seq(Requests) /\ rx \in Seq(Frames)
  /\ cut \in BOOLEAN
  /\ shutter \in [close : BOOLEAN, filter : Filters, motion : BOOLEAN]
  /\ waitAck \in BOOLEAN
  /\ age \in {"young", "3s", "9s"}
  /\ caller \in {"idle", "sent", "wait", "test", "asleep"}
  /\ waitAck => caller \in {"test", "asleep"}
  /\ op \in Requests
  /\ reader \in {"poll", "ack", "signal"}
  /\ cause \in {"answer", "notice", "damaged", "timeout"}
  /\ notices \in 0..MaxNotices /\ faults \in 0..MaxFaults
  /\ known \in BOOLEAN
  /\ trouble \subseteq Troubles

(* mcu_get_shutter_position *)
ShutterPos == IF shutter.close THEN "CLOSE" ELSE shutter.filter

(* No lost acknowledgement: the caller sleeps on a cleared waitAck only while
   the reader is about to signal it. *)
NoLostAck == caller = "asleep" /\ ~waitAck => reader = "signal"

Answers == {i \in 1..Len(rx) : rx[i].cmd # "NOTICE"}

(* What the driver believes of the shutter is true once it has read the MCU's
   report, if the report of the last move came through: no timeout, notice or
   late answer makes it forget or mix up a move. *)
BeliefIsTrue ==
  known /\ (\A i \in Answers : rx[i].cmd # "MOVE") => ShutterPos = pos

(* As long as every wait was ended by an answer, it was the answer to the
   request that waited: nothing is outstanding after the call, and a shutter
   that was told to move is there.  (One timeout or notice, and each call may
   return on the answer to the one before it.) *)
AnswerIsMine ==
  caller = "idle" /\ trouble = {} =>
    /\ tx = <<>> /\ Answers = {}
    /\ op.cmd = "MOVE" => pos = op.pos /\ ShutterPos = op.pos

(* The shutter is thought to be moving, which triples every timeout, only
   during the move, unless a wait went wrong or the MCU answered before the
   caller had noted the move (mcu_move_shutter notes it after the write). *)
MotionEnds == shutter.motion /\ caller = "idle" => trouble # {}

(* Every call returns, though the MCU may never answer. *)
CallReturns == caller # "idle" ~> caller = "idle"
=============================================================================
