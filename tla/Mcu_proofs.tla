------------------------------ MODULE Mcu_proofs ------------------------------
(***************************************************************************)
(* Theorems about the two models of modules/mcu.c: Mcu, for any number of  *)
(* requests and frames on the line, of faults and of frames the MCU sends  *)
(* of its own, and Battery, for any voltages the cell may have.            *)
(***************************************************************************)
EXTENDS Mcu, Battery, TLAPS

-----------------------------------------------------------------------------
(* The line is a sequence that grows at its end and is read at its head. *)

LEMMA Appended ==
  ASSUME NEW S, NEW s \in Seq(S), NEW e \in S, NEW t, t = Append(s, e)
  PROVE  /\ t \in Seq(S) /\ Len(s) \in Nat /\ Len(t) = Len(s) + 1 /\ t[Len(t)] = e
         /\ \A i \in 1..Len(s) : t[i] = s[i]
OBVIOUS

LEMMA Taken ==
  ASSUME NEW S, NEW s \in Seq(S), s # <<>>, NEW t, t = Tail(s)
  PROVE  /\ t \in Seq(S) /\ Len(s) \in Nat /\ Len(s) > 0 /\ Len(t) = Len(s) - 1
         /\ Head(s) = s[1] /\ s[1] \in S
         /\ \A i \in 1..Len(t) : t[i] = s[i + 1]
OBVIOUS

LEMMA TargetFits ==
  ASSUME TypeOK, NEW p \in Positions \cup {"OPEN"}, Target(p) # "none"
  PROVE  Target(p) \in Positions
BY DEF TypeOK, Target, Positions, Filters

LEMMA FrameFits ==
  ASSUME NEW r \in Requests, NEW ok \in BOOLEAN
  PROVE  [cmd |-> r.cmd, pos |-> r.pos, ok |-> ok] \in Frames
BY DEF Requests, Frames

LEMMA NoticeFits ==
  ASSUME NEW ok \in BOOLEAN PROVE [cmd |-> "NOTICE", pos |-> "none", ok |-> ok] \in Frames
BY DEF Frames

-----------------------------------------------------------------------------
(* Types. *)

LEMMA TypeInit == Init => TypeOK
<1> SUFFICES ASSUME Init PROVE TypeOK
  OBVIOUS
<1>1. tx \in Seq(Requests) /\ rx \in Seq(Frames) /\ trouble \subseteq Troubles
  BY DEF Init
<1>2. op \in Requests
  BY DEF Init, Requests
<1>3. shutter \in [close : BOOLEAN, filter : Filters, motion : BOOLEAN]
  BY DEF Init, Filters
<1>4. notices \in 0..MaxNotices /\ faults \in 0..MaxFaults
  BY McuAssumption DEF Init
<1>5. QED BY <1>1, <1>2, <1>3, <1>4 DEF Init, TypeOK

LEMMA WriteTypes ==
  ASSUME TypeOK, NEW r \in Requests, NEW next \in {"sent", "wait"}, Write(r, next),
         caller = "idle"
  PROVE  /\ tx' \in Seq(Requests) /\ age' \in {"young", "3s", "9s"} /\ op' \in Requests
         /\ caller' \in {"idle", "sent", "wait"} /\ faults' \in 0..MaxFaults
<1>1. CASE Len(tx) < MaxInFlight /\ tx' = Append(tx, r) /\ age' = "young" /\ caller' = next
           /\ op' = r /\ UNCHANGED faults
  BY <1>1, Appended DEF TypeOK
<1>2. CASE Fault /\ UNCHANGED <<tx, age, caller, op>>
  BY <1>2, McuAssumption DEF TypeOK, Fault
<1>3. QED BY <1>1, <1>2 DEF Write

LEMMA SendTypes ==
  ASSUME TypeOK, NEW cmd, NEW p, \A ok \in BOOLEAN : [cmd |-> cmd, pos |-> p, ok |-> ok] \in Frames,
         (Send(cmd, p) /\ UNCHANGED faults) \/ Garble(cmd, p)
  PROVE  rx' \in Seq(Frames) /\ cut' \in BOOLEAN /\ faults' \in 0..MaxFaults
<1>1. CASE Send(cmd, p) /\ UNCHANGED faults
  BY <1>1, Appended DEF TypeOK, Send
<1>2. CASE Garble(cmd, p)
  <2>1. faults' \in 0..MaxFaults
    BY <1>2, McuAssumption DEF TypeOK, Garble, Fault
  <2>2. [cmd |-> cmd, pos |-> p, ok |-> FALSE] \in Frames
    OBVIOUS
  <2>3. CASE rx' = Append(rx, [cmd |-> cmd, pos |-> p, ok |-> FALSE]) /\ cut' = FALSE
    BY <2>1, <2>2, <2>3, Appended DEF TypeOK
  <2>4. CASE cut' \in BOOLEAN /\ UNCHANGED rx
    BY <2>1, <2>4 DEF TypeOK
  <2>5. cut \in BOOLEAN
    BY DEF TypeOK
  <2>6. QED BY <1>2, <2>3, <2>4, <2>5 DEF Garble
<1>3. QED BY <1>1, <1>2

LEMMA TypeStep == TypeOK /\ [Next]_vars => TypeOK'
<1> SUFFICES ASSUME TypeOK, [Next]_vars PROVE TypeOK'
  OBVIOUS
<1>1. CASE Move
  <2>1. PICK p \in Positions \cup {"OPEN"} :
           Target(p) # "none" /\ Write([cmd |-> "MOVE", pos |-> Target(p)], "sent")
    BY <1>1 DEF Move
  <2>2. [cmd |-> "MOVE", pos |-> Target(p)] \in Requests
    BY <2>1, TargetFits DEF Requests
  <2>3. QED BY <1>1, <2>1, <2>2, WriteTypes DEF Move, TypeOK
<1>2. CASE Ask
  <2>1. [cmd |-> "OTHER", pos |-> "none"] \in Requests
    BY DEF Requests
  <2>2. QED BY <1>2, <2>1, WriteTypes DEF Ask, TypeOK
<1>3. CASE InCall
  <2>1. CASE SetMotion BY <2>1 DEF TypeOK, SetMotion
  <2>2. CASE SetWait BY <2>2 DEF TypeOK, SetWait
  <2>3. CASE TestWait BY <2>3 DEF TypeOK, TestWait
  <2>4. QED BY <1>3, <2>1, <2>2, <2>3 DEF InCall
<1>4. CASE SpuriousWakeup BY <1>4 DEF TypeOK, SpuriousWakeup
<1>5. CASE Reader
  <2>1. CASE Receive
    <3>1. rx' \in Seq(Frames) /\ Head(rx) \in Frames
      BY <2>1, Taken DEF TypeOK, Receive
    <3>2. shutter' \in [close : BOOLEAN, filter : Filters, motion : BOOLEAN]
      BY <2>1, <3>1 DEF TypeOK, Receive, Parse, Frames, Positions, Filters
    <3>3. cause' \in {"answer", "notice", "damaged", "timeout"} /\ trouble' \subseteq Troubles
      BY <2>1 DEF TypeOK, Receive, Troubles
    <3>4. QED BY <2>1, <3>1, <3>2, <3>3 DEF TypeOK, Receive
  <2>2. CASE Timeout BY <2>2 DEF TypeOK, Timeout
  <2>3. CASE Ack
    <3>1. trouble' \subseteq Troubles
      BY <2>3 DEF TypeOK, Ack, Troubles
    <3>2. QED BY <2>3, <3>1 DEF TypeOK, Ack
  <2>4. CASE Signal BY <2>4 DEF TypeOK, Signal
  <2>5. QED BY <1>5, <2>1, <2>2, <2>3, <2>4 DEF Reader
<1>6. CASE Elapse BY <1>6 DEF TypeOK, Elapse
<1>7. CASE Device
  <2>1. CASE Answer
    <3>1. Head(tx) \in Requests /\ tx' \in Seq(Requests)
      BY <2>1, Taken DEF TypeOK, Answer
    <3>2. \A ok \in BOOLEAN : [cmd |-> Head(tx).cmd, pos |-> Head(tx).pos, ok |-> ok] \in Frames
      BY <3>1, FrameFits
    <3>3. (Send(Head(tx).cmd, Head(tx).pos) /\ UNCHANGED faults)
            \/ Garble(Head(tx).cmd, Head(tx).pos)
      BY <2>1 DEF Answer
    <3>4. rx' \in Seq(Frames) /\ cut' \in BOOLEAN /\ faults' \in 0..MaxFaults
      BY <3>2, <3>3, SendTypes
    <3>5. pos' \in Positions /\ known' \in BOOLEAN
      BY <2>1, <3>1 DEF TypeOK, Answer, Requests
    <3>6. QED BY <2>1, <3>1, <3>4, <3>5 DEF TypeOK, Answer, host
  <2>2. CASE LoseRequest
    <3>1. tx' \in Seq(Requests) /\ faults' \in 0..MaxFaults
      BY <2>2, Taken, McuAssumption DEF TypeOK, LoseRequest, Fault
    <3>2. QED BY <2>2, <3>1 DEF TypeOK, LoseRequest, host
  <2>3. CASE Notice
    <3>1. rx' \in Seq(Frames) /\ cut' \in BOOLEAN /\ faults' \in 0..MaxFaults
      BY <2>3, NoticeFits, SendTypes DEF Notice
    <3>2. notices' \in 0..MaxNotices
      BY <2>3, McuAssumption DEF TypeOK, Notice
    <3>3. QED BY <2>3, <3>1, <3>2 DEF TypeOK, Notice, host
  <2>4. QED BY <1>7, <2>1, <2>2, <2>3 DEF Device
<1>8. CASE UNCHANGED vars BY <1>8 DEF TypeOK, vars, host
<1>9. QED BY <1>1, <1>2, <1>3, <1>4, <1>5, <1>6, <1>7, <1>8 DEF Next

(* The types of the driver, the line and the MCU; the caller waits whenever
   waitAck is set. *)
THEOREM Typing == Spec => []TypeOK
BY TypeInit, TypeStep, PTL DEF Spec

-----------------------------------------------------------------------------
(* Wakeups. *)

LEMMA WakeupStep == TypeOK /\ NoLostAck /\ [Next]_vars => NoLostAck'
<1> SUFFICES ASSUME TypeOK, NoLostAck, [Next]_vars PROVE NoLostAck'
  OBVIOUS
<1>1. CASE Move BY <1>1 DEF TypeOK, NoLostAck, Move, Write, Fault
<1>2. CASE Ask BY <1>2 DEF TypeOK, NoLostAck, Ask, Write, Fault
<1>3. CASE InCall BY <1>3 DEF TypeOK, NoLostAck, InCall, SetMotion, SetWait, TestWait
<1>4. CASE SpuriousWakeup BY <1>4 DEF NoLostAck, SpuriousWakeup
<1>5. CASE Reader BY <1>5 DEF TypeOK, NoLostAck, Reader, Receive, Timeout, Ack, Signal
<1>6. CASE Elapse BY <1>6 DEF NoLostAck, Elapse
<1>7. CASE Device BY <1>7 DEF NoLostAck, Device, Answer, LoseRequest, Notice, host
<1>8. CASE UNCHANGED vars BY <1>8 DEF NoLostAck, vars, host
<1>9. QED BY <1>1, <1>2, <1>3, <1>4, <1>5, <1>6, <1>7, <1>8 DEF Next

(* The caller sleeps on a cleared waitAck only while the reader is about to
   signal it, though waitAck is set outside the mutex (mcu_wait_ack). *)
THEOREM WakeupSafety == Spec => []NoLostAck
<1>1. Init => NoLostAck
  BY DEF Init, NoLostAck
<1>2. QED BY <1>1, WakeupStep, TypeInit, TypeStep, PTL DEF Spec

-----------------------------------------------------------------------------
(* What the driver believes of the shutter. *)

(* The frame at i is the MCU's last report, and true. *)
Told(i) == /\ i \in 1..Len(rx) /\ rx[i] = [cmd |-> "MOVE", pos |-> pos, ok |-> TRUE]
           /\ \A j \in (i + 1)..Len(rx) : rx[j].cmd # "MOVE"

ReportHolds ==
  \/ \E i \in 1..Len(rx) : Told(i)
  \/ ShutterPos = pos /\ \A i \in 1..Len(rx) : rx[i].cmd # "MOVE"

ReportInv == known => ReportHolds

(* A frame that is no report changes nothing. *)
LEMMA ReportBehind ==
  ASSUME TypeOK, ReportHolds, NEW f \in Frames, f.cmd # "MOVE", rx' = Append(rx, f),
         UNCHANGED <<pos, shutter>>
  PROVE  ReportHolds'
<1>1. /\ Len(rx') = Len(rx) + 1 /\ Len(rx) \in Nat /\ rx'[Len(rx')] = f
      /\ \A i \in 1..Len(rx) : rx'[i] = rx[i]
  BY Appended DEF TypeOK
<1>2. ASSUME NEW i \in 1..Len(rx), Told(i) PROVE ReportHolds'
  <2>1. i \in 1..Len(rx') /\ rx'[i] = [cmd |-> "MOVE", pos |-> pos', ok |-> TRUE]
    BY <1>1, <1>2 DEF Told
  <2>2. ASSUME NEW j \in (i + 1)..Len(rx') PROVE rx'[j].cmd # "MOVE"
    BY <1>1, <1>2 DEF Told
  <2>3. QED BY <2>1, <2>2 DEF ReportHolds, Told
<1>3. ASSUME ShutterPos = pos, \A i \in 1..Len(rx) : rx[i].cmd # "MOVE" PROVE ReportHolds'
  <2>1. ASSUME NEW j \in 1..Len(rx') PROVE rx'[j].cmd # "MOVE"
    BY <1>1, <1>3
  <2>2. ShutterPos' = pos'
    BY <1>3 DEF ShutterPos
  <2>3. QED BY <2>1, <2>2 DEF ReportHolds
<1>4. QED BY <1>2, <1>3 DEF ReportHolds

(* A report that is read is believed; any other frame changes nothing. *)
LEMMA ReportRead == TypeOK /\ ReportHolds /\ Receive => ReportHolds'
<1> SUFFICES ASSUME TypeOK, ReportHolds, Receive PROVE ReportHolds'
  OBVIOUS
<1>1. /\ Len(rx) \in Nat /\ Len(rx) > 0 /\ Len(rx') = Len(rx) - 1
      /\ Head(rx) = rx[1] /\ rx[1] \in Frames
      /\ \A i \in 1..Len(rx') : rx'[i] = rx[i + 1]
  BY Taken DEF TypeOK, Receive
<1>2. pos' = pos /\ pos \in Positions
  BY DEF TypeOK, Receive
<1>3. ASSUME Told(1) PROVE ReportHolds'
  <2>1. rx[1].ok /\ rx[1].cmd = "MOVE" /\ rx[1].pos = pos
    BY <1>3 DEF Told
  <2>2. shutter' = Parse(pos)
    BY <1>1, <2>1 DEF Receive
  <2>3. ShutterPos' = pos'
    BY <1>2, <2>2 DEF ShutterPos, Parse, Positions, Filters
  <2>4. ASSUME NEW i \in 1..Len(rx') PROVE rx'[i].cmd # "MOVE"
    BY <1>1, <1>3 DEF Told
  <2>5. QED BY <2>3, <2>4 DEF ReportHolds
<1>4. ASSUME NEW i \in 1..Len(rx), Told(i), i # 1 PROVE ReportHolds'
  <2>1. i - 1 \in 1..Len(rx') /\ rx'[i - 1] = [cmd |-> "MOVE", pos |-> pos', ok |-> TRUE]
    BY <1>1, <1>2, <1>4 DEF Told
  <2>2. ASSUME NEW j \in ((i - 1) + 1)..Len(rx') PROVE rx'[j].cmd # "MOVE"
    <3>1. j + 1 \in (i + 1)..Len(rx) /\ j \in 1..Len(rx')
      BY <1>1, <1>4, <2>2
    <3>2. QED BY <1>1, <1>4, <3>1 DEF Told
  <2>3. QED BY <2>1, <2>2 DEF ReportHolds, Told
<1>5. ASSUME ShutterPos = pos, \A i \in 1..Len(rx) : rx[i].cmd # "MOVE" PROVE ReportHolds'
  <2>1. shutter' = shutter
    BY <1>1, <1>5 DEF Receive
  <2>2. ASSUME NEW j \in 1..Len(rx') PROVE rx'[j].cmd # "MOVE"
    BY <1>1, <1>5
  <2>3. ShutterPos' = pos'
    BY <1>2, <1>5, <2>1 DEF ShutterPos
  <2>4. QED BY <2>2, <2>3 DEF ReportHolds
<1>6. QED BY <1>3, <1>4, <1>5 DEF ReportHolds

(* Where the shutter is believed to be does not depend on its motion. *)
LEMMA ReportStays ==
  ASSUME ReportHolds, UNCHANGED <<rx, pos>>, ShutterPos' = ShutterPos PROVE ReportHolds'
BY DEF ReportHolds, Told

LEMMA ReportStep == TypeOK /\ ReportInv /\ [Next]_vars => ReportInv'
<1> SUFFICES ASSUME TypeOK, ReportInv, [Next]_vars, known' = TRUE PROVE ReportHolds'
  BY TypeStep DEF ReportInv, TypeOK
<1>1. ASSUME known = TRUE PROVE ReportHolds
  BY <1>1 DEF ReportInv
<1>2. CASE Move \/ Ask \/ SetWait \/ TestWait \/ SpuriousWakeup \/ Timeout \/ Ack \/ Signal
           \/ Elapse \/ LoseRequest \/ UNCHANGED vars
  <2>1. UNCHANGED <<rx, pos, shutter, known>>
    BY <1>2 DEF Move, Ask, SetWait, TestWait, SpuriousWakeup, Timeout, Ack, Signal, Elapse,
                LoseRequest, vars, host
  <2>2. ShutterPos' = ShutterPos
    BY <2>1 DEF ShutterPos
  <2>3. QED BY <1>1, <2>1, <2>2, ReportStays
<1>3. CASE SetMotion
  <2>1. UNCHANGED <<rx, pos, known>> /\ ShutterPos' = ShutterPos
    BY <1>3 DEF SetMotion, ShutterPos, TypeOK
  <2>2. QED BY <1>1, <2>1, ReportStays
<1>4. CASE Receive
  <2>1. known' = known
    BY <1>4 DEF Receive
  <2>2. QED BY <1>1, <1>4, <2>1, ReportRead
<1>5. CASE Answer
  <2>1. Head(tx) \in Requests
    BY <1>5, Taken DEF TypeOK, Answer
  <2>2. shutter' = shutter /\ ShutterPos' = ShutterPos
    BY <1>5 DEF Answer, host, ShutterPos
  <2> DEFINE r == Head(tx)
             f(ok) == [cmd |-> r.cmd, pos |-> r.pos, ok |-> ok]
  <2>3. r \in Requests /\ \A ok \in BOOLEAN : f(ok) \in Frames
    BY <2>1, FrameFits
  <2>4. CASE r.cmd = "MOVE"
    <3>1. pos' = r.pos /\ known' = ~cut /\ rx' = Append(rx, f(~cut))
      BY <1>5, <2>4 DEF Answer, Send
    <3>2. f(~cut) = [cmd |-> "MOVE", pos |-> pos', ok |-> TRUE] /\ f(~cut) \in Frames
      BY <2>3, <2>4, <3>1 DEF TypeOK
    <3> HIDE DEF f, r
    <3>3. Len(rx') = Len(rx) + 1 /\ Len(rx) \in Nat /\ rx'[Len(rx')] = f(~cut)
      BY <3>1, <3>2, Appended DEF TypeOK
    <3>4. PICK k \in 1..Len(rx') :
             k = Len(rx') /\ rx'[k] = [cmd |-> "MOVE", pos |-> pos', ok |-> TRUE]
      BY <3>2, <3>3
    <3>5. \A j \in (k + 1)..Len(rx') : rx'[j].cmd # "MOVE"
      BY <3>3, <3>4
    <3>6. QED BY <3>4, <3>5 DEF ReportHolds, Told
  <2>5. CASE r.cmd # "MOVE"
    <3>1. pos' = pos /\ known = TRUE
      BY <1>5, <2>5 DEF Answer, TypeOK
    <3>2. \/ UNCHANGED rx
          \/ \E ok \in BOOLEAN : rx' = Append(rx, f(ok))
      BY <1>5 DEF Answer, Send, Garble, TypeOK
    <3>3. \A ok \in BOOLEAN : f(ok).cmd # "MOVE"
      BY <2>5
    <3> HIDE DEF f, r
    <3>4. CASE UNCHANGED rx
      BY <1>1, <2>2, <3>1, <3>4, ReportStays
    <3>5. CASE \E ok \in BOOLEAN : rx' = Append(rx, f(ok))
      BY <1>1, <2>2, <2>3, <3>1, <3>3, <3>5, ReportBehind
    <3>6. QED BY <3>2, <3>4, <3>5
  <2>6. QED BY <2>4, <2>5
<1>6. CASE Notice
  <2> DEFINE f(ok) == [cmd |-> "NOTICE", pos |-> "none", ok |-> ok]
  <2>1. UNCHANGED <<pos, shutter, known>> /\ ShutterPos' = ShutterPos
    BY <1>6 DEF Notice, host, ShutterPos
  <2>2. \/ UNCHANGED rx
        \/ \E ok \in BOOLEAN : rx' = Append(rx, f(ok))
    BY <1>6 DEF Notice, Send, Garble, TypeOK
  <2>3. \A ok \in BOOLEAN : f(ok) \in Frames /\ f(ok).cmd # "MOVE"
    BY NoticeFits
  <2> HIDE DEF f
  <2>4. CASE UNCHANGED rx
    BY <1>1, <2>1, <2>4, ReportStays
  <2>5. CASE \E ok \in BOOLEAN : rx' = Append(rx, f(ok))
    BY <1>1, <2>1, <2>3, <2>5, ReportBehind
  <2>6. QED BY <2>2, <2>4, <2>5
<1>7. QED BY <1>2, <1>3, <1>4, <1>5, <1>6 DEF Next, InCall, Reader, Device

(* Once the report of the last move has been read, the driver knows where the
   shutter is, whatever was lost, damaged or late (mcu_parse_shutter_position). *)
THEOREM TrueBelief == Spec => []BeliefIsTrue
<1>1. Init => ReportInv
  BY DEF Init, ReportInv
<1>2. TypeOK /\ ReportInv => BeliefIsTrue
  BY DEF TypeOK, ReportInv, ReportHolds, Told, BeliefIsTrue, Answers
<1>3. QED BY <1>1, <1>2, ReportStep, TypeInit, TypeStep, PTL DEF Spec

-----------------------------------------------------------------------------
(* The exchange of a request and its answer, as long as every wait was ended
   by an answer: at any time the request is on its way, or its answer is, or
   the reader is about to acknowledge it, and one of these at most. *)

Acked == reader = "ack" /\ cause = "answer"

Done == ~waitAck /\ caller \in {"idle", "test", "asleep"}

Arrived == op.cmd = "MOVE" => pos = op.pos /\ ShutterPos = op.pos

Mine(f) == f.cmd = op.cmd /\ f.pos = op.pos /\ (op.cmd = "MOVE" => pos = op.pos)

Exchange ==
  /\ tx # <<>> => tx = <<op>> /\ Answers = {} /\ ~Acked
  /\ \A i \in Answers : ~Acked /\ Answers = {i} /\ Mine(rx[i])
  /\ Acked => ~shutter.motion /\ Arrived
  /\ Done => tx = <<>> /\ Answers = {} /\ ~Acked /\ ~shutter.motion /\ Arrived
  /\ shutter.motion => op.cmd = "MOVE" /\ caller # "sent"
  /\ caller = "sent" => op.cmd = "MOVE" /\ ~Acked

ExchangeInv == trouble = {} => Exchange

(* Neither the line nor the request changes. *)
LEMMA ExchangeStays ==
  ASSUME Exchange, UNCHANGED <<tx, rx, pos, shutter, op>>, Acked' => Acked, Done' => Done,
         caller' = "sent" => caller = "sent"
  PROVE  Exchange'
<1>1. Answers' = Answers
  BY DEF Answers
<1>2. Arrived' <=> Arrived
  BY DEF Arrived, ShutterPos
<1>3. QED BY <1>1, <1>2 DEF Exchange, Mine

LEMMA ExchangeWrites ==
  ASSUME TypeOK, Exchange, NEW r \in Requests, NEW next \in {"sent", "wait"}, Write(r, next),
         next = "sent" => r.cmd = "MOVE", caller = "idle",
         UNCHANGED <<pos, rx, shutter, waitAck, reader, cause>>
  PROVE  Exchange'
<1>1. Done /\ tx = <<>> /\ Answers = {} /\ ~Acked /\ ~shutter.motion
  BY DEF TypeOK, Done, Exchange
<1>2. Acked' <=> Acked
  BY DEF Acked
<1>3. CASE tx' = Append(tx, r) /\ caller' = next /\ op' = r
  <2>1. tx' = <<op'>> /\ Answers' = {} /\ ~Done' /\ shutter' = shutter
    BY <1>1, <1>3 DEF Answers, Done
  <2>2. caller' = "sent" => op'.cmd = "MOVE"
    BY <1>3
  <2>3. ~shutter'.motion /\ ~Acked'
    BY <1>1, <1>2, <2>1
  <2>4. QED BY <2>1, <2>2, <2>3 DEF Exchange
<1>4. CASE UNCHANGED <<tx, caller, op>>
  <2>1. Done' <=> Done
    BY <1>4 DEF Done
  <2>2. QED BY <1>2, <1>4, <2>1, ExchangeStays
<1>5. QED BY <1>3, <1>4 DEF Write

LEMMA ExchangeReads == TypeOK /\ Exchange /\ Receive /\ caller # "sent" => Exchange'
<1> SUFFICES ASSUME TypeOK, Exchange, Receive, caller # "sent" PROVE Exchange'
  OBVIOUS
<1> DEFINE f == rx[1]
<1>1. /\ Len(rx) \in Nat /\ Len(rx) > 0 /\ Len(rx') = Len(rx) - 1
      /\ Head(rx) = f /\ f \in Frames
      /\ \A i \in 1..Len(rx') : rx'[i] = rx[i + 1]
  BY Taken DEF TypeOK, Receive
<1>2. \A i \in Answers' : i + 1 \in Answers /\ rx'[i] = rx[i + 1]
  BY <1>1 DEF Answers
<1>3. UNCHANGED <<pos, tx, waitAck, caller, op>> /\ (Done' <=> Done)
  BY DEF Receive, Done
<1>4. CASE 1 \notin Answers
  <2>1. f.cmd = "NOTICE" /\ shutter' = shutter /\ ~Acked'
    BY <1>1, <1>4 DEF Answers, Receive, Acked
  <2>2. Answers = {} => Answers' = {}
    BY <1>2
  <2>3. \A i \in Answers' : Answers' = {i} /\ Mine(rx[i + 1])
    <3>1. TAKE i \in Answers'
    <3>2. Answers = {i + 1} /\ Mine(rx[i + 1])
      BY <1>2 DEF Exchange
    <3>3. \A j \in Answers' : j = i
      BY <1>2, <3>2 DEF Answers
    <3>4. QED BY <3>2, <3>3
  <2>4. \A i \in Answers' : Mine(rx[i])'
    BY <1>2, <1>3, <2>3 DEF Mine
  <2>5. Arrived' <=> Arrived
    BY <1>3, <2>1 DEF Arrived, ShutterPos
  <2>6. QED BY <1>3, <2>1, <2>2, <2>3, <2>4, <2>5 DEF Exchange
<1>5. CASE 1 \in Answers
  <2>1. Answers = {1} /\ Mine(f) /\ ~Done /\ tx = <<>>
    BY <1>5 DEF Exchange
  <2>2. Answers' = {}
    <3>1. ASSUME NEW i \in Answers' PROVE FALSE
      BY <1>1, <1>2, <2>1 DEF Answers
    <3>2. QED BY <3>1
  <2>3. CASE f.ok /\ f.cmd = "MOVE"
    <3>1. shutter' = Parse(f.pos) /\ f.pos \in Positions
      BY <1>1, <2>3 DEF Receive, Frames
    <3>2. ~shutter'.motion /\ ShutterPos' = f.pos
      BY <3>1 DEF Parse, ShutterPos, Positions, Filters
    <3>3. Arrived'
      BY <1>3, <2>1, <3>2 DEF Arrived, Mine
    <3>4. QED BY <1>3, <2>1, <2>2, <3>2, <3>3 DEF Exchange
  <2>4. CASE f.ok /\ f.cmd # "MOVE"
    <3>1. shutter' = shutter /\ op.cmd # "MOVE"
      BY <1>1, <2>1, <2>4 DEF Receive, Mine
    <3>2. ~shutter'.motion /\ Arrived'
      BY <1>3, <3>1 DEF Exchange, Arrived
    <3>3. QED BY <1>3, <2>1, <2>2, <3>2 DEF Exchange
  <2>5. CASE ~f.ok
    <3>1. shutter' = shutter /\ ~Acked'
      BY <1>1, <2>5 DEF Receive, Acked
    <3>2. QED BY <1>3, <2>1, <2>2, <3>1 DEF Exchange
  <2>6. QED BY <2>3, <2>4, <2>5
<1>6. QED BY <1>4, <1>5

LEMMA ExchangeAnswers == TypeOK /\ Exchange /\ Answer => Exchange'
<1> SUFFICES ASSUME TypeOK, Exchange, Answer PROVE Exchange'
  OBVIOUS
<1>1. tx = <<op>> /\ Answers = {} /\ ~Acked /\ ~Done
  BY DEF Exchange, Answer
<1>2. Head(tx) = op /\ tx' = <<>>
  BY <1>1 DEF Answer
<1>3. UNCHANGED <<shutter, waitAck, caller, op, reader, cause>>
  BY DEF Answer, host
<1>4. ~Acked' /\ ~Done'
  BY <1>1, <1>3 DEF Acked, Done
<1>5. op.cmd = "MOVE" => pos' = op.pos
  BY <1>2 DEF Answer
<1> DEFINE f(ok) == [cmd |-> op.cmd, pos |-> op.pos, ok |-> ok]
<1>6. UNCHANGED rx \/ \E ok \in BOOLEAN : rx' = Append(rx, f(ok))
  BY <1>2 DEF Answer, Send, Garble, TypeOK
<1>7. CASE UNCHANGED rx
  <2>1. Answers' = {}
    BY <1>1, <1>7 DEF Answers
  <2>2. QED BY <1>2, <1>3, <1>4, <2>1 DEF Exchange
<1>8. ASSUME NEW ok \in BOOLEAN, rx' = Append(rx, f(ok)) PROVE Exchange'
  <2>1. f(ok) \in Frames /\ f(ok).cmd = op.cmd /\ f(ok).pos = op.pos /\ op.cmd # "NOTICE"
    BY FrameFits DEF TypeOK, Requests
  <2> HIDE DEF f
  <2>2. /\ Len(rx') = Len(rx) + 1 /\ Len(rx) \in Nat /\ rx'[Len(rx')] = f(ok)
        /\ \A i \in 1..Len(rx) : rx'[i] = rx[i]
    BY <1>8, <2>1, Appended DEF TypeOK
  <2>3. \A i \in 1..Len(rx) : i \notin Answers'
    BY <1>1, <2>2 DEF Answers
  <2>4. Answers' = {Len(rx')}
    BY <2>1, <2>2, <2>3 DEF Answers
  <2>5. \A i \in Answers' : Answers' = {i} /\ Mine(rx[i])'
    BY <1>3, <1>5, <2>1, <2>2, <2>4 DEF Mine
  <2>6. QED BY <1>2, <1>3, <1>4, <2>5 DEF Exchange
<1>9. QED BY <1>6, <1>7, <1>8

LEMMA ExchangeNotices == TypeOK /\ Exchange /\ Notice => Exchange'
<1> SUFFICES ASSUME TypeOK, Exchange, Notice PROVE Exchange'
  OBVIOUS
<1>1. UNCHANGED <<pos, tx, shutter, waitAck, caller, op, reader, cause>>
  BY DEF Notice, host
<1>2. (Acked' <=> Acked) /\ (Done' <=> Done) /\ (Arrived' <=> Arrived)
  BY <1>1 DEF Acked, Done, Arrived, ShutterPos
<1> DEFINE f(ok) == [cmd |-> "NOTICE", pos |-> "none", ok |-> ok]
<1>3. UNCHANGED rx \/ \E ok \in BOOLEAN : rx' = Append(rx, f(ok))
  BY DEF Notice, Send, Garble, TypeOK
<1>4. CASE UNCHANGED rx
  BY <1>1, <1>2, <1>4, ExchangeStays
<1>5. ASSUME NEW ok \in BOOLEAN, rx' = Append(rx, f(ok)) PROVE Exchange'
  <2>1. f(ok) \in Frames /\ f(ok).cmd = "NOTICE"
    BY NoticeFits
  <2> HIDE DEF f
  <2>2. /\ Len(rx') = Len(rx) + 1 /\ Len(rx) \in Nat /\ rx'[Len(rx')] = f(ok)
        /\ \A i \in 1..Len(rx) : rx'[i] = rx[i]
    BY <1>5, <2>1, Appended DEF TypeOK
  <2>3. Answers' = Answers /\ \A i \in Answers : rx'[i] = rx[i]
    BY <2>1, <2>2 DEF Answers
  <2>4. QED BY <1>1, <1>2, <2>3 DEF Exchange, Mine
<1>6. QED BY <1>3, <1>4, <1>5

LEMMA ExchangeStep == TypeOK /\ ExchangeInv /\ [Next]_vars => ExchangeInv'
<1> SUFFICES ASSUME TypeOK, ExchangeInv, [Next]_vars, trouble' = {} PROVE Exchange'
  BY DEF ExchangeInv
<1>1. trouble = {}
  <2>1. CASE Receive BY <2>1 DEF Receive
  <2>2. CASE Ack BY <2>2 DEF Ack
  <2>3. CASE ~Receive /\ ~Ack
    BY <2>3 DEF Next, InCall, Reader, Device, Move, Ask, SetMotion, SetWait, TestWait,
                SpuriousWakeup, Timeout, Signal, Elapse, Answer, LoseRequest, Notice, vars
  <2>4. QED BY <2>1, <2>2, <2>3
<1>2. Exchange
  BY <1>1 DEF ExchangeInv
<1>3. CASE Move
  <2>1. PICK p \in Positions \cup {"OPEN"} :
           Target(p) # "none" /\ Write([cmd |-> "MOVE", pos |-> Target(p)], "sent")
    BY <1>3 DEF Move
  <2>2. [cmd |-> "MOVE", pos |-> Target(p)] \in Requests
    BY <2>1, TargetFits DEF Requests
  <2>3. QED BY <1>2, <1>3, <2>1, <2>2, ExchangeWrites DEF Move
<1>4. CASE Ask
  <2>1. [cmd |-> "OTHER", pos |-> "none"] \in Requests
    BY DEF Requests
  <2>2. QED BY <1>2, <1>4, <2>1, ExchangeWrites DEF Ask
<1>5. CASE SetMotion
  <2>1. UNCHANGED <<tx, rx, pos, op, reader, cause, waitAck>> /\ caller = "sent" /\ caller' = "wait"
    BY <1>5 DEF SetMotion
  <2>2. ~Acked /\ ~Acked' /\ ~Done' /\ Answers' = Answers
    BY <1>2, <2>1 DEF Exchange, Acked, Done, Answers
  <2>3. op.cmd = "MOVE"
    BY <1>2, <2>1 DEF Exchange
  <2>4. QED BY <1>2, <2>1, <2>2, <2>3 DEF Exchange, Mine
<1>6. CASE SetWait \/ TestWait \/ SpuriousWakeup \/ Timeout \/ Signal \/ Elapse \/ UNCHANGED vars
  <2>1. UNCHANGED <<tx, rx, pos, shutter, op>> /\ (caller' = "sent" => caller = "sent")
    BY <1>6 DEF SetWait, TestWait, SpuriousWakeup, Timeout, Signal, Elapse, vars, host
  <2>2. (Acked' => Acked) /\ (Done' => Done)
    BY <1>6 DEF SetWait, TestWait, SpuriousWakeup, Timeout, Signal, Elapse, vars, host, Acked, Done
  <2>3. QED BY <1>2, <2>1, <2>2, ExchangeStays
<1>7. CASE Receive
  BY <1>2, <1>7, ExchangeReads DEF Receive
<1>8. CASE Ack
  <2>1. UNCHANGED <<tx, rx, pos, shutter, op, caller>> /\ ~Acked'
    BY <1>8 DEF Ack, Acked
  <2>2. CASE ~waitAck
    <3>1. Done' <=> Done
      BY <1>8, <2>1, <2>2 DEF Ack, Done
    <3>2. QED BY <1>2, <2>1, <3>1, ExchangeStays
  <2>3. CASE waitAck
    <3>1. Acked
      BY <1>8, <2>3 DEF Ack, Acked
    <3>2. tx = <<>> /\ Answers = {} /\ ~shutter.motion /\ Arrived
      BY <1>2, <3>1 DEF Exchange
    <3>3. Answers' = {} /\ Arrived'
      BY <2>1, <3>2 DEF Answers, Arrived, ShutterPos
    <3>4. caller # "sent"
      BY <2>3 DEF TypeOK
    <3>5. QED BY <2>1, <3>2, <3>3, <3>4 DEF Exchange
  <2>4. QED BY <2>2, <2>3
<1>9. CASE Answer
  BY <1>2, <1>9, ExchangeAnswers
<1>10. CASE LoseRequest
  <2>1. UNCHANGED <<rx, pos, shutter, op, caller, waitAck, reader, cause>>
    BY <1>10 DEF LoseRequest, host
  <2>2. tx = <<op>> /\ tx' = <<>> /\ Answers = {} /\ ~Acked /\ ~Done
    BY <1>2, <1>10 DEF LoseRequest, Exchange
  <2>3. Answers' = {} /\ ~Acked' /\ ~Done'
    BY <2>1, <2>2 DEF Answers, Acked, Done
  <2>4. QED BY <1>2, <2>1, <2>2, <2>3 DEF Exchange
<1>11. CASE Notice
  BY <1>2, <1>11, ExchangeNotices
<1>12. QED BY <1>3, <1>4, <1>5, <1>6, <1>7, <1>8, <1>9, <1>10, <1>11
      DEF Next, InCall, Reader, Device

LEMMA ExchangeInit == Init => ExchangeInv
<1> SUFFICES ASSUME Init PROVE Exchange
  BY DEF ExchangeInv
<1>1. Answers = {} /\ ~Acked /\ Arrived /\ ~shutter.motion /\ caller # "sent" /\ tx = <<>>
  BY DEF Init, Answers, Acked, Arrived
<1>2. QED BY <1>1 DEF Exchange

(* As long as every wait was ended by an answer, each call returns on the answer
   to its own request, and a shutter that was told to move is there. *)
THEOREM OwnAnswer == Spec => []AnswerIsMine
<1>1. TypeOK /\ ExchangeInv => AnswerIsMine
  BY DEF TypeOK, ExchangeInv, Exchange, Done, Arrived, AnswerIsMine
<1>2. QED BY <1>1, ExchangeInit, ExchangeStep, TypeInit, TypeStep, PTL DEF Spec

(* The shutter is thought to be moving after a call only if a wait went wrong
   or the answer came before the move was noted (mcu_move_shutter). *)
THEOREM MotionIsOver == Spec => []MotionEnds
<1>1. TypeOK /\ ExchangeInv => MotionEnds
  BY DEF TypeOK, ExchangeInv, Exchange, Done, MotionEnds
<1>2. QED BY <1>1, ExchangeInit, ExchangeStep, TypeInit, TypeStep, PTL DEF Spec

-----------------------------------------------------------------------------
(* Battery. *)

USE DEF NoLevel

LEMMA LevelType ==
  ASSUME NEW volt \in Int, prev_level \in Int
  PROVE  NewLevel(volt) \in Int /\ LevelAfter(volt) \in Int
<1>1. NewLevel(volt) \in Int
  BY DEF NewLevel, Tenths, cellRemain
<1>2. QED
  BY <1>1 DEF LevelAfter

LEMMA PostType ==
  ASSUME BatteryTypeOK, NEW code \in Codes, Post(code)
  PROVE  events' \in Seq(Codes) /\ unheard' \in BOOLEAN
<1>1. events' \in Seq(Codes)
  <2>1. CASE events' = events
    BY <2>1 DEF BatteryTypeOK
  <2>2. CASE events' = Append(events, code)
    BY <2>2 DEF BatteryTypeOK
  <2>3. QED
    BY <2>1, <2>2 DEF Post
<1>2. unheard' \in BOOLEAN
  BY Zenon DEF Post, BatteryTypeOK
<1>3. QED
  BY <1>1, <1>2

LEMMA ReadingType ==
  ASSUME BatteryTypeOK, Reading
  PROVE  BatteryTypeOK'
<1>1. PICK volt \in IF supply = "cell" THEN Volts ELSE {1200} :
        IF source = "cell" THEN ReadCell(volt) ELSE ReadExtdc
  BY DEF Reading
<1>2. volt \in Int
  BY BatteryAssumption
<1>3. UNCHANGED <<supply, source, main>>
  BY DEF Reading
<1>4. CASE source = "cell"
  <2>1. ReadCell(volt)
    BY <1>1, <1>4
  <2>2. cellStatus' \in {"NORMAL", "LOWVOLT", "DEPLETED"}
    BY <2>1 DEF ReadCell, StatusAfter, BatteryTypeOK
  <2>3. cellLevel' \in Int /\ prev_level' \in Int
    BY <2>1, <1>2, LevelType DEF ReadCell, BatteryTypeOK
  <2>4. events' \in Seq(Codes) /\ unheard' \in BOOLEAN
    <3>1. \/ UNCHANGED <<events, unheard>>
          \/ Post("LOW_BATTERY")
          \/ Post("DEAD_BATTERY")
      BY <2>1, <2>2 DEF ReadCell, Report
    <3>2. QED
      BY <3>1, PostType DEF BatteryTypeOK, Codes
  <2>5. fresh' \in BOOLEAN /\ empty' \in BOOLEAN
    BY <2>1 DEF ReadCell
  <2>6. falling' \in BOOLEAN
    BY <2>1, Zenon DEF ReadCell, BatteryTypeOK
  <2>7. QED
    BY <2>2, <2>3, <2>4, <2>5, <2>6, <1>3 DEF BatteryTypeOK
<1>5. CASE source # "cell"
  BY <1>1, <1>3, <1>5 DEF ReadExtdc, BatteryTypeOK
<1>6. QED
  BY <1>4, <1>5

LEMMA BatteryTypeStep ==
  ASSUME BatteryTypeOK, [BatteryNext]_batteryVars
  PROVE  BatteryTypeOK'
<1>1. CASE Reading
  BY <1>1, ReadingType
<1>2. CASE PowerNotice
  BY <1>2 DEF PowerNotice, BatteryTypeOK, cell, history
<1>3. CASE ChangeSupply
  BY <1>3 DEF ChangeSupply, BatteryTypeOK, cell, history
<1>4. CASE CreateQueue
  BY <1>4 DEF CreateQueue, BatteryTypeOK, cell, history
<1>5. CASE HandleEvent
  BY <1>5 DEF HandleEvent, BatteryTypeOK, cell, history
<1>6. CASE UNCHANGED batteryVars
  BY <1>6 DEF BatteryTypeOK, batteryVars, cell, history
<1>7. QED
  BY <1>1, <1>2, <1>3, <1>4, <1>5, <1>6 DEF BatteryNext, Main

(* The variables of the cell, the queue and main keep their types. *)
THEOREM BatteryTyping == BatterySpec => []BatteryTypeOK
<1>1. BatteryInit => BatteryTypeOK
  <2> SUFFICES ASSUME BatteryInit PROVE BatteryTypeOK
    OBVIOUS
  <2>1. events \in Seq(Codes)
    BY DEF BatteryInit
  <2>2. cellLevel \in Int /\ prev_level \in Int
    BY DEF BatteryInit
  <2>3. QED
    BY <2>1, <2>2, Zenon DEF BatteryInit, BatteryTypeOK, Supplies
<1>2. QED
  BY <1>1, BatteryTypeStep, PTL DEF BatterySpec

-----------------------------------------------------------------------------
(* The level that is drawn is the one the driver compares the next one with. *)
SameLevel == ~fresh => prev_level = cellLevel

LEMMA LevelStep ==
  ASSUME BatteryTypeOK, SameLevel, [BatteryNext]_batteryVars
  PROVE  /\ SameLevel'
         /\ cellLevel' > cellLevel => fresh \/ cellLevel = NoLevel
<1>1. CASE Reading
  <2>1. PICK volt \in IF supply = "cell" THEN Volts ELSE {1200} :
          IF source = "cell" THEN ReadCell(volt) ELSE ReadExtdc
    BY <1>1 DEF Reading
  <2>2. volt \in Int
    BY BatteryAssumption
  <2>3. CASE source = "cell"
    <3>1. cellLevel' = LevelAfter(volt) /\ prev_level' = cellLevel'
      BY <2>1, <2>3 DEF ReadCell
    <3>2. NewLevel(volt) \in Int /\ cellLevel \in Int /\ prev_level \in Int
      BY <2>2, LevelType DEF BatteryTypeOK
    <3>3. prev_level # NoLevel => LevelAfter(volt) <= prev_level
      BY <3>2 DEF LevelAfter
    <3>4. cellLevel' \in Int
      BY <3>1, <3>2 DEF LevelAfter
    <3>5. QED
      BY <3>1, <3>2, <3>3, <3>4 DEF SameLevel
  <2>4. CASE source # "cell"
    BY <2>1, <2>4 DEF ReadExtdc, SameLevel, BatteryTypeOK
  <2>5. QED
    BY <2>3, <2>4
<1>2. CASE ~Reading
  <2>1. UNCHANGED <<cell, fresh>>
    BY <1>2 DEF BatteryNext, Main, PowerNotice, ChangeSupply, CreateQueue, HandleEvent,
                batteryVars, history
  <2>2. QED
    BY <2>1 DEF SameLevel, cell, BatteryTypeOK
<1>3. QED
  BY <1>1, <1>2

(* While the cell feeds the device the level that is drawn never rises, but for a first
   reading and for one after a level of -1. *)
THEOREM FallingLevel == BatterySpec => LevelNeverRises
<1>1. BatteryInit => SameLevel
  BY DEF BatteryInit, SameLevel
<1>2. BatteryTypeOK /\ SameLevel /\ [BatteryNext]_batteryVars =>
        SameLevel' /\ [cellLevel' > cellLevel => fresh \/ cellLevel = NoLevel]_batteryVars
  BY LevelStep
<1>3. QED
  BY <1>1, <1>2, BatteryTyping, PTL DEF BatterySpec, LevelNeverRises

-----------------------------------------------------------------------------
(* Whether the event that turns the device off has been posted, is told by the
   status: one that is depleted has been reported, and one that fell through the low
   band has left NORMAL. *)
Dead == \E i \in 1..Len(events) : events[i] = "DEAD_BATTERY"

StatusInv ==
  /\ cellStatus = "DEPLETED" => main = "off" \/ unheard \/ Dead
  /\ falling => cellStatus # "NORMAL"
  /\ falling /\ empty => cellStatus = "DEPLETED"

LEMMA PostKeeps ==
  ASSUME BatteryTypeOK, NEW code \in Codes, Post(code), Dead \/ code = "DEAD_BATTERY"
  PROVE  unheard' \/ Dead'
<1>1. CASE events' = Append(events, code)
  <2>1. /\ Len(events') = Len(events) + 1
        /\ \A i \in 1..Len(events) : events'[i] = events[i]
        /\ events'[Len(events) + 1] = code
    BY <1>1 DEF BatteryTypeOK
  <2>2. Len(events) \in Nat
    BY DEF BatteryTypeOK
  <2>3. QED
    BY <2>1, <2>2 DEF Dead
<1>2. CASE events' = events /\ unheard' = (unheard \/ code = "DEAD_BATTERY")
  BY <1>2, Zenon DEF Dead
<1>3. QED
  BY <1>1, <1>2 DEF Post

LEMMA StatusReading ==
  ASSUME BatteryTypeOK, StatusInv, Reading
  PROVE  StatusInv'
<1>1. PICK volt \in IF supply = "cell" THEN Volts ELSE {1200} :
        IF source = "cell" THEN ReadCell(volt) ELSE ReadExtdc
  BY DEF Reading
<1>2. main' = main
  BY DEF Reading
<1>3. CASE source = "cell"
  <2>1. ReadCell(volt)
    BY <1>1, <1>3
  <2>2. cellStatus' = StatusAfter(volt) /\ Report
    BY <2>1 DEF ReadCell
  <2>3. /\ falling' <=> (Band(volt) = "LOWVOLT" \/ (Band(volt) = "DEPLETED" /\ falling))
        /\ empty' <=> Band(volt) = "DEPLETED"
    BY <2>1 DEF ReadCell
  <2>4. cellStatus \in {"NORMAL", "LOWVOLT", "DEPLETED"}
    BY DEF BatteryTypeOK
  <2>5. falling' => cellStatus' # "NORMAL"
    BY <2>2, <2>3, <2>4 DEF StatusAfter, StatusInv
  <2>6. falling' /\ empty' => cellStatus' = "DEPLETED"
    BY <2>2, <2>3, <2>4 DEF StatusAfter, StatusInv
  <2>7. ASSUME cellStatus' = "DEPLETED"
        PROVE  main' = "off" \/ unheard' \/ Dead'
    <3>1. CASE cellStatus = "DEPLETED"
      <4>1. UNCHANGED <<events, unheard>>
        BY <2>2, <2>7, <3>1 DEF Report
      <4>2. QED
        BY <4>1, <3>1, <1>2 DEF StatusInv, Dead
    <3>2. CASE cellStatus # "DEPLETED"
      <4>1. Post("DEAD_BATTERY")
        BY <2>2, <2>7, <3>2 DEF Report
      <4>2. QED
        BY <4>1, PostKeeps DEF Codes
    <3>3. QED
      BY <3>1, <3>2
  <2>8. QED
    BY <2>5, <2>6, <2>7 DEF StatusInv
<1>4. CASE source # "cell"
  BY <1>1, <1>2, <1>4 DEF ReadExtdc, StatusInv, Dead
<1>5. QED
  BY <1>3, <1>4

LEMMA StatusHandle ==
  ASSUME BatteryTypeOK, StatusInv, HandleEvent
  PROVE  StatusInv'
<1>1. /\ UNCHANGED <<cellStatus, falling, empty, unheard>>
      /\ events # <<>> /\ events' = Tail(events)
      /\ main' = IF Head(events) = "DEAD_BATTERY" THEN "off" ELSE "running"
      /\ main # "off"
  BY DEF HandleEvent, cell, history
<1>2. ASSUME Dead, main' # "off"
      PROVE  Dead'
  <2>1. PICK i \in 1..Len(events) : events[i] = "DEAD_BATTERY"
    BY <1>2 DEF Dead
  <2>2. i # 1
    BY <2>1, <1>1, <1>2 DEF BatteryTypeOK
  <2>3. /\ Len(events') = Len(events) - 1
        /\ \A j \in 1..Len(events) - 1 : events'[j] = events[j + 1]
    BY <1>1 DEF BatteryTypeOK
  <2>4. Len(events) \in Nat /\ i - 1 \in 1..Len(events) - 1 /\ (i - 1) + 1 = i
    BY <2>1, <2>2 DEF BatteryTypeOK
  <2>5. events'[i - 1] = "DEAD_BATTERY"
    BY <2>1, <2>3, <2>4
  <2>6. QED
    BY <2>3, <2>4, <2>5 DEF Dead
<1>3. QED
  BY <1>1, <1>2 DEF StatusInv

LEMMA StatusStep ==
  ASSUME BatteryTypeOK, StatusInv, [BatteryNext]_batteryVars
  PROVE  StatusInv'
<1>1. CASE Reading
  BY <1>1, StatusReading
<1>2. CASE HandleEvent
  BY <1>2, StatusHandle
<1>3. CASE CreateQueue
  <2>1. main # "off" /\ UNCHANGED <<cellStatus, events, falling, empty, unheard>>
    BY <1>3 DEF CreateQueue, cell, history
  <2>2. QED
    BY <2>1 DEF StatusInv, Dead
<1>4. CASE PowerNotice \/ ChangeSupply \/ UNCHANGED batteryVars
  <2>1. UNCHANGED <<cellStatus, events, falling, empty, unheard, main>>
    BY <1>4 DEF PowerNotice, ChangeSupply, batteryVars, cell, history
  <2>2. QED
    BY <2>1 DEF StatusInv, Dead
<1>5. QED
  BY <1>1, <1>2, <1>3, <1>4 DEF BatteryNext, Main

(* The event for a cell that was low and then is empty is in the queue until main has
   handled it, unless it was dropped. *)
THEOREM EmptyReported == BatterySpec => []EmptyIsPosted
<1>1. BatteryInit => StatusInv
  BY DEF BatteryInit, StatusInv
<1>2. StatusInv => EmptyIsPosted
  BY DEF StatusInv, EmptyIsPosted, Dead
<1>3. BatteryTypeOK /\ StatusInv /\ [BatteryNext]_batteryVars => StatusInv'
  BY StatusStep
<1>4. QED
  BY <1>1, <1>2, <1>3, BatteryTyping, PTL DEF BatterySpec
=============================================================================
