------------------------- MODULE Acquisition_proofs -------------------------
(* Theorems about Acquisition, for any number of measurements and failures and any
   buffer that has room for the three points of a square.

   OwnRange needs to know where an answer is while nothing has gone wrong: there is
   one measurement at a time (Alone), its request or answer is on the line only
   while its thread is in lrf_wait_ack, and when it has returned the distance is its
   own or zero (Exchange); the main thread, having joined it, computes a position
   from that distance (Judged).

   ResultIsTarget needs to know what the buffer holds in each mode (Enough, Aimed);
   NothingMissing follows from that and from where the last thread is (Joinable).
   LaserIsWanted needs to know when the trigger can be pulled (Pulled) and that a
   thread lives in one press and its release (Wanted). *)
EXTENDS Acquisition, SequenceTheorems, TLAPS

USE DEF Shots, Ended

Answers == [shot : Shots, kind : Kinds]
Waits == {"sent", "free", "asleep"}

(* The types of the variables, with those TypeOK leaves out. *)
Types ==
  /\ TypeOK
  /\ requests \in Seq(Shots) /\ answers \in Seq(Answers)
  /\ doubt \in BOOLEAN /\ crowded \in BOOLEAN
  /\ manual \in BOOLEAN /\ ranged \in BOOLEAN

(* The threads are those that were created; inProc belongs to one of them. *)
Started ==
  /\ \A n \in Shots : n > shots => thread[n] = "none"
  /\ inProc \/ call = "join" => shots # 0
  /\ call # "judge" => ~ranged

Alone == ~doubt => \A n \in Shots : n < shots => thread[n] = "joined"

(* What is kept is the last measurement's distance, or zero. *)
Kept == range = {} \/ FromItself(shots, range)

(* Where the last thread is. *)
Current == IF shots = 0 THEN "none" ELSE thread[shots]

Exchange ==
  ~doubt =>
    \/ /\ requests = <<>> /\ answers = <<>>
       /\ Current \in Waits \cup {"awake", "measured"} => Kept
    \/ /\ Current \in Waits
       /\ requests = <<shots>> /\ answers = <<>>
    \/ /\ Current \in Waits
       /\ requests = <<>> /\ Len(answers) = 1 /\ answers[1].shot = shots

Judged ==
  ~doubt /\ ~manual =>
    /\ call = "judge" /\ ranged => Current = "joined" /\ Kept
    /\ call \in {"angles", "calculate"} => Current = "joined" /\ FromItself(shots, range)

(* Every point's distance comes from its own measurement. *)
Own(b) == \A i \in 1..Len(b.items) : FromItself(b.items[i].shot, b.items[i].from)

Sound == doubt \/ Own(buffer)

OwnInv == Started /\ Alone /\ Exchange /\ Judged /\ Sound

-----------------------------------------------------------------------------
(* The ring of points. *)

Points == [items : Seq(Data), focus : 0..MAXNUM_TAQDATA]

LEMMA OwnIsOwnRange ==
  ASSUME Types
  PROVE  OwnRange <=> Sound
<1>1. Range(buffer.items) = {buffer.items[i] : i \in 1..Len(buffer.items)}
  BY DEF Types, TypeOK, Range
<1>2. QED
  BY <1>1, Zenon DEF OwnRange, Sound, Own

LEMMA AddedPoint ==
  ASSUME NEW b \in Points, NEW d \in Data
  PROVE  /\ addData(b, d) \in Points
         /\ Len(addData(b, d).items) = IF Len(b.items) = MAXNUM_TAQDATA THEN MAXNUM_TAQDATA
                                                                        ELSE Len(b.items) + 1
         /\ addData(b, d).items[1] = d
         /\ \A i \in 2..Len(addData(b, d).items) :
              i - 1 \in 1..Len(b.items) /\ addData(b, d).items[i] = b.items[i - 1]
<1> DEFINE kept == IF Len(b.items) = MAXNUM_TAQDATA THEN Front(b.items) ELSE b.items
<1>1. /\ kept \in Seq(Data)
      /\ Len(kept) = IF Len(b.items) = MAXNUM_TAQDATA THEN MAXNUM_TAQDATA - 1 ELSE Len(b.items)
      /\ \A i \in 1..Len(kept) : i \in 1..Len(b.items) /\ kept[i] = b.items[i]
  <2>1. CASE Len(b.items) = MAXNUM_TAQDATA
    <3>1. Len(b.items) \in Nat \ {0}
      BY <2>1, TaqDataAssumption
    <3>2. QED
      BY <3>1, <2>1 DEF Points, Front
  <2>2. CASE Len(b.items) # MAXNUM_TAQDATA
    BY <2>2 DEF Points
  <2>3. QED
    BY <2>1, <2>2
<1>2. addData(b, d) = [items |-> <<d>> \o kept, focus |-> 1]
  BY DEF addData
<1> HIDE DEF kept
<1>3. addData(b, d) \in Points
  BY <1>1, <1>2, TaqDataAssumption DEF Points
<1>4. addData(b, d).items = <<d>> \o kept
  BY <1>2
<1>5. /\ Len(<<d>> \o kept) = Len(kept) + 1
      /\ (<<d>> \o kept)[1] = d
      /\ \A i \in 2..Len(kept) + 1 : i - 1 \in 1..Len(kept) /\ (<<d>> \o kept)[i] = kept[i - 1]
  BY <1>1
<1>6. Len(b.items) \in Nat /\ MAXNUM_TAQDATA \in Nat
  BY TaqDataAssumption DEF Points
<1>7. QED
  BY <1>1, <1>3, <1>4, <1>5, <1>6

LEMMA AddPoint ==
  ASSUME NEW b \in Points, NEW d \in Data
  PROVE  /\ addData(b, d) \in Points
         /\ Own(b) /\ FromItself(d.shot, d.from) => Own(addData(b, d))
<1>1. ASSUME Own(b), FromItself(d.shot, d.from), NEW i \in 1..Len(addData(b, d).items)
      PROVE  FromItself(addData(b, d).items[i].shot, addData(b, d).items[i].from)
  <2>1. CASE i = 1
    <3>1. addData(b, d).items[i] = d
      BY <2>1, AddedPoint
    <3>2. QED
      BY <3>1, <1>1
  <2>2. CASE i # 1
    <3>1. i - 1 \in 1..Len(b.items) /\ addData(b, d).items[i] = b.items[i - 1]
      BY <2>2, <1>1, AddedPoint
    <3>2. QED
      BY <3>1, <1>1 DEF Own
  <2>3. QED
    BY <2>1, <2>2
<1>2. QED
  BY <1>1, AddedPoint DEF Own

LEMMA RemovedPoint ==
  ASSUME NEW b \in Points, b.items # <<>>
  PROVE  /\ removeNewest(b) \in Points
         /\ Len(removeNewest(b).items) = Len(b.items) - 1
         /\ \A i \in 1..Len(removeNewest(b).items) :
              i + 1 \in 1..Len(b.items) /\ removeNewest(b).items[i] = b.items[i + 1]
<1> DEFINE rest == RemoveAt(b.items, 1)
<1>1. Len(b.items) \in Nat \ {0}
  BY DEF Points
<1>2. setFocus(b, 0) = [b EXCEPT !.focus = 1]
  BY <1>1 DEF setFocus
<1>3. setFocus(b, 0).items = b.items /\ setFocus(b, 0).focus = 1
  BY <1>2 DEF Points
<1>4. /\ removeNewest(b).items = rest
      /\ removeNewest(b).focus = IF Len(b.items) > 1 THEN 1 ELSE 0
      /\ removeNewest(b) = [items |-> removeNewest(b).items, focus |-> removeNewest(b).focus]
  BY <1>3 DEF removeNewest, removeData
<1>5. /\ rest \in Seq(Data) /\ Len(rest) = Len(b.items) - 1
      /\ \A i \in 1..Len(rest) : rest[i] = b.items[i + 1]
  <2>1. rest = <<>> \o Tail(b.items)
    BY <1>1, TailIsSubSeq DEF RemoveAt, Points
  <2>2. /\ Tail(b.items) \in Seq(Data) /\ Len(Tail(b.items)) = Len(b.items) - 1
        /\ \A i \in 1..Len(Tail(b.items)) : Tail(b.items)[i] = b.items[i + 1]
    BY HeadTailProperties DEF Points
  <2>3. <<>> \o Tail(b.items) = Tail(b.items)
    BY <2>2
  <2>4. QED
    BY <2>1, <2>2, <2>3
<1> HIDE DEF rest
<1>6. removeNewest(b) \in Points
  BY <1>4, <1>5, TaqDataAssumption DEF Points
<1>7. QED
  BY <1>1, <1>4, <1>5, <1>6

LEMMA RemovePoint ==
  ASSUME NEW b \in Points
  PROVE  /\ removeNewest(b) \in Points
         /\ Own(b) => Own(removeNewest(b))
<1>1. CASE b.items = <<>>
  BY <1>1 DEF removeNewest, removeData, setFocus, Points
<1>2. CASE b.items # <<>>
  BY <1>2, RemovedPoint DEF Own
<1>3. QED
  BY <1>1, <1>2

LEMMA SizedPoint ==
  ASSUME NEW b \in Points, NEW n \in Nat, hasData(b, n), NEW fits \in BOOLEAN,
         mode \in {"circular", "width", "fos"}
  PROVE  /\ Sized(b, n, fits) \in Points
         /\ Len(Sized(b, n, fits).items) = Len(b.items)
         /\ \A i \in 1..Len(b.items) :
              /\ Sized(b, n, fits).items[i].shot = b.items[i].shot
              /\ Sized(b, n, fits).items[i].from = b.items[i].from
              /\ Sized(b, n, fits).items[i].aid = b.items[i].aid
              /\ i # n + 1 => Sized(b, n, fits).items[i].size = b.items[i].size
<1>1. CASE ~fits
  BY <1>1 DEF Sized
<1>2. CASE fits
  <2> DEFINE s == [b.items EXCEPT ![n + 1] = [b.items[n + 1] EXCEPT !.size = mode]]
  <2>1. n + 1 \in 1..Len(b.items)
    BY DEF hasData, Points
  <2>2. b.items[n + 1] \in Data
    BY <2>1 DEF Points
  <2>3. [b.items[n + 1] EXCEPT !.size = mode] \in Data
    BY <2>2 DEF Data
  <2>4. s \in Seq(Data) /\ Len(s) = Len(b.items)
    BY <2>1, <2>3 DEF Points
  <2>5. ASSUME NEW i \in 1..Len(b.items)
        PROVE  /\ s[i].shot = b.items[i].shot /\ s[i].from = b.items[i].from
               /\ s[i].aid = b.items[i].aid
               /\ i # n + 1 => s[i].size = b.items[i].size
    <3>1. CASE i = n + 1
      <4>1. s[i] = [b.items[n + 1] EXCEPT !.size = mode]
        BY <3>1, <2>1 DEF Points
      <4>2. QED
        BY <4>1, <3>1, <2>2 DEF Data
    <3>2. CASE i # n + 1
      BY <3>2 DEF Points
    <3>3. QED
      BY <3>1, <3>2
  <2>6. Sized(b, n, fits) = [b EXCEPT !.items = s]
    BY <1>2 DEF Sized
  <2> HIDE DEF s
  <2>7. Sized(b, n, fits) \in Points /\ Sized(b, n, fits).items = s
    BY <2>4, <2>6 DEF Points
  <2>8. QED
    BY <2>4, <2>5, <2>7
<1>3. QED
  BY <1>1, <1>2

LEMMA SizePoint ==
  ASSUME NEW b \in Points, NEW n \in Nat, hasData(b, n), NEW fits \in BOOLEAN,
         mode \in {"circular", "width", "fos"}
  PROVE  /\ Sized(b, n, fits) \in Points
         /\ Own(b) => Own(Sized(b, n, fits))
BY SizedPoint DEF Own

LEMMA ResultPoint ==
  ASSUME NEW b \in Points, hasData(b, Aids), NEW fits \in BOOLEAN, mode \in Modes
  PROVE  /\ Result(b, fits) \in Points
         /\ Own(b) => Own(Result(b, fits))
<1>1. CASE mode = "circular"
  <2>1. hasData(b, 1)
    BY <1>1 DEF Aids
  <2>2. QED
    BY <1>1, <2>1, SizePoint, RemovePoint DEF Result, Radius
<1>2. CASE mode = "width"
  <2>1. hasData(b, 2)
    BY <1>2 DEF Aids
  <2>2. /\ Sized(b, 2, fits) \in Points
        /\ Own(b) => Own(Sized(b, 2, fits))
    BY <1>2, <2>1, SizePoint
  <2>3. QED
    BY <1>2, <2>2, RemovePoint DEF Result, SquareSize
<1>3. CASE mode = "fos"
  <2>1. hasData(b, 1)
    BY <1>3 DEF Aids
  <2>2. QED
    BY <1>3, <2>1, SizePoint, RemovePoint DEF Result, Shift
<1>4. CASE mode \in {"point", "length"}
  BY <1>4 DEF Result
<1>5. QED
  BY <1>1, <1>2, <1>3, <1>4 DEF Modes

-----------------------------------------------------------------------------
(* Types. *)

LEMMA EmptyRing == taqdata_manager_create \in Points
<1>1. 0 \in 0..MAXNUM_TAQDATA
  BY TaqDataAssumption
<1>2. QED
  BY <1>1 DEF taqdata_manager_create, Points

LEMMA TypesInit == Init => Types
<1> SUFFICES ASSUME Init PROVE Types
  OBVIOUS
<1>1. buffer \in Points
  BY EmptyRing DEF Init, TaqInit
<1>2. /\ shots \in 0..MaxShots /\ thread \in [Shots -> Places]
      /\ range \subseteq Shots /\ far \subseteq Shots
  <2>1. shots = 0 /\ thread = [n \in Shots |-> "none"] /\ range = {} /\ far = {}
    BY DEF Init, LrfInit
  <2>2. 0 \in 0..MaxShots
    BY RangeFinderAssumption
  <2>3. "none" \in Places
    BY DEF Places
  <2>4. QED
    BY <2>1, <2>2, <2>3
<1>3. inProc \in BOOLEAN /\ trigger \in Triggers /\ waitAck \in BOOLEAN
  BY DEF Init, LrfInit, Triggers
<1>4. requests \in Seq(Shots) /\ answers \in Seq(Answers) /\ doubt \in BOOLEAN /\ crowded \in BOOLEAN
  <2>1. requests = <<>> /\ answers = <<>> /\ doubt = FALSE /\ crowded = FALSE
    BY DEF Init, LrfInit
  <2>2. <<>> \in Seq(Shots) /\ <<>> \in Seq(Answers)
    BY EmptySeq
  <2>3. QED
    BY <2>1, <2>2
<1>5. mode \in Modes /\ status \in Statuses /\ manual \in BOOLEAN /\ ranged \in BOOLEAN
  BY DEF Init, TaqInit, Modes, Statuses
<1>6. QED
  BY <1>1, <1>2, <1>3, <1>4, <1>5 DEF Types, TypeOK, Points

LEMMA TypesAcknowledge ==
  ASSUME Types, Acknowledge
  PROVE  waitAck' \in BOOLEAN /\ thread' \in [Shots -> Places]
BY DEF Types, TypeOK, Acknowledge, Go, Places

LEMMA TypesMeasurement ==
  ASSUME Types, NEW n \in Shots, Measuring(n)
  PROVE  /\ thread' \in [Shots -> Places] /\ trigger' \in Triggers
         /\ shots' = shots /\ range' = range /\ far' = far /\ answers' = answers
         /\ inProc' \in BOOLEAN /\ waitAck' \in BOOLEAN
         /\ requests' \in Seq(Shots) /\ doubt' \in BOOLEAN /\ crowded' \in BOOLEAN
<1>1. CASE Begin(n) \/ Charge(n) \/ TestTrigger(n) \/ Arm(n)
  BY <1>1 DEF Begin, Charge, TestTrigger, Arm, line, Go, Types, TypeOK, Places, Triggers
<1>2. CASE Fire(n) \/ GiveUp(n) \/ Overcharge(n) \/ Measure(n)
  BY <1>2 DEF Fire, GiveUp, Overcharge, Measure, line, Go, Types, TypeOK, Places, Triggers
<1>3. CASE Ask(n)
  <2>1. requests' \in Seq(Shots)
    <3>1. Append(requests, n) \in Seq(Shots)
      BY DEF Types
    <3>2. QED
      BY <1>3, <3>1 DEF Ask, Types
  <2>2. thread' \in [Shots -> Places]
    BY <1>3 DEF Ask, Go, Types, TypeOK, Places
  <2>3. doubt' \in BOOLEAN
    BY <1>3 DEF Ask, Types
  <2>4. QED
    BY <1>3, <2>1, <2>2, <2>3 DEF Ask, Types, TypeOK
<1>4. CASE TestWait(n)
  BY <1>4 DEF TestWait, line, Go, Types, TypeOK, Places
<1>5. CASE Sleep(n) \/ Wake(n)
  BY <1>5 DEF Sleep, Wake, line, Go, Types, TypeOK, Places
<1>6. QED
  BY <1>1, <1>2, <1>3, <1>4, <1>5 DEF Measuring

LEMMA TypesReader ==
  ASSUME Types, Reader
  PROVE  Types'
<1>1. waitAck' \in BOOLEAN /\ thread' \in [Shots -> Places]
  BY TypesAcknowledge DEF Reader, Read, Expire
<1>2. /\ range' \subseteq Shots /\ far' \subseteq Shots
      /\ answers' \in Seq(Answers) /\ doubt' \in BOOLEAN
  <2>1. CASE Read
    <3>1. Head(answers) \in Answers /\ Tail(answers) \in Seq(Answers)
      BY <2>1 DEF Read, Types
    <3>2. RangeAfter(Head(answers)) \subseteq Shots /\ far' \subseteq Shots
      BY <2>1, <3>1 DEF Read, RangeAfter, Answers, Kinds, Types, TypeOK
    <3>3. doubt' \in BOOLEAN
      BY <2>1 DEF Read, Types
    <3>4. QED
      BY <2>1, <3>1, <3>2, <3>3 DEF Read
  <2>2. CASE Expire
    BY <2>2 DEF Expire, Types, TypeOK
  <2>3. QED
    BY <2>1, <2>2 DEF Reader
<1>3. /\ shots' = shots /\ inProc' = inProc /\ trigger' = trigger
      /\ requests' = requests /\ crowded' = crowded
      /\ mode' = mode /\ status' = status /\ buffer' = buffer
      /\ manual' = manual /\ ranged' = ranged
  BY DEF Reader, Read, Expire, taqVars
<1>4. QED
  BY <1>1, <1>2, <1>3 DEF Types, TypeOK

LEMMA TypesAnswer ==
  ASSUME Types, Answer, UNCHANGED taqVars
  PROVE  Types'
<1>1. Head(requests) \in Shots /\ Tail(requests) \in Seq(Shots)
  <2>1. requests # <<>> /\ requests \in Seq(Shots)
    BY DEF Answer, Types
  <2>2. QED
    BY <2>1, HeadTailProperties
<1>2. answers' \in Seq(Answers) /\ doubt' \in BOOLEAN
  <2>1. CASE \E k \in Kinds : answers' = Append(answers, [shot |-> Head(requests), kind |-> k])
    <3>1. PICK k \in Kinds : answers' = Append(answers, [shot |-> Head(requests), kind |-> k])
      BY <2>1
    <3>2. [shot |-> Head(requests), kind |-> k] \in Answers
      BY <1>1 DEF Answers
    <3>3. answers' \in Seq(Answers)
      BY <3>1, <3>2 DEF Types
    <3>4. QED
      BY <3>3, Zenon DEF Answer, Types
  <2>2. CASE UNCHANGED answers /\ doubt' = TRUE
    BY <2>2 DEF Types
  <2>3. QED
    BY <2>1, <2>2 DEF Answer
<1>3. QED
  BY <1>1, <1>2 DEF Answer, taqVars, Types, TypeOK

LEMMA TypesEndMeasuring ==
  ASSUME Types, EndMeasuring
  PROVE  /\ thread' \in [Shots -> Places]
         /\ inProc' = FALSE /\ trigger' \in Triggers
         /\ UNCHANGED <<shots, waitAck, range, line, faults, doubt, crowded, far>>
BY DEF EndMeasuring, Go, Types, TypeOK, Places, Triggers

LEMMA TypesFailed ==
  ASSUME Types, NEW code, NEW b \in Points, Failed(code, b)
  PROVE  mode' \in Modes /\ status' \in Statuses /\ buffer' \in Points
<1>1. taqdata_manager_create \in Points
  BY EmptyRing
<1>2. QED
  BY <1>1 DEF Failed, Modes, Statuses

(* The point a calculation adds. *)
NewPoint ==
  [shot |-> IF manual THEN 0 ELSE shots, from |-> IF manual THEN {0} ELSE range,
   aid  |-> mode # "point", size |-> "none"]

LEMMA PositionType ==
  ASSUME Types
  PROVE  /\ NewPoint \in Data /\ buffer \in Points /\ Position \in Points
         /\ Own(buffer) /\ FromItself(NewPoint.shot, NewPoint.from) => Own(Position)
<1>1. NewPoint \in Data
  <2>1. (IF manual THEN 0 ELSE shots) \in 0..MaxShots
    BY RangeFinderAssumption DEF Types, TypeOK
  <2>2. (IF manual THEN {0} ELSE range) \in SUBSET (0..MaxShots)
    BY RangeFinderAssumption DEF Types, TypeOK
  <2>3. QED
    BY <2>1, <2>2 DEF NewPoint, Data
<1>2. buffer \in Points
  BY DEF Types, TypeOK, Points
<1>3. Position = addData(buffer, NewPoint)
  BY DEF Position, NewPoint
<1>4. QED
  BY <1>1, <1>2, <1>3, AddPoint

LEMMA TypesCalculate ==
  ASSUME Types, Calculate
  PROVE  mode' \in Modes /\ status' \in Statuses /\ buffer' \in Points
<1>1. Position \in Points /\ buffer \in Points /\ mode \in Modes
  BY PositionType DEF Types, TypeOK
<1>2. CASE Failed("FAIL_GEODCALC", buffer)
  BY <1>1, <1>2, TypesFailed
<1>3. CASE UNCHANGED results
  BY <1>1, <1>3 DEF results, Types, TypeOK
<1>4. CASE hasData(Position, Aids) /\ Succeeded(Result(Position, TRUE))
  <2>1. Result(Position, TRUE) \in Points
    BY <1>1, <1>4, ResultPoint
  <2>2. QED
    BY <1>4, <2>1 DEF Succeeded, Types, TypeOK, Modes, Statuses
<1>5. CASE hasData(Position, Aids) /\ Failed("TARGET_SIZE_OVER", Result(Position, FALSE))
  <2>1. Result(Position, FALSE) \in Points
    BY <1>1, <1>5, ResultPoint
  <2>2. QED
    BY <1>5, <2>1, TypesFailed
<1>6. QED
  BY <1>2, <1>3, <1>4, <1>5 DEF Calculate

LEMMA TypesMain ==
  ASSUME Types, Main
  PROVE  Types'
<1> USE DEF Types, TypeOK
<1>1. CASE ReadTrigger \/ Finalize
  BY <1>1 DEF ReadTrigger, Finalize, lrfVars, line, userData, results
<1>2. CASE PullTrigger
  <2>1. trigger' \in Triggers
    BY <1>2 DEF PullTrigger, FireLaser, Triggers
  <2>2. QED
    BY <1>2, <2>1 DEF PullTrigger, line, userData, results
<1>3. CASE Join
  <2>1. CASE EndMeasuring
    <3>1. ranged' \in BOOLEAN
      BY <1>3, <2>1 DEF Join, EndMeasuring, lrfVars
    <3>2. QED
      BY <1>3, <2>1, <3>1, TypesEndMeasuring DEF Join, line, userData, results
  <2>2. CASE UNCHANGED <<lrfVars, call, ranged>>
    BY <1>3, <2>2 DEF Join, lrfVars, line, userData, results
  <2>3. QED
    BY <1>3, <2>1, <2>2 DEF Join
<1>4. CASE Judge
  <2>1. PICK offline \in SUBSET {"dmc", "gnss"}, distance \in Distances :
          \/ Wrong(distance, offline) = "ok" /\ UNCHANGED results
          \/ Failed(Wrong(distance, offline), buffer)
    BY <1>4 DEF Judge
  <2>2. mode' \in Modes /\ status' \in Statuses /\ buffer' \in Points
    <3>1. buffer \in Points
      BY DEF Points
    <3>2. QED
      BY <2>1, <3>1, TypesFailed DEF results
  <2>3. QED
    BY <1>4, <2>2 DEF Judge, OnlyFaults, line, userData, Points
<1>5. CASE Angles
  BY <1>5 DEF Angles, OnlyFaults, line, userData, results
<1>6. CASE Calculate
  BY <1>6, TypesCalculate DEF Calculate, OnlyFaults, line, userData, Points
<1>7. QED
  BY <1>1, <1>2, <1>3, <1>4, <1>5, <1>6 DEF Main

LEMMA TypesUser ==
  ASSUME Types, User
  PROVE  Types'
<1> USE DEF Types, TypeOK
<1>0. taqdata_manager_create \in Points
  BY EmptyRing
<1>1. CASE Push
  <2>1. CASE StartMeasuring
    <3>1. shots + 1 \in Shots /\ thread' \in [Shots -> Places]
      BY <2>1, RangeFinderAssumption DEF StartMeasuring, Places
    <3>2. crowded' \in BOOLEAN /\ doubt' \in BOOLEAN
      BY <2>1 DEF StartMeasuring
    <3>3. status' \in Statuses
      BY <1>1, <2>1 DEF Push, Refused, StartMeasuring, Statuses
    <3>4. QED
      BY <1>1, <2>1, <3>1, <3>2, <3>3, RangeFinderAssumption
         DEF Push, StartMeasuring, line, release
  <2>2. CASE UNCHANGED lrfVars
    BY <1>1, <2>2 DEF Push, StartRanging, Refused, lrfVars, line, release, Statuses
  <2>3. CASE UNCHANGED <<shots, thread, inProc, trigger, waitAck, range, line, far, crowded, doubt>>
    BY <1>1, <2>3 DEF Push, Refused, line, release, Statuses
  <2>4. QED
    BY <1>1, <2>1, <2>2, <2>3 DEF Push, StartRanging, Refused
<1>2. CASE Release
  BY <1>2 DEF Release, lrfVars, line, results
<1>3. CASE SetTaqmode
  BY <1>3 DEF SetTaqmode, lrfVars, line, userData, release, Modes, Statuses
<1>4. CASE Stop
  BY <1>4, <1>0 DEF Stop, Reset, lrfVars, line, userData, release, Modes, Statuses, Points
<1>5. CASE Terminate
  <2>1. buffer \in Points
    BY DEF Points
  <2>2. buffer' \in Points
    BY <1>5, <2>1, RemovePoint DEF Terminate
  <2>3. QED
    BY <1>5, <2>2 DEF Terminate, lrfVars, line, userData, release, Modes, Statuses, Points
<1>6. CASE UseRange
  BY <1>6 DEF UseRange, lrfVars, line, results, release
<1>7. QED
  BY <1>1, <1>2, <1>3, <1>4, <1>5, <1>6 DEF User

LEMMA TypesStep ==
  ASSUME Types, [Next]_vars
  PROVE  Types'
<1>1. CASE Main
  BY <1>1, TypesMain
<1>2. CASE User
  BY <1>2, TypesUser
<1>3. CASE Reader
  BY <1>3, TypesReader
<1>4. ASSUME NEW n \in Shots, Measurement(n) PROVE Types'
  <2>1. Measuring(n) /\ UNCHANGED taqVars
    BY <1>4 DEF Measurement
  <2>2. QED
    BY <2>1, TypesMeasurement DEF taqVars, Types, TypeOK
<1>5. CASE Answer /\ UNCHANGED taqVars
  BY <1>5, TypesAnswer
<1>6. CASE UNCHANGED vars
  BY <1>6 DEF vars, lrfVars, taqVars, Types, TypeOK
<1>7. QED
  BY <1>1, <1>2, <1>3, <1>4, <1>5, <1>6 DEF Next

(* The variables keep their types, for any number of measurements and any buffer that
   has room for a square. *)
THEOREM Typing == Spec => []TypeOK
<1>1. Spec => []Types
  BY TypesInit, TypesStep, PTL DEF Spec
<1>2. Types => TypeOK
  BY DEF Types
<1>3. QED
  BY <1>1, <1>2, PTL

-----------------------------------------------------------------------------
(* Whose distance a point gets. *)

LEMMA OwnInit == Init => OwnInv
<1> SUFFICES ASSUME Init PROVE OwnInv
  OBVIOUS
<1>1. /\ shots = 0 /\ thread = [n \in Shots |-> "none"] /\ inProc = FALSE
      /\ requests = <<>> /\ answers = <<>> /\ call = "none" /\ ranged = FALSE
      /\ buffer.items = <<>>
  BY DEF Init, LrfInit, TaqInit, taqdata_manager_create
<1>2. Started /\ Alone
  BY <1>1 DEF Started, Alone
<1>3. Current = "none"
  BY <1>1 DEF Current
<1>4. Exchange
  BY <1>1, <1>3 DEF Exchange, Waits
<1>5. Judged
  BY <1>1 DEF Judged
<1>6. Sound
  BY <1>1 DEF Sound, Own
<1>7. QED
  BY <1>2, <1>4, <1>5, <1>6 DEF OwnInv

(* One thread at a time is anything but new or joined. *)
LEMMA OnlyOne ==
  ASSUME Types, Started, Alone, ~doubt, NEW n \in Shots, thread[n] \notin {"none", "joined"}
  PROVE  n = shots
BY DEF Types, TypeOK, Started, Alone

LEMMA Unread ==
  ASSUME OwnInv, UNCHANGED <<shots, thread, requests, answers, range, far, doubt>>
  PROVE  Alone' /\ Exchange'
BY DEF OwnInv, Alone, Exchange, Current, Kept, FromItself

LEMMA GoesOn ==
  ASSUME Types, NEW n \in Shots, Measuring(n)
  PROVE  /\ thread[n] \notin {"none", "joined"}
         /\ \E p \in Places \ {"none", "joined"} : Go(n, p)
<1>1. CASE Begin(n) \/ Charge(n) \/ TestTrigger(n) \/ Arm(n)
  BY <1>1 DEF Begin, Charge, TestTrigger, Arm, At, Places
<1>2. CASE Fire(n) \/ GiveUp(n) \/ Overcharge(n) \/ Measure(n)
  BY <1>2 DEF Fire, GiveUp, Overcharge, Measure, At, Places
<1>3. CASE Ask(n) \/ TestWait(n) \/ Sleep(n) \/ Wake(n)
  BY <1>3 DEF Ask, TestWait, Sleep, Wake, At, Places
<1>4. QED
  BY <1>1, <1>2, <1>3 DEF Measuring

LEMMA MeasurementExchange ==
  ASSUME Types, OwnInv, NEW n \in Shots, Measuring(n), ~doubt'
  PROVE  ~doubt /\ n = shots /\ Exchange'
<1>1. ~doubt
  BY Zenon DEF Measuring, Begin, Charge, TestTrigger, Arm, Fire, GiveUp, Overcharge,
               Measure, Ask, TestWait, Sleep, Wake
<1>2. n = shots /\ shots # 0
  BY <1>1, GoesOn, OnlyOne, RangeFinderAssumption DEF OwnInv
<1>3. /\ shots' = shots /\ range' = range /\ far' = far /\ answers' = answers
      /\ thread \in [Shots -> Places]
  BY TypesMeasurement DEF Types, TypeOK
<1>4. ASSUME thread[n] \notin Waits \cup {"awake"}, requests' = requests,
             thread'[n] \notin Waits \cup {"awake", "measured"}
      PROVE  Exchange'
  BY <1>1, <1>2, <1>3, <1>4, GoesOn DEF OwnInv, Exchange, Current, Waits
<1>5. ASSUME Begin(n) \/ Charge(n) \/ TestTrigger(n) \/ Arm(n) PROVE Exchange'
  BY <1>5, <1>3, <1>4 DEF Begin, Charge, TestTrigger, Arm, At, Go, line, Waits
<1>6. ASSUME Fire(n) \/ GiveUp(n) \/ Overcharge(n) \/ Measure(n) PROVE Exchange'
  BY <1>6, <1>3, <1>4 DEF Fire, GiveUp, Overcharge, Measure, At, Go, line, Waits
<1>7. ASSUME Ask(n) PROVE Exchange'
  <2>1. thread[n] = "ask" /\ thread'[n] = "sent" /\ requests' = Append(requests, n)
    BY <1>7, <1>3 DEF Ask, At, Go
  <2>2. requests = <<>> /\ answers = <<>>
    BY <1>1, <1>2, <2>1 DEF OwnInv, Exchange, Current, Waits
  <2>3. requests' = <<shots'>> /\ answers' = <<>> /\ thread'[shots'] = "sent" /\ shots' # 0
    BY <1>2, <1>3, <2>1, <2>2
  <2>4. Current' \in Waits
    BY <2>3 DEF Current, Waits
  <2>5. QED
    BY <2>3, <2>4, Zenon DEF Exchange
<1>8. ASSUME TestWait(n) \/ Sleep(n) PROVE Exchange'
  <2>1. thread[n] \in Waits /\ thread'[n] \in Waits /\ requests' = requests
    BY <1>8, <1>3 DEF TestWait, Sleep, At, Go, line, Waits
  <2>2. QED
    BY <1>1, <1>2, <1>3, <2>1 DEF OwnInv, Exchange, Current, Kept, FromItself, Waits
<1>9. ASSUME Wake(n) PROVE Exchange'
  <2>1. thread[n] = "awake" /\ thread'[n] \in {"asleep", "measured"} /\ requests' = requests
    BY <1>9, <1>3 DEF Wake, At, Go, line
  <2>2. requests = <<>> /\ answers = <<>> /\ Kept
    BY <1>1, <1>2, <2>1 DEF OwnInv, Exchange, Current, Waits
  <2>3. requests' = <<>> /\ answers' = <<>> /\ Kept'
    BY <1>3, <2>1, <2>2 DEF Kept, FromItself
  <2>4. QED
    BY <2>3, Zenon DEF Exchange
<1>10. QED
  BY <1>1, <1>2, <1>5, <1>6, <1>7, <1>8, <1>9 DEF Measuring

LEMMA OwnMeasurement ==
  ASSUME Types, OwnInv, NEW n \in Shots, Measurement(n)
  PROVE  OwnInv'
<1>1. Measuring(n) /\ UNCHANGED taqVars
  BY DEF Measurement
<1>2. /\ thread[n] \notin {"none", "joined"}
      /\ \E p \in Places \ {"none", "joined"} : thread' = [thread EXCEPT ![n] = p]
  BY <1>1, GoesOn DEF Go
<1>3. /\ shots' = shots /\ thread \in [Shots -> Places] /\ shots \in Nat
      /\ call' = call /\ ranged' = ranged /\ manual' = manual /\ buffer' = buffer
      /\ range' = range /\ far' = far
  BY <1>1, TypesMeasurement, RangeFinderAssumption DEF taqVars, Types, TypeOK
<1>4. Started'
  BY <1>2, <1>3, RangeFinderAssumption DEF OwnInv, Started
<1>6. ASSUME ~doubt' PROVE Alone' /\ Exchange' /\ Judged' /\ Sound'
  <2>1. ~doubt /\ n = shots /\ Exchange'
    BY <1>1, <1>6, MeasurementExchange
  <2>2. Alone'
    BY <1>2, <1>3, <2>1 DEF OwnInv, Alone
  <2>3. Judged'
    BY <1>2, <1>3, <2>1 DEF OwnInv, Judged, Current, FromItself
  <2>4. Sound'
    BY <1>3, <2>1 DEF OwnInv, Sound, Own, FromItself
  <2>5. QED
    BY <2>1, <2>2, <2>3, <2>4
<1>7. ASSUME doubt' PROVE Alone' /\ Exchange' /\ Judged' /\ Sound'
  BY <1>7 DEF Alone, Exchange, Judged, Sound
<1>8. QED
  BY <1>4, <1>6, <1>7 DEF OwnInv

LEMMA OwnReader ==
  ASSUME Types, OwnInv, Reader
  PROVE  OwnInv'
<1>1. /\ UNCHANGED <<shots, inProc, requests>> /\ UNCHANGED taqVars
      /\ thread \in [Shots -> Places] /\ shots \in Nat
  BY RangeFinderAssumption DEF Reader, Read, Expire, Types, TypeOK
<1>2. \A n \in Shots : thread'[n] = thread[n] \/ (thread[n] = "asleep" /\ thread'[n] = "awake")
  <2>1. Acknowledge
    BY DEF Reader, Read, Expire
  <2>2. QED
    BY <1>1, <2>1 DEF Acknowledge, Go
<1>3. Started'
  BY <1>1, <1>2 DEF OwnInv, Started, taqVars
<1>4. ASSUME ~doubt' PROVE Alone' /\ Exchange' /\ Judged' /\ Sound'
  <2>1. ~doubt
    BY <1>4, Zenon DEF Reader, Read, Expire
  <2>2. Alone'
    BY <1>1, <1>2, <2>1 DEF OwnInv, Alone
  <2>3. Sound'
    <3>1. far \subseteq far'
      BY DEF Reader, Read, Expire
    <3>2. QED
      BY <1>1, <2>1, <3>1 DEF OwnInv, Sound, Own, FromItself, taqVars
  <2>4. shots # 0 => shots \in Shots
    BY RangeFinderAssumption DEF Types, TypeOK
  <2>5. CASE Read
    <3>1. answers # <<>>
      BY <2>5 DEF Read
    <3>2. /\ Current \in Waits /\ requests = <<>>
          /\ Len(answers) = 1 /\ answers[1].shot = shots
      BY <2>1, <3>1 DEF OwnInv, Exchange
    <3>3. answers \in Seq(Answers)
      BY DEF Types
    <3>4. Head(answers) \in Answers /\ Head(answers).shot = shots /\ Tail(answers) = <<>>
      <4>1. Head(answers) = answers[1]
        BY <3>1, <3>3
      <4>2. answers[1] \in Answers
        BY <3>2, <3>3, ElementOfSeq
      <4>3. Tail(answers) \in Seq(Answers) /\ Len(Tail(answers)) = 0
        BY <3>1, <3>2, <3>3, HeadTailProperties
      <4>4. Tail(answers) = <<>>
        BY <4>3, EmptySeq
      <4>5. QED
        BY <3>2, <4>1, <4>2, <4>4
    <3>5. Head(answers).kind # "bad"
      BY <1>4, <2>5, Zenon DEF Read
    <3>6. range' = {} \/ range' = {shots} \/ (shots \in range' /\ shots \in far')
      BY <2>5, <3>4, <3>5 DEF Read, RangeAfter, Answers, Kinds
    <3>7. requests' = <<>> /\ answers' = <<>>
      BY <1>1, <2>5, <3>2, <3>4 DEF Read
    <3>8. Kept'
      BY <1>1, <3>6 DEF Kept, FromItself
    <3>9. Exchange'
      BY <3>7, <3>8 DEF Exchange
    <3>10. Judged'
      BY <1>1, <2>1, <3>2 DEF OwnInv, Judged, Current, Waits, taqVars
    <3>11. QED
      BY <2>2, <2>3, <3>9, <3>10
  <2>6. CASE Expire
    <3>1. requests = <<>> /\ answers = <<>> /\ range' = range /\ far' = far /\ answers' = answers
      BY <1>4, <2>6, Zenon DEF Expire
    <3>2. Exchange'
      <4>1. Current \in Waits \cup {"awake", "measured"} => Kept
        BY <2>1, <3>1 DEF OwnInv, Exchange
      <4>2. Current' \in Waits \cup {"awake", "measured"} => Current \in Waits \cup {"awake", "measured"}
        BY <1>1, <1>2, <2>4 DEF Current, Waits
      <4>3. Kept => Kept'
        BY <1>1, <3>1 DEF Kept, FromItself
      <4>4. QED
        BY <1>1, <3>1, <4>1, <4>2, <4>3 DEF Exchange
    <3>3. Judged'
      BY <1>1, <1>2, <2>1, <2>4, <3>1 DEF OwnInv, Judged, Current, Kept, FromItself, taqVars
    <3>4. QED
      BY <2>2, <2>3, <3>2, <3>3
  <2>7. QED
    BY <2>5, <2>6 DEF Reader
<1>5. ASSUME doubt' PROVE Alone' /\ Exchange' /\ Judged' /\ Sound'
  BY <1>5 DEF Alone, Exchange, Judged, Sound
<1>6. QED
  BY <1>3, <1>4, <1>5 DEF OwnInv

LEMMA OwnAnswer ==
  ASSUME Types, OwnInv, Answer, UNCHANGED taqVars
  PROVE  OwnInv'
<1>1. UNCHANGED <<shots, thread, inProc, range, far>>
  BY DEF Answer
<1>2. Started'
  BY <1>1 DEF OwnInv, Started, taqVars
<1>3. ASSUME ~doubt' PROVE Alone' /\ Exchange' /\ Judged' /\ Sound'
  <2>1. ~doubt
    BY <1>3, Zenon DEF Answer
  <2>2. Current \in Waits /\ requests = <<shots>> /\ answers = <<>>
    BY <2>1 DEF Answer, OwnInv, Exchange
  <2>3. PICK k \in Kinds : answers' = Append(answers, [shot |-> Head(requests), kind |-> k])
    BY <1>3 DEF Answer
  <2>4. requests' = <<>>
    BY <2>2 DEF Answer
  <2>5. Len(answers') = 1 /\ answers'[1].shot = shots
    BY <2>2, <2>3
  <2>6. Exchange'
    BY <1>1, <2>2, <2>4, <2>5 DEF Exchange, Current
  <2>7. Alone' /\ Judged' /\ Sound'
    BY <1>1, <2>1 DEF OwnInv, Alone, Judged, Sound, Own, Current, Kept, FromItself, taqVars
  <2>8. QED
    BY <2>6, <2>7
<1>4. ASSUME doubt' PROVE Alone' /\ Exchange' /\ Judged' /\ Sound'
  BY <1>4 DEF Alone, Exchange, Judged, Sound
<1>5. QED
  BY <1>2, <1>3, <1>4 DEF OwnInv

LEMMA OwnFailed ==
  ASSUME NEW code, NEW b, Own(b), Failed(code, b)
  PROVE  Own(buffer')
BY DEF Failed, Own, taqdata_manager_create

(* The point of a measurement that is not given up has its own distance. *)
LEMMA OwnPosition ==
  ASSUME Types, OwnInv, call = "calculate", ~doubt
  PROVE  Own(Position)
<1>1. FromItself(NewPoint.shot, NewPoint.from)
  <2>1. CASE manual
    BY <2>1 DEF NewPoint, FromItself
  <2>2. CASE ~manual
    BY <2>2 DEF NewPoint, OwnInv, Judged
  <2>3. QED
    BY <2>1, <2>2
<1>2. Own(buffer)
  BY DEF OwnInv, Sound
<1>3. QED
  BY <1>1, <1>2, PositionType

LEMMA OwnCalculate ==
  ASSUME Types, OwnInv, Calculate, ~doubt
  PROVE  Own(buffer')
<1>1. /\ Own(Position) /\ Position \in Points
      /\ Own(buffer) /\ mode \in Modes
  BY OwnPosition, PositionType DEF Calculate, Doing, OwnInv, Sound, Types, TypeOK
<1>2. CASE Failed("FAIL_GEODCALC", buffer)
  BY <1>1, <1>2, OwnFailed
<1>3. CASE UNCHANGED results
  BY <1>1, <1>3 DEF results
<1>4. CASE hasData(Position, Aids) /\ Succeeded(Result(Position, TRUE))
  BY <1>1, <1>4, ResultPoint DEF Succeeded
<1>5. CASE hasData(Position, Aids) /\ Failed("TARGET_SIZE_OVER", Result(Position, FALSE))
  BY <1>1, <1>5, ResultPoint, OwnFailed
<1>6. QED
  BY <1>2, <1>3, <1>4, <1>5 DEF Calculate

LEMMA OwnJoin ==
  ASSUME Types, OwnInv, Join
  PROVE  OwnInv'
<1>1. /\ call = "join" /\ shots # 0 /\ shots \in Shots /\ thread \in [Shots -> Places]
      /\ UNCHANGED <<shots, range, far, requests, answers, doubt, buffer, manual>>
  BY RangeFinderAssumption
     DEF Join, Doing, EndMeasuring, lrfVars, line, results, userData, OwnInv, Started, Types, TypeOK
<1>2. CASE EndMeasuring
  <2>1. /\ call' = "judge" /\ inProc' = FALSE
        /\ thread[shots] \in Ended /\ thread' = [thread EXCEPT ![shots] = "joined"]
        /\ ranged' => thread[shots] = "measured"
    BY <1>2 DEF Join, Then, EndMeasuring, Go, lrfVars
  <2>2. Started'
    BY <1>1, <2>1 DEF OwnInv, Started
  <2>3. Alone'
    BY <1>1, <2>1 DEF OwnInv, Alone
  <2>4. Current' = "joined" /\ Current \in Ended
    BY <1>1, <2>1 DEF Current
  <2>5. ASSUME ~doubt'
        PROVE  requests = <<>> /\ answers = <<>> /\ (ranged' => Kept)
    <3>1. Current \notin Waits
      BY <2>4 DEF Waits
    <3>2. ranged' => Current = "measured"
      BY <1>1, <2>1 DEF Current
    <3>3. QED
      BY <1>1, <2>5, <3>1, <3>2 DEF OwnInv, Exchange
  <2>6. Exchange'
    BY <1>1, <2>4, <2>5 DEF Exchange, Waits
  <2>7. Judged'
    BY <1>1, <2>1, <2>4, <2>5 DEF Judged, Kept, FromItself
  <2>8. Sound'
    BY <1>1 DEF OwnInv, Sound, Own, FromItself
  <2>9. QED
    BY <2>2, <2>3, <2>6, <2>7, <2>8 DEF OwnInv
<1>3. CASE UNCHANGED <<lrfVars, call, ranged>>
  <2>1. UNCHANGED <<thread, inProc>>
    BY <1>3 DEF lrfVars
  <2>2. Alone' /\ Exchange'
    BY <1>1, <2>1, Unread
  <2>3. Started' /\ Judged' /\ Sound'
    BY <1>1, <1>3, <2>1 DEF OwnInv, Started, Judged, Sound, Own, Current, Kept, FromItself
  <2>4. QED
    BY <2>2, <2>3 DEF OwnInv
<1>4. QED
  BY <1>2, <1>3 DEF Join

(* Steps of the main thread that leave the range finder's threads and the line. *)
LEMMA OwnMain ==
  ASSUME Types, OwnInv, Main
  PROVE  OwnInv'
<1>1. CASE Join
  BY <1>1, OwnJoin
<1>2. ASSUME ~Join, Main
      PROVE  UNCHANGED <<shots, thread, inProc, range, far, requests, answers, doubt, manual>>
  BY <1>2 DEF Main, ReadTrigger, PullTrigger, Finalize, Judge, Angles, Calculate,
              OnlyFaults, lrfVars, line, userData
<1>3. CASE ~Join
  <2>1. UNCHANGED <<shots, thread, inProc, range, far, requests, answers, doubt, manual>>
    BY <1>2, <1>3
  <2>2. Alone' /\ Exchange'
    BY <2>1, Unread
  <2>3. CASE ReadTrigger \/ PullTrigger \/ Finalize
    <3>1. /\ call \in {"fire", "pull", "finalize"}
          /\ call' \in {"pull", "finalize", "join", "judge"} /\ (call' = "join" => inProc)
          /\ ranged' = ranged /\ buffer' = buffer
      BY <2>3 DEF ReadTrigger, PullTrigger, Finalize, Doing, Then, results
    <3>2. Started' /\ Judged' /\ Sound'
      BY <2>1, <3>1 DEF OwnInv, Started, Judged, Sound, Own, FromItself
    <3>3. QED
      BY <2>2, <3>2 DEF OwnInv
  <2>4. CASE Judge
    <3>1. PICK offline \in SUBSET {"dmc", "gnss"}, distance \in Distances :
            \/ Wrong(distance, offline) = "ok" /\ Then("angles") /\ UNCHANGED results
            \/ Then("none") /\ Failed(Wrong(distance, offline), buffer)
      BY <2>4 DEF Judge
    <3>2. call = "judge" /\ ranged' = FALSE /\ call' \in {"angles", "none"}
      BY <2>4, <3>1 DEF Judge, Doing, Then
    <3>3. Started'
      BY <2>1, <3>2 DEF OwnInv, Started
    <3>4. ASSUME call' = "angles", ~doubt, ~manual
          PROVE  Current = "joined" /\ FromItself(shots, range)
      <4>1. Wrong(distance, offline) = "ok"
        BY <3>1, <3>4 DEF Then
      <4>2. distance = range
        BY <3>4 DEF Distances
      <4>3. ranged /\ range # {}
        BY <4>1, <4>2 DEF Wrong
      <4>4. QED
        BY <3>2, <3>4, <4>3 DEF OwnInv, Judged, Kept
    <3>5. Judged'
      BY <2>1, <3>2, <3>4 DEF Judged, Current, FromItself
    <3>6. Sound'
      <4>1. CASE doubt
        BY <2>1, <4>1 DEF Sound
      <4>2. CASE ~doubt
        <5>1. Own(buffer)
          BY <4>2 DEF OwnInv, Sound
        <5>2. Own(buffer')
          BY <3>1, <5>1, OwnFailed DEF results
        <5>3. QED
          BY <2>1, <5>2 DEF Sound, Own, FromItself
      <4>3. QED
        BY <4>1, <4>2
    <3>7. QED
      BY <2>2, <3>3, <3>5, <3>6 DEF OwnInv
  <2>5. CASE Angles
    <3>1. /\ call = "angles" /\ call' \in {"calculate", "hung"}
          /\ ranged' = ranged /\ buffer' = buffer
      BY <2>5 DEF Angles, Doing, Then, results
    <3>2. Started' /\ Judged' /\ Sound'
      BY <2>1, <3>1 DEF OwnInv, Started, Judged, Sound, Own, Current, FromItself
    <3>3. QED
      BY <2>2, <3>2 DEF OwnInv
  <2>6. CASE Calculate
    <3>1. call = "calculate" /\ call' = "none" /\ ranged' = ranged
      BY <2>6 DEF Calculate, Doing, Then
    <3>2. Started' /\ Judged'
      BY <2>1, <3>1 DEF OwnInv, Started, Judged
    <3>3. Sound'
      BY <2>1, <2>6, OwnCalculate DEF Sound, Own, FromItself
    <3>4. QED
      BY <2>2, <3>2, <3>3 DEF OwnInv
  <2>7. QED
    BY <1>3, <2>3, <2>4, <2>5, <2>6 DEF Main
<1>4. QED
  BY <1>1, <1>3

LEMMA OwnStart ==
  ASSUME Types, OwnInv, StartMeasuring, UNCHANGED <<call, ranged, manual, buffer>>, call = "none"
  PROVE  OwnInv'
<1>1. /\ shots \in Nat /\ shots' = shots + 1 /\ shots + 1 \in Shots
      /\ thread \in [Shots -> Places] /\ thread' = [thread EXCEPT ![shots + 1] = "begin"]
      /\ UNCHANGED <<inProc, range, far, requests, answers>>
  BY RangeFinderAssumption DEF StartMeasuring, line, Types, TypeOK
<1>2. Started'
  BY <1>1 DEF OwnInv, Started
<1>3. Judged'
  BY DEF Judged
<1>4. ASSUME ~doubt' PROVE Alone' /\ Exchange' /\ Sound'
  <2>1. ~doubt /\ (shots > 0 => thread[shots] = "joined")
    BY <1>4, Zenon DEF StartMeasuring
  <2>2. Alone'
    BY <1>1, <2>1 DEF OwnInv, Alone
  <2>3. Current \notin Waits
    BY <1>1, <2>1 DEF Current, Waits
  <2>4. requests' = <<>> /\ answers' = <<>>
    BY <1>1, <2>1, <2>3 DEF OwnInv, Exchange
  <2>5. Current' = "begin"
    BY <1>1 DEF Current
  <2>6. Exchange'
    BY <2>4, <2>5 DEF Exchange, Waits
  <2>7. Sound'
    BY <1>1, <2>1 DEF OwnInv, Sound, Own, FromItself
  <2>8. QED
    BY <2>2, <2>6, <2>7
<1>5. ASSUME doubt' PROVE Alone' /\ Exchange' /\ Sound'
  BY <1>5 DEF Alone, Exchange, Sound
<1>6. QED
  BY <1>2, <1>3, <1>4, <1>5 DEF OwnInv

(* Steps of the user that start no thread: the points they leave are their own. *)
LEMMA OwnUser ==
  ASSUME Types, OwnInv, User
  PROVE  OwnInv'
<1>1. CASE Push /\ StartMeasuring
  BY <1>1, OwnStart DEF Push, StartRanging, Refused, Idle, release
<1>2. CASE ~(Push /\ StartMeasuring)
  <2>1. /\ UNCHANGED <<shots, thread, inProc, range, far, requests, answers, doubt>>
        /\ call = "none"
    BY <1>2 DEF User, Push, StartRanging, Refused, Release, SetTaqmode, Choosing, Stop,
                Terminate, UseRange, Quiet, Idle, lrfVars, line
  <2>2. Alone' /\ Exchange'
    BY <2>1, Unread
  <2>3. /\ call' \in {"none", "fire", "judge"}
        /\ call' = "judge" => manual'
        /\ call' # "judge" => ~ranged'
    <3>1. CASE Release
      <4>1. CASE manual
        BY <3>1, <4>1 DEF Release, Then
      <4>2. CASE ~manual
        <5>1. call' = "fire"
          BY <3>1, <4>2 DEF Release, Then
        <5>2. ~ranged'
          BY <3>1, <4>2, Zenon DEF Release
        <5>3. QED
          BY <5>1, <5>2
      <4>3. QED
        BY <4>1, <4>2
    <3>2. CASE ~Release
      <4>1. call' = call /\ ranged' = ranged
        BY <3>2 DEF User, Push, SetTaqmode, Stop, Terminate, UseRange, release
      <4>2. QED
        BY <2>1, <4>1 DEF OwnInv, Started
    <3>3. QED
      BY <3>1, <3>2
  <2>4. Started' /\ Judged'
    BY <2>1, <2>3 DEF OwnInv, Started, Judged, FromItself
  <2>5. Own(buffer) => Own(buffer')
    <3>1. buffer \in Points
      BY DEF Types, TypeOK, Points
    <3>2. buffer' \in {buffer, taqdata_manager_create, removeNewest(buffer)}
      BY DEF User, Push, Release, SetTaqmode, Stop, Reset, Terminate, UseRange, results
    <3>3. Own(taqdata_manager_create)
      BY DEF Own, taqdata_manager_create
    <3>4. QED
      BY <3>1, <3>2, <3>3, RemovePoint
  <2>6. Sound'
    BY <2>1, <2>5 DEF OwnInv, Sound, Own, FromItself
  <2>7. QED
    BY <2>2, <2>4, <2>6 DEF OwnInv
<1>3. QED
  BY <1>1, <1>2

LEMMA OwnStep ==
  ASSUME Types, OwnInv, [Next]_vars
  PROVE  OwnInv'
<1>1. CASE Main
  BY <1>1, OwnMain
<1>2. CASE User
  BY <1>2, OwnUser
<1>3. CASE Reader
  BY <1>3, OwnReader
<1>4. ASSUME NEW n \in Shots, Measurement(n) PROVE OwnInv'
  BY <1>4, OwnMeasurement
<1>5. CASE Answer /\ UNCHANGED taqVars
  BY <1>5, OwnAnswer
<1>6. CASE UNCHANGED vars
  BY <1>6 DEF vars, lrfVars, taqVars, OwnInv, Started, Alone, Exchange, Judged, Sound, Own,
              Current, Kept, FromItself
<1>7. QED
  BY <1>1, <1>2, <1>3, <1>4, <1>5, <1>6 DEF Next

(* A point's distance is its own measurement's and, but for a far one, no other's,
   for any number of measurements, unless an answer was lost, late or unreadable or
   two of them overlapped. *)
THEOREM OwnDistance == Spec => []OwnRange
<1>1. Init => Types /\ OwnInv
  BY TypesInit, OwnInit
<1>2. Types /\ OwnInv /\ [Next]_vars => (Types /\ OwnInv)'
  BY TypesStep, OwnStep
<1>3. Types /\ OwnInv => OwnRange
  BY OwnIsOwnRange DEF OwnInv
<1>4. QED
  BY <1>1, <1>2, <1>3, PTL DEF Spec

-----------------------------------------------------------------------------
(* What the calculations find in the ring, and whom the main thread joins. *)

(* Unless two measurements overlapped, the last thread can be joined when it is to
   be: the others are, and one in process is neither new nor joined. *)
Joinable ==
  ~crowded =>
    /\ \A n \in Shots : n < shots => thread[n] = "joined"
    /\ inProc \/ call = "join" => Current \notin {"none", "begin", "joined"}

(* There are the points that the mode's calculation reads behind its own. *)
Enough ==
  /\ status = "acquired" => mode = "point"
  /\ status = "acquired" \/ mode \in {"circular", "length", "fos"} => Len(buffer.items) >= 1
  /\ mode = "width" => Len(buffer.items) >= 2

(* An aid is kept only between the two edges of a square. *)
NoAids(b) == \A i \in 1..Len(b.items) : ~b.items[i].aid
Aimed ==
  ~spoilt => \A i \in 1..Len(buffer.items) : buffer.items[i].aid => mode = "width" /\ i = 1

RingInv == Enough /\ Aimed
JoinInv == Started /\ Joinable /\ NothingMissing

LEMMA TargetOffered ==
  ASSUME Types, RingInv
  PROVE  ResultIsTarget
<1> SUFFICES ASSUME status = "acquired"
             PROVE  /\ hasData(buffer, 0)
                    /\ ~getData(buffer, 0).aid \/ spoilt
                    /\ \A d \in Range(buffer.items) : d.size # "none" => ~d.aid \/ spoilt
  BY DEF ResultIsTarget
<1>1. Len(buffer.items) \in Nat /\ Len(buffer.items) >= 1 /\ mode = "point"
  BY DEF RingInv, Enough, Types, TypeOK
<1>2. Range(buffer.items) = {buffer.items[i] : i \in 1..Len(buffer.items)}
  BY DEF Types, TypeOK, Range
<1>3. spoilt \/ \A i \in 1..Len(buffer.items) : ~buffer.items[i].aid
  BY <1>1 DEF RingInv, Aimed
<1>4. hasData(buffer, 0)
  BY <1>1 DEF hasData
<1>5. ~getData(buffer, 0).aid \/ spoilt
  <2>1. 0 + 1 \in 1..Len(buffer.items)
    BY <1>1
  <2>2. QED
    BY <1>3, <2>1 DEF getData
<1>6. \A d \in Range(buffer.items) : ~d.aid \/ spoilt
  BY <1>2, <1>3, Zenon
<1>7. QED
  BY <1>4, <1>5, <1>6

(* The position that is added: the points before it follow it. *)
LEMMA PositionItems ==
  ASSUME Types, RingInv
  PROVE  /\ Position \in Points /\ buffer \in Points
         /\ Len(Position.items) \in Nat
         /\ Len(Position.items) >= 1
         /\ hasData(Position, Aids)
         /\ mode = "length" => Len(Position.items) >= 2
         /\ Position.items[1].aid = (mode # "point")
         /\ \A i \in 2..Len(Position.items) :
              i - 1 \in 1..Len(buffer.items) /\ Position.items[i] = buffer.items[i - 1]
<1>1. NewPoint \in Data /\ buffer \in Points /\ Position \in Points
  BY PositionType
<1>2. Position = addData(buffer, NewPoint)
  BY DEF Position, NewPoint
<1>3. NewPoint.aid = (mode # "point")
  BY DEF NewPoint
<1>4. /\ Len(Position.items) = IF Len(buffer.items) = MAXNUM_TAQDATA THEN MAXNUM_TAQDATA
                                                                     ELSE Len(buffer.items) + 1
      /\ Position.items[1] = NewPoint
      /\ \A i \in 2..Len(Position.items) :
           i - 1 \in 1..Len(buffer.items) /\ Position.items[i] = buffer.items[i - 1]
  BY <1>1, <1>2, AddedPoint
<1>5. Len(buffer.items) \in Nat /\ MAXNUM_TAQDATA \in Nat /\ MAXNUM_TAQDATA >= 3
  BY <1>1, TaqDataAssumption DEF Points
<1>6. Len(Position.items) \in Nat /\ Len(Position.items) >= 1
  BY <1>4, <1>5
<1>7. mode \in {"circular", "length", "fos"} => Len(Position.items) >= 2
  BY <1>4, <1>5 DEF RingInv, Enough
<1>8. mode = "width" => Len(Position.items) >= 3
  BY <1>4, <1>5 DEF RingInv, Enough
<1>9. hasData(Position, Aids)
  BY <1>6, <1>7, <1>8 DEF hasData, Aids
<1>10. QED
  BY <1>1, <1>3, <1>4, <1>6, <1>7, <1>9

(* A calculation that reads aids removes them, with its own point. *)
LEMMA ResultItems ==
  ASSUME Types, RingInv, NEW fits \in BOOLEAN, Aids > 0
  PROVE  /\ Len(Result(Position, fits).items) >= 1
         /\ ~spoilt => NoAids(Result(Position, fits))
<1>1. /\ Position \in Points /\ Len(Position.items) \in Nat /\ hasData(Position, Aids)
      /\ \A i \in 2..Len(Position.items) :
           i - 1 \in 1..Len(buffer.items) /\ Position.items[i] = buffer.items[i - 1]
  BY PositionItems
<1>2. CASE mode \in {"circular", "fos"}
  <2> DEFINE s == Sized(Position, 1, fits)
  <2>1. Aids = 1
    BY <1>2 DEF Aids
  <2>2. /\ s \in Points /\ Len(s.items) = Len(Position.items)
        /\ \A i \in 1..Len(Position.items) : s.items[i].aid = Position.items[i].aid
    BY <1>1, <1>2, <2>1, SizedPoint
  <2>3. Len(s.items) >= 2
    BY <1>1, <2>1, <2>2 DEF hasData
  <2>4. Result(Position, fits) = removeNewest(s)
    BY <1>2 DEF Result, Radius, Shift
  <2> HIDE DEF s
  <2>5. /\ Len(removeNewest(s).items) = Len(s.items) - 1
        /\ \A i \in 1..Len(removeNewest(s).items) :
             i + 1 \in 1..Len(s.items) /\ removeNewest(s).items[i] = s.items[i + 1]
    BY <1>1, <2>2, <2>3, RemovedPoint
  <2>6. ASSUME ~spoilt, NEW i \in 1..Len(removeNewest(s).items)
        PROVE  ~removeNewest(s).items[i].aid
    <3>1. /\ i + 1 \in 2..Len(Position.items) /\ (i + 1) - 1 = i
          /\ removeNewest(s).items[i].aid = Position.items[i + 1].aid
      BY <1>1, <2>2, <2>3, <2>5
    <3>2. i \in 1..Len(buffer.items) /\ Position.items[i + 1] = buffer.items[i]
      BY <1>1, <3>1
    <3>3. ~buffer.items[i].aid
      BY <1>2, <2>6, <3>2 DEF RingInv, Aimed
    <3>4. QED
      BY <3>1, <3>2, <3>3
  <2>7. QED
    BY <1>1, <2>2, <2>3, <2>4, <2>5, <2>6 DEF NoAids
<1>3. CASE mode = "width"
  <2> DEFINE s == Sized(Position, 2, fits)
             r == removeNewest(s)
  <2>1. Aids = 2
    BY <1>3 DEF Aids
  <2>2. /\ s \in Points /\ Len(s.items) = Len(Position.items)
        /\ \A i \in 1..Len(Position.items) : s.items[i].aid = Position.items[i].aid
    BY <1>1, <1>3, <2>1, SizedPoint
  <2>3. Len(s.items) >= 3
    BY <1>1, <2>1, <2>2 DEF hasData
  <2>4. Result(Position, fits) = removeNewest(r)
    BY <1>3 DEF Result, SquareSize
  <2>5. /\ r \in Points /\ Len(r.items) = Len(s.items) - 1
        /\ \A i \in 1..Len(r.items) : i + 1 \in 1..Len(s.items) /\ r.items[i] = s.items[i + 1]
    <3>1. s.items # <<>>
      BY <1>1, <2>2, <2>3
    <3>2. QED
      BY <2>2, <3>1, RemovedPoint
  <2> HIDE DEF s, r
  <2>6. /\ Len(removeNewest(r).items) = Len(r.items) - 1
        /\ \A i \in 1..Len(removeNewest(r).items) :
             i + 1 \in 1..Len(r.items) /\ removeNewest(r).items[i] = r.items[i + 1]
    <3>1. r.items # <<>>
      BY <1>1, <2>2, <2>3, <2>5
    <3>2. QED
      BY <2>5, <3>1, RemovedPoint
  <2>7. ASSUME ~spoilt, NEW i \in 1..Len(removeNewest(r).items)
        PROVE  ~removeNewest(r).items[i].aid
    <3>1. /\ i \in Nat /\ i >= 1 /\ i + 1 \in 1..Len(r.items) /\ i + 2 \in 1..Len(Position.items)
          /\ removeNewest(r).items[i] = r.items[i + 1]
      BY <1>1, <2>2, <2>3, <2>5, <2>6
    <3>2. r.items[i + 1] = s.items[(i + 1) + 1] /\ (i + 1) + 1 = i + 2
      <4>1. r.items[i + 1] = s.items[(i + 1) + 1]
        BY <2>5, <3>1, Zenon
      <4>2. (i + 1) + 1 = i + 2
        BY <3>1
      <4>3. QED
        BY <4>1, <4>2
    <3>3. removeNewest(r).items[i].aid = Position.items[i + 2].aid
      BY <2>2, <3>1, <3>2
    <3>4. i + 2 \in 2..Len(Position.items) /\ (i + 2) - 1 = i + 1
      BY <1>1, <3>1
    <3>5. i + 1 \in 1..Len(buffer.items) /\ Position.items[i + 2] = buffer.items[i + 1]
      BY <1>1, <3>4
    <3>6. ~buffer.items[i + 1].aid
      BY <2>7, <3>1, <3>5 DEF RingInv, Aimed
    <3>7. QED
      BY <3>3, <3>5, <3>6
  <2>8. QED
    BY <1>1, <2>2, <2>3, <2>4, <2>5, <2>6, <2>7 DEF NoAids
<1>4. QED
  BY <1>2, <1>3 DEF Aids

(* A measurement that failed, with the ring b that is left. *)
LEMMA RingFailed ==
  ASSUME Types, RingInv, NEW code, NEW b, Failed(code, b),
         \/ b = buffer
         \/ Len(b.items) >= 1 /\ (~spoilt => NoAids(b)) /\ mode # "point"
  PROVE  RingInv'
<1>1. mode' = "point" /\ status' \in {"idle", "acquired"}
  BY DEF Failed
<1>2. CASE buffer' = taqdata_manager_create /\ status' = "idle"
  BY <1>1, <1>2 DEF RingInv, Enough, Aimed, taqdata_manager_create
<1>3. CASE ~(buffer' = taqdata_manager_create /\ status' = "idle")
  <2>1. buffer' = b /\ (spoilt \/ (mode = "width" /\ b = buffer) => spoilt')
    BY <1>3, Zenon DEF Failed
  <2>2. status' = "acquired" => mode # "point"
    BY DEF Failed
  <2>3. Enough'
    <3>1. status' = "acquired" => Len(b.items) >= 1
      BY <2>2 DEF RingInv, Enough, Types, TypeOK, Modes
    <3>2. QED
      BY <1>1, <2>1, <3>1 DEF Enough
  <2>4. Aimed'
    <3>1. CASE b = buffer
      BY <2>1, <3>1 DEF RingInv, Aimed
    <3>2. CASE b # buffer
      BY <2>1, <3>2 DEF Aimed, NoAids
    <3>3. QED
      BY <3>1, <3>2
  <2>5. QED
    BY <2>3, <2>4 DEF RingInv
<1>4. QED
  BY <1>2, <1>3

LEMMA RingSucceeded ==
  ASSUME Types, RingInv, Succeeded(Result(Position, TRUE))
  PROVE  RingInv'
<1>1. /\ buffer' = Result(Position, TRUE) /\ spoilt' = spoilt
      /\ mode' = IF mode = "length" THEN "width" ELSE "point"
      /\ status' = IF mode = "length" THEN status ELSE "acquired"
  BY DEF Succeeded
<1>2. CASE Aids > 0
  <2>1. mode # "length"
    BY <1>2 DEF Aids
  <2>2. Len(buffer'.items) >= 1 /\ (~spoilt => NoAids(buffer'))
    BY <1>1, <1>2, ResultItems
  <2>3. QED
    BY <1>1, <2>1, <2>2 DEF RingInv, Enough, Aimed, NoAids
<1>3. CASE ~(Aids > 0)
  <2>1. mode \in {"point", "length"} /\ buffer' = Position
    <3>1. mode \in {"point", "length"}
      BY <1>3 DEF Aids, Types, TypeOK, Modes
    <3>2. Result(Position, TRUE) = Position
      BY <3>1 DEF Result
    <3>3. QED
      BY <1>1, <3>1, <3>2
  <2>2. /\ Len(Position.items) \in Nat /\ Len(Position.items) >= 1
        /\ mode = "length" => Len(Position.items) >= 2
        /\ Position.items[1].aid = (mode # "point")
        /\ \A i \in 2..Len(Position.items) :
             i - 1 \in 1..Len(buffer.items) /\ Position.items[i] = buffer.items[i - 1]
    BY PositionItems
  <2>3. Enough'
    BY <1>1, <2>1, <2>2 DEF RingInv, Enough
  <2>4. ASSUME ~spoilt, NEW i \in 1..Len(Position.items), Position.items[i].aid
        PROVE  mode = "length" /\ i = 1
    <3>1. CASE i = 1
      BY <2>1, <2>2, <2>4, <3>1
    <3>2. CASE i # 1
      <4>1. i - 1 \in 1..Len(buffer.items) /\ buffer.items[i - 1].aid
        BY <2>2, <2>4, <3>2
      <4>2. QED
        BY <2>1, <2>4, <4>1 DEF RingInv, Aimed
    <3>3. QED
      BY <3>1, <3>2
  <2>5. Aimed'
    BY <1>1, <2>1, <2>4 DEF Aimed
  <2>6. QED
    BY <2>3, <2>5 DEF RingInv
<1>4. QED
  BY <1>2, <1>3

LEMMA RingMain ==
  ASSUME Types, RingInv, Main
  PROVE  RingInv'
<1>1. CASE UNCHANGED results
  BY <1>1 DEF results, RingInv, Enough, Aimed
<1>2. CASE Judge
  <2>1. PICK offline \in SUBSET {"dmc", "gnss"}, distance \in Distances :
          UNCHANGED results \/ Failed(Wrong(distance, offline), buffer)
    BY <1>2 DEF Judge
  <2>2. QED
    BY <1>1, <2>1, RingFailed
<1>3. CASE Calculate
  <2>1. CASE Failed("FAIL_GEODCALC", buffer)
    BY <2>1, RingFailed
  <2>2. CASE Succeeded(Result(Position, TRUE))
    BY <2>2, RingSucceeded
  <2>3. CASE Aids > 0 /\ Failed("TARGET_SIZE_OVER", Result(Position, FALSE))
    <3>1. /\ Len(Result(Position, FALSE).items) >= 1
          /\ ~spoilt => NoAids(Result(Position, FALSE))
      BY <2>3, ResultItems
    <3>2. mode # "point"
      BY <2>3 DEF Aids
    <3>3. QED
      BY <2>3, <3>1, <3>2, RingFailed
  <2>4. QED
    BY <1>1, <1>3, <2>1, <2>2, <2>3 DEF Calculate
<1>4. CASE ReadTrigger \/ PullTrigger \/ Finalize \/ Join \/ Angles
  BY <1>1, <1>4 DEF ReadTrigger, PullTrigger, Finalize, Join, Angles
<1>5. QED
  BY <1>2, <1>3, <1>4 DEF Main

LEMMA RingUser ==
  ASSUME Types, RingInv, User
  PROVE  RingInv'
<1>1. CASE Push
  <2>1. status # "acquired" /\ status' \in {status, "inproc"} /\ UNCHANGED <<mode, buffer, spoilt>>
    BY <1>1 DEF Push, Refused
  <2>2. QED
    BY <2>1 DEF RingInv, Enough, Aimed
<1>2. CASE Release \/ UseRange
  BY <1>2 DEF Release, UseRange, results, RingInv, Enough, Aimed
<1>3. CASE SetTaqmode
  BY <1>3 DEF SetTaqmode, Choosing, RingInv, Enough, Aimed
<1>4. CASE Stop
  BY <1>4 DEF Stop, Reset, taqdata_manager_create, RingInv, Enough, Aimed
<1>5. CASE Terminate
  <2>1. mode # "point" /\ mode' = "point" /\ status' = "acquired" /\ spoilt' = spoilt
    BY <1>5 DEF Terminate
  <2>2. CASE mode # "width"
    <3>1. buffer' = buffer /\ Len(buffer.items) >= 1
      BY <1>5, <2>1, <2>2 DEF Terminate, RingInv, Enough, Types, TypeOK, Modes
    <3>2. QED
      BY <2>1, <2>2, <3>1 DEF RingInv, Enough, Aimed
  <2>3. CASE mode = "width"
    <3>1. buffer \in Points /\ buffer' = removeNewest(buffer) /\ Len(buffer.items) >= 2
          /\ Len(buffer.items) \in Nat
      BY <1>5, <2>3 DEF Terminate, RingInv, Enough, Types, TypeOK, Points
    <3>2. /\ Len(buffer'.items) = Len(buffer.items) - 1
          /\ \A i \in 1..Len(buffer'.items) :
               i + 1 \in 1..Len(buffer.items) /\ buffer'.items[i] = buffer.items[i + 1]
      BY <3>1, RemovedPoint
    <3>3. Enough'
      BY <2>1, <3>1, <3>2 DEF Enough
    <3>4. Aimed'
      BY <2>1, <3>1, <3>2 DEF RingInv, Aimed
    <3>5. QED
      BY <3>3, <3>4 DEF RingInv
  <2>4. QED
    BY <2>2, <2>3
<1>6. QED
  BY <1>1, <1>2, <1>3, <1>4, <1>5 DEF User

LEMMA RingStep ==
  ASSUME Types, RingInv, [Next]_vars
  PROVE  RingInv'
<1>1. CASE UNCHANGED results
  BY <1>1 DEF results, RingInv, Enough, Aimed
<1>2. CASE ~(UNCHANGED results)
  <2>1. Main \/ User
    BY <1>2 DEF Next, Reader, Measurement, vars, taqVars, results
  <2>2. QED
    BY <2>1, RingMain, RingUser
<1>3. QED
  BY <1>1, <1>2

LEMMA RingInit == Init => RingInv
BY DEF Init, TaqInit, taqdata_manager_create, RingInv, Enough, Aimed

(* What is offered to be sent or saved is the target, and only the target has a
   size, for any number of measurements and failures and any ring that has room for
   a square. *)
THEOREM TargetIsOffered == Spec => []ResultIsTarget
<1>1. Init => Types /\ RingInv
  BY TypesInit, RingInit
<1>2. Types /\ RingInv /\ [Next]_vars => (Types /\ RingInv)'
  BY TypesStep, RingStep
<1>3. Types /\ RingInv => ResultIsTarget
  BY TargetOffered
<1>4. QED
  BY <1>1, <1>2, <1>3, PTL DEF Spec

-----------------------------------------------------------------------------
(* Joining. *)

LEMMA JoinMeasurement ==
  ASSUME Types, JoinInv, NEW n \in Shots, Measurement(n)
  PROVE  JoinInv'
<1>1. Measuring(n) /\ UNCHANGED taqVars
  BY DEF Measurement
<1>2. /\ thread[n] \notin {"none", "joined"}
      /\ \E p \in Places \ {"none", "joined"} : thread' = [thread EXCEPT ![n] = p]
  BY <1>1, GoesOn DEF Go
<1>3. /\ shots' = shots /\ thread \in [Shots -> Places] /\ shots \in Nat
      /\ call' = call /\ ranged' = ranged /\ sane' = sane
  BY <1>1, TypesMeasurement, RangeFinderAssumption DEF taqVars, Types, TypeOK
<1>4. n <= shots /\ n \in Nat /\ n > 0
  BY <1>2, <1>3, RangeFinderAssumption DEF JoinInv, Started
<1>5. crowded' = crowded
  BY <1>1, Zenon DEF Measuring, Begin, Charge, TestTrigger, Arm, Fire, GiveUp, Overcharge,
                     Measure, Ask, TestWait, Sleep, Wake
<1>6. thread'[n] # "begin"
  <2>1. CASE Begin(n) \/ Charge(n) \/ TestTrigger(n) \/ Arm(n)
    BY <1>3, <2>1 DEF Begin, Charge, TestTrigger, Arm, Go
  <2>2. CASE Fire(n) \/ GiveUp(n) \/ Overcharge(n) \/ Measure(n)
    BY <1>3, <2>2 DEF Fire, GiveUp, Overcharge, Measure, Go
  <2>3. CASE Ask(n) \/ TestWait(n) \/ Sleep(n) \/ Wake(n)
    BY <1>3, <2>3 DEF Ask, TestWait, Sleep, Wake, Go
  <2>4. QED
    BY <1>1, <2>1, <2>2, <2>3 DEF Measuring
<1>7. Started'
  BY <1>2, <1>3, <1>4 DEF JoinInv, Started
<1>8. ASSUME ~crowded' PROVE Joinable'
  <2>1. ~crowded /\ \A m \in Shots : m < shots => thread[m] = "joined"
    BY <1>5, <1>8 DEF JoinInv, Joinable
  <2>2. n = shots
    BY <1>2, <1>3, <1>4, <2>1
  <2>3. Current' \notin {"none", "begin", "joined"}
    BY <1>2, <1>3, <1>4, <1>6, <2>2 DEF Current
  <2>4. \A m \in Shots : m < shots' => thread'[m] = "joined"
    BY <1>2, <1>3, <2>1, <2>2
  <2>5. QED
    BY <2>3, <2>4 DEF Joinable
<1>9. NothingMissing'
  BY <1>3, <1>5 DEF JoinInv, NothingMissing
<1>10. QED
  BY <1>7, <1>8, <1>9 DEF JoinInv, Joinable

LEMMA JoinReader ==
  ASSUME Types, JoinInv, Reader
  PROVE  JoinInv'
<1>1. /\ UNCHANGED <<shots, inProc, crowded>> /\ UNCHANGED taqVars
      /\ thread \in [Shots -> Places] /\ shots \in 0..MaxShots
  BY DEF Reader, Read, Expire, Types, TypeOK
<1>2. \A n \in Shots : thread'[n] = thread[n] \/ (thread[n] = "asleep" /\ thread'[n] = "awake")
  <2>1. Acknowledge
    BY DEF Reader, Read, Expire
  <2>2. QED
    BY <1>1, <2>1 DEF Acknowledge, Go
<1>3. /\ call' = call /\ ranged' = ranged /\ sane' = sane
  BY <1>1 DEF taqVars
<1>4. Started'
  BY <1>1, <1>2, <1>3 DEF JoinInv, Started
<1>5. Current' = Current \/ Current' = "awake"
  BY <1>1, <1>2, RangeFinderAssumption DEF Current
<1>6. Joinable'
  BY <1>1, <1>2, <1>3, <1>5 DEF JoinInv, Joinable
<1>7. QED
  BY <1>1, <1>3, <1>4, <1>6 DEF JoinInv, NothingMissing

LEMMA JoinKept ==
  ASSUME JoinInv, UNCHANGED <<shots, thread, inProc, crowded, sane>>,
         call' = "join" => inProc \/ call = "join",
         call' # "judge" => ~ranged'
  PROVE  JoinInv'
BY DEF JoinInv, Started, Joinable, Current, NothingMissing

LEMMA JoinJoin ==
  ASSUME Types, JoinInv, Join
  PROVE  JoinInv'
<1>1. /\ call = "join" /\ shots # 0 /\ shots \in Shots /\ thread \in [Shots -> Places]
      /\ UNCHANGED <<shots, crowded>>
  BY RangeFinderAssumption
     DEF Join, Doing, EndMeasuring, lrfVars, JoinInv, Started, Types, TypeOK
<1>2. CASE EndMeasuring
  <2>1. /\ call' = "judge" /\ inProc' = FALSE /\ thread' = [thread EXCEPT ![shots] = "joined"]
        /\ sane' = sane
    BY <1>2 DEF Join, Then, EndMeasuring, Go, lrfVars
  <2>2. Started' /\ Joinable'
    BY <1>1, <2>1 DEF JoinInv, Started, Joinable
  <2>3. QED
    BY <1>1, <2>1, <2>2 DEF JoinInv, NothingMissing
<1>3. CASE thread[shots] = "joined" /\ UNCHANGED <<lrfVars, call, ranged>>
  <2>1. UNCHANGED <<thread, inProc, call, ranged>>
    BY <1>3 DEF lrfVars
  <2>2. crowded
    BY <1>1, <1>3 DEF JoinInv, Joinable, Current
  <2>3. QED
    BY <1>1, <2>1, <2>2 DEF JoinInv, Started, Joinable, NothingMissing
<1>4. QED
  BY <1>2, <1>3 DEF Join

LEMMA JoinMain ==
  ASSUME Types, RingInv, JoinInv, Main
  PROVE  JoinInv'
<1>1. CASE Join
  BY <1>1, JoinJoin
<1>2. CASE ReadTrigger \/ PullTrigger \/ Finalize \/ Angles
  <2>1. /\ UNCHANGED <<shots, thread, inProc, crowded, sane, ranged>>
        /\ call # "judge" /\ (call' = "join" => inProc)
    BY <1>2 DEF ReadTrigger, PullTrigger, Finalize, Angles, Doing, Then, OnlyFaults, lrfVars, line
  <2>2. ~ranged'
    BY <2>1 DEF JoinInv, Started
  <2>3. QED
    BY <2>1, <2>2, JoinKept
<1>3. CASE Judge
  <2>1. /\ UNCHANGED <<shots, thread, inProc, crowded, sane>>
        /\ call' # "join" /\ ranged' = FALSE
    BY <1>3 DEF Judge, Then, OnlyFaults
  <2>2. QED
    BY <2>1, JoinKept
<1>4. CASE Calculate
  <2>1. UNCHANGED <<shots, thread, inProc, crowded, ranged>> /\ call = "calculate" /\ call' = "none"
    BY <1>4 DEF Calculate, Doing, Then, OnlyFaults
  <2>2. hasData(Position, Aids)
    BY PositionItems
  <2>3. sane' = sane
    BY <1>4, <2>2 DEF Calculate
  <2>4. ~ranged'
    BY <2>1 DEF JoinInv, Started
  <2>5. QED
    BY <2>1, <2>3, <2>4, JoinKept
<1>5. QED
  BY <1>1, <1>2, <1>3, <1>4 DEF Main

LEMMA JoinUser ==
  ASSUME Types, JoinInv, User
  PROVE  JoinInv'
<1>1. CASE Push /\ StartMeasuring
  <2>1. /\ shots \in Nat /\ shots' = shots + 1 /\ shots + 1 \in Shots
        /\ thread \in [Shots -> Places] /\ thread' = [thread EXCEPT ![shots + 1] = "begin"]
        /\ ~inProc /\ inProc' = inProc
        /\ call = "none" /\ call' = call /\ ranged' = ranged /\ sane' = sane
    BY <1>1, RangeFinderAssumption
       DEF Push, StartMeasuring, Idle, release, Types, TypeOK
  <2>2. Started'
    BY <2>1 DEF JoinInv, Started
  <2>3. ~crowded' => ~crowded /\ (shots > 0 => thread[shots] = "joined")
    BY <1>1, Zenon DEF StartMeasuring
  <2>4. Joinable'
    BY <2>1, <2>3 DEF JoinInv, Joinable
  <2>5. NothingMissing'
    BY <2>1, <2>3 DEF JoinInv, NothingMissing
  <2>6. QED
    BY <2>2, <2>4, <2>5 DEF JoinInv
<1>2. CASE ~(Push /\ StartMeasuring)
  <2>1. UNCHANGED <<shots, thread, inProc, crowded, sane>> /\ call = "none"
    BY <1>2 DEF User, Push, StartRanging, Refused, Release, SetTaqmode, Choosing, Stop,
                Terminate, UseRange, Quiet, Idle, lrfVars, line
  <2>2. CASE Release
    <3>1. CASE manual
      BY <2>1, <2>2, <3>1, JoinKept DEF Release, Then
    <3>2. CASE ~manual
      <4>1. call' = "fire"
        BY <2>2, <3>2 DEF Release, Then
      <4>2. ~ranged'
        BY <2>2, <3>2, Zenon DEF Release
      <4>3. QED
        BY <2>1, <4>1, <4>2, JoinKept
    <3>3. QED
      BY <3>1, <3>2
  <2>3. CASE ~Release
    <3>1. call' = call /\ ranged' = ranged
      BY <2>3 DEF User, Push, SetTaqmode, Stop, Terminate, UseRange, release
    <3>2. ~ranged'
      BY <2>1, <3>1 DEF JoinInv, Started
    <3>3. QED
      BY <2>1, <3>1, <3>2, JoinKept
  <2>4. QED
    BY <2>2, <2>3
<1>3. QED
  BY <1>1, <1>2

LEMMA JoinStep ==
  ASSUME Types, RingInv, JoinInv, [Next]_vars
  PROVE  JoinInv'
<1>1. CASE Main
  BY <1>1, JoinMain
<1>2. CASE User
  BY <1>2, JoinUser
<1>3. CASE Reader
  BY <1>3, JoinReader
<1>4. ASSUME NEW n \in Shots, Measurement(n) PROVE JoinInv'
  BY <1>4, JoinMeasurement
<1>5. CASE (Answer /\ UNCHANGED taqVars) \/ UNCHANGED vars
  <2>1. UNCHANGED <<shots, thread, inProc, crowded, sane, call, ranged>>
    BY <1>5 DEF Answer, vars, lrfVars, taqVars
  <2>2. QED
    BY <2>1, JoinKept DEF JoinInv, Started
<1>6. QED
  BY <1>1, <1>2, <1>3, <1>4, <1>5 DEF Next

LEMMA JoinInit == Init => JoinInv
<1> SUFFICES ASSUME Init PROVE JoinInv
  OBVIOUS
<1>1. /\ shots = 0 /\ thread = [n \in Shots |-> "none"] /\ inProc = FALSE
      /\ call = "none" /\ ranged = FALSE /\ sane = TRUE
  BY DEF Init, LrfInit, TaqInit
<1>2. \A n \in Shots : ~(n < shots)
  BY <1>1, RangeFinderAssumption
<1>3. QED
  BY <1>1, <1>2 DEF JoinInv, Started, Joinable, NothingMissing

(* No thread is joined twice and no calculation reads a point the ring has not,
   unless two measurements overlapped, for any number of measurements and failures
   and any ring that has room for a square. *)
THEOREM NothingIsMissing == Spec => []NothingMissing
<1>1. Init => Types /\ RingInv /\ JoinInv
  BY TypesInit, RingInit, JoinInit
<1>2. Types /\ RingInv /\ JoinInv /\ [Next]_vars => (Types /\ RingInv /\ JoinInv)'
  BY TypesStep, RingStep, JoinStep
<1>3. JoinInv => NothingMissing
  BY DEF JoinInv
<1>4. QED
  BY <1>1, <1>2, <1>3, PTL DEF Spec

-----------------------------------------------------------------------------
(* When the laser fires. *)

Firing == {"fire", "pull", "finalize", "join"}

(* The trigger is pulled, or about to be, only in a release of a measurement in
   process. *)
Pulled ==
  /\ trigger = "fire" => inProc /\ call \in {"finalize", "join"}
  /\ seen # "none" => inProc /\ call = "pull"
  /\ held => call = "none"

(* Until a release comes too early, a thread lives in one press and its release. *)
Wanted ==
  ~early =>
    /\ \A n \in Shots : n < shots => thread[n] \in {"none", "joined"}
    /\ inProc <=> Current \notin {"none", "begin", "joined"}
    /\ Current \notin {"none", "joined"} =>
         status = "inproc" /\ ~manual /\ (held \/ call \in Firing)
    /\ call \in Firing => Current # "begin"

LaserInv == Pulled /\ Wanted

LEMMA LaserInit == Init => LaserInv
<1> SUFFICES ASSUME Init PROVE LaserInv
  OBVIOUS
<1>1. /\ shots = 0 /\ inProc = FALSE /\ trigger = "none" /\ seen = "none" /\ call = "none"
      /\ held = FALSE
  BY DEF Init, LrfInit, TaqInit
<1>2. \A n \in Shots : ~(n < shots)
  BY <1>1, RangeFinderAssumption
<1>3. QED
  BY <1>1, <1>2 DEF LaserInv, Pulled, Wanted, Current, Firing

LEMMA LaserMeasurement ==
  ASSUME Types, OwnInv, LaserInv, NEW n \in Shots, Measurement(n)
  PROVE  LaserInv'
<1>1. Measuring(n) /\ UNCHANGED taqVars
  BY DEF Measurement
<1>2. /\ thread[n] \notin {"none", "joined"}
      /\ \E p \in Places \ {"none", "joined"} : thread' = [thread EXCEPT ![n] = p]
  BY <1>1, GoesOn DEF Go
<1>3. /\ shots' = shots /\ thread \in [Shots -> Places] /\ shots \in Nat
      /\ inProc \in BOOLEAN /\ inProc' \in BOOLEAN
      /\ UNCHANGED <<call, manual, seen, early, held, status>>
  BY <1>1, TypesMeasurement, RangeFinderAssumption DEF taqVars, Types, TypeOK
<1>4. n <= shots /\ n \in Nat /\ n > 0
  BY <1>2, <1>3, RangeFinderAssumption DEF OwnInv, Started
<1>5. /\ thread'[n] # "begin"
      /\ trigger' = "fire" => trigger = "fire"
  <2>1. CASE Begin(n) \/ Charge(n) \/ TestTrigger(n) \/ Arm(n)
    BY <1>3, <2>1 DEF Begin, Charge, TestTrigger, Arm, Go
  <2>2. CASE Fire(n) \/ GiveUp(n) \/ Overcharge(n) \/ Measure(n)
    BY <1>3, <2>2 DEF Fire, GiveUp, Overcharge, Measure, Go
  <2>3. CASE Ask(n) \/ TestWait(n) \/ Sleep(n) \/ Wake(n)
    BY <1>3, <2>3 DEF Ask, TestWait, Sleep, Wake, Go
  <2>4. QED
    BY <1>1, <2>1, <2>2, <2>3 DEF Measuring
<1>6. IF thread[n] = "begin" THEN inProc' = TRUE ELSE inProc' = inProc
  <2>1. CASE Begin(n)
    BY <2>1 DEF Begin, At
  <2>2. CASE Charge(n) \/ TestTrigger(n) \/ Arm(n)
    BY <2>2 DEF Charge, TestTrigger, Arm, At
  <2>3. CASE Fire(n) \/ GiveUp(n) \/ Overcharge(n) \/ Measure(n)
    BY <2>3 DEF Fire, GiveUp, Overcharge, Measure, At
  <2>4. CASE Ask(n) \/ TestWait(n) \/ Sleep(n) \/ Wake(n)
    BY <2>4 DEF Ask, TestWait, Sleep, Wake, At
  <2>5. QED
    BY <1>1, <2>1, <2>2, <2>3, <2>4 DEF Measuring
<1>7. Pulled'
  BY <1>3, <1>5, <1>6 DEF LaserInv, Pulled
<1>8. ASSUME ~early' PROVE Wanted'
  <2>1. ~early
    BY <1>3, <1>8
  <2>2. /\ \A m \in Shots : m < shots => thread[m] \in {"none", "joined"}
        /\ inProc <=> Current \notin {"none", "begin", "joined"}
        /\ Current \notin {"none", "joined"} =>
             status = "inproc" /\ ~manual /\ (held \/ call \in Firing)
    BY <2>1 DEF LaserInv, Wanted
  <2>3. n = shots /\ Current = thread[n] /\ Current' = thread'[n]
    BY <1>2, <1>3, <1>4, <2>2 DEF Current
  <2>4. Current' \notin {"none", "begin", "joined"} /\ Current \notin {"none", "joined"}
    BY <1>2, <1>3, <1>5, <2>3
  <2>5. inProc'
    BY <1>6, <2>2, <2>3, <2>4
  <2>6. \A m \in Shots : m < shots' => thread'[m] \in {"none", "joined"}
    BY <1>2, <1>3, <2>2, <2>3
  <2>7. status' = "inproc" /\ ~manual' /\ (held' \/ call' \in Firing)
    BY <1>3, <2>2, <2>4
  <2>8. QED
    BY <2>4, <2>5, <2>6, <2>7 DEF Wanted
<1>9. QED
  BY <1>7, <1>8 DEF LaserInv, Wanted

LEMMA LaserReader ==
  ASSUME Types, LaserInv, Reader
  PROVE  LaserInv'
<1>1. /\ UNCHANGED <<shots, inProc, trigger, call, manual, seen, early, held, status>>
      /\ thread \in [Shots -> Places] /\ shots \in 0..MaxShots
  BY DEF Reader, Read, Expire, taqVars, Types, TypeOK
<1>2. \A n \in Shots : thread'[n] = thread[n] \/ (thread[n] = "asleep" /\ thread'[n] = "awake")
  <2>1. Acknowledge
    BY DEF Reader, Read, Expire
  <2>2. QED
    BY <1>1, <2>1 DEF Acknowledge, Go
<1>3. Current' = Current \/ (Current = "asleep" /\ Current' = "awake")
  BY <1>1, <1>2, RangeFinderAssumption DEF Current
<1>4. Pulled'
  BY <1>1 DEF LaserInv, Pulled
<1>5. Wanted'
  BY <1>1, <1>2, <1>3 DEF LaserInv, Wanted
<1>6. QED
  BY <1>4, <1>5 DEF LaserInv

LEMMA LaserMain ==
  ASSUME Types, LaserInv, Main
  PROVE  LaserInv'
<1> USE DEF Firing
<1>1. UNCHANGED <<shots, manual, early, held>>
  BY DEF Main, ReadTrigger, PullTrigger, Finalize, Join, Judge, Angles, Calculate,
         EndMeasuring, OnlyFaults, lrfVars, line, userData
<1>2. CASE ReadTrigger
  <2>1. /\ UNCHANGED <<thread, inProc, trigger, status>> /\ call = "fire" /\ call' = "pull"
        /\ seen' = IF inProc THEN trigger ELSE "none"
    BY <1>2 DEF ReadTrigger, Doing, Then, lrfVars, results
  <2>2. QED
    BY <1>1, <2>1 DEF LaserInv, Pulled, Wanted, Current
<1>3. CASE PullTrigger
  <2>1. /\ UNCHANGED <<thread, inProc, status>> /\ call = "pull" /\ call' = "finalize"
        /\ seen' = "none"
        /\ trigger' = CASE seen = "wait" -> "false" [] seen = "ready" -> "fire"
                        [] OTHER -> trigger
    BY <1>3 DEF PullTrigger, FireLaser, Doing, Then, results
  <2>2. Pulled'
    BY <1>1, <2>1 DEF LaserInv, Pulled
  <2>3. Wanted'
    BY <1>1, <2>1 DEF LaserInv, Wanted, Current
  <2>4. QED
    BY <2>2, <2>3 DEF LaserInv
<1>4. CASE Finalize
  <2>1. /\ UNCHANGED <<thread, inProc, trigger, seen, status>>
        /\ call = "finalize" /\ call' = IF inProc THEN "join" ELSE "judge"
    BY <1>4 DEF Finalize, Doing, Then, lrfVars, results
  <2>2. QED
    BY <1>1, <2>1 DEF LaserInv, Pulled, Wanted, Current
<1>5. CASE Join
  <2>1. CASE EndMeasuring
    <3>1. /\ call' = "judge" /\ call = "join" /\ seen' = seen
          /\ inProc' = FALSE /\ trigger' = "none" /\ thread[shots] \in Ended
          /\ thread' = [thread EXCEPT ![shots] = "joined"]
      BY <1>5, <2>1 DEF Join, EndMeasuring, Doing, Then, Go, lrfVars
    <3>2. Pulled'
      BY <1>1, <3>1 DEF LaserInv, Pulled
    <3>3. Current' \in {"none", "joined"}
      BY <1>1, <3>1, RangeFinderAssumption DEF Current, Types, TypeOK
    <3>4. ASSUME ~early' PROVE \A n \in Shots : n < shots' => thread'[n] \in {"none", "joined"}
      BY <1>1, <3>1, <3>4 DEF LaserInv, Wanted, Types, TypeOK
    <3>5. Wanted'
      BY <3>1, <3>3, <3>4 DEF Wanted
    <3>6. QED
      BY <3>2, <3>5 DEF LaserInv
  <2>2. CASE UNCHANGED <<lrfVars, call, ranged>>
    <3>1. UNCHANGED <<thread, inProc, trigger, seen, call, status>>
      BY <1>5, <2>2 DEF Join, lrfVars, results
    <3>2. QED
      BY <1>1, <3>1 DEF LaserInv, Pulled, Wanted, Current
  <2>3. QED
    BY <1>5, <2>1, <2>2 DEF Join
<1>6. CASE Judge \/ Angles \/ Calculate
  <2>1. /\ UNCHANGED <<thread, inProc, trigger, seen>>
        /\ call \in {"judge", "angles", "calculate"}
        /\ call' \in {"angles", "calculate", "hung", "none"}
    BY <1>6 DEF Judge, Angles, Calculate, Doing, Then, OnlyFaults
  <2>2. Pulled'
    BY <1>1, <2>1 DEF LaserInv, Pulled
  <2>3. ASSUME ~early' PROVE Wanted'
    <3>1. ~held
      BY <2>1 DEF LaserInv, Pulled
    <3>2. QED
      BY <1>1, <2>1, <2>3, <3>1 DEF LaserInv, Wanted, Current
  <2>4. QED
    BY <2>2, <2>3 DEF LaserInv, Wanted
<1>7. QED
  BY <1>2, <1>3, <1>4, <1>5, <1>6 DEF Main

LEMMA LaserPush ==
  ASSUME Types, OwnInv, LaserInv, Push
  PROVE  LaserInv'
<1>1. /\ call = "none" /\ call' = "none" /\ ~held /\ held' = TRUE
      /\ UNCHANGED <<inProc, trigger, seen, early, manual>>
  BY DEF Push, StartRanging, StartMeasuring, Refused, Idle, release, lrfVars
<1>2. Pulled'
  BY <1>1 DEF LaserInv, Pulled
<1>3. ASSUME ~early' PROVE Wanted'
  <2>1. /\ \A n \in Shots : n < shots => thread[n] \in {"none", "joined"}
        /\ Current \in {"none", "joined"} /\ ~inProc
    BY <1>1, <1>3 DEF LaserInv, Wanted, Firing
  <2>2. CASE StartMeasuring
    <3>1. /\ shots \in Nat /\ shots' = shots + 1 /\ shots + 1 \in Shots
          /\ thread \in [Shots -> Places] /\ thread' = [thread EXCEPT ![shots + 1] = "begin"]
      BY <2>2, RangeFinderAssumption DEF StartMeasuring, Types, TypeOK
    <3>2. ~manual /\ status' = "inproc"
      BY <2>1, <2>2, <3>1 DEF Push, StartRanging, Refused, lrfVars
    <3>3. Current' = "begin"
      BY <3>1 DEF Current
    <3>4. shots # 0 => thread[shots] \in {"none", "joined"}
      BY <2>1 DEF Current
    <3>5. \A n \in Shots : n < shots' => thread'[n] \in {"none", "joined"}
      BY <2>1, <3>1, <3>4
    <3>6. QED
      BY <1>1, <2>1, <3>2, <3>3, <3>5 DEF Wanted, Firing
  <2>3. CASE UNCHANGED <<shots, thread>>
    BY <1>1, <2>1, <2>3 DEF Wanted, Current, Firing
  <2>4. QED
    BY <2>2, <2>3 DEF Push, StartRanging, Refused, lrfVars
<1>4. QED
  BY <1>2, <1>3 DEF LaserInv, Wanted

LEMMA LaserUser ==
  ASSUME Types, OwnInv, LaserInv, User
  PROVE  LaserInv'
<1>1. CASE Push
  BY <1>1, LaserPush
<1>2. CASE Release
  <2>1. /\ UNCHANGED <<shots, thread, inProc, trigger, seen, status, manual>>
        /\ call = "none" /\ held /\ held' = FALSE
        /\ call' = IF manual THEN "judge" ELSE "fire"
        /\ ~early' => /\ ~early
                      /\ manual \/ shots = 0 \/ inProc \/ thread[shots] # "begin"
    <3>1. early' = (early \/ (~manual /\ shots > 0 /\ ~inProc /\ thread[shots] = "begin"))
      BY <1>2 DEF Release
    <3>2. shots # 0 => shots > 0
      BY RangeFinderAssumption DEF Types, TypeOK
    <3>3. QED
      BY <1>2, <3>1, <3>2, Zenon DEF Release, Then, Idle, lrfVars, results
  <2>2. Pulled'
    BY <2>1 DEF LaserInv, Pulled
  <2>3. Wanted'
    BY <2>1 DEF LaserInv, Wanted, Current, Firing
  <2>4. QED
    BY <2>2, <2>3 DEF LaserInv
<1>3. CASE SetTaqmode \/ Stop \/ Terminate \/ UseRange
  <2>1. /\ UNCHANGED <<shots, thread, inProc, trigger, seen, early, held, call>>
        /\ call = "none" /\ ~held
    BY <1>3 DEF SetTaqmode, Stop, Terminate, UseRange, Choosing, Quiet, Idle, lrfVars, release
  <2>2. Pulled'
    BY <2>1 DEF LaserInv, Pulled
  <2>3. Wanted'
    BY <2>1 DEF LaserInv, Wanted, Current, Firing
  <2>4. QED
    BY <2>2, <2>3 DEF LaserInv
<1>4. QED
  BY <1>1, <1>2, <1>3 DEF User

LEMMA LaserStep ==
  ASSUME Types, OwnInv, LaserInv, [Next]_vars
  PROVE  LaserInv'
<1>1. CASE Main
  BY <1>1, LaserMain
<1>2. CASE User
  BY <1>2, LaserUser
<1>3. CASE Reader
  BY <1>3, LaserReader
<1>4. ASSUME NEW n \in Shots, Measurement(n) PROVE LaserInv'
  BY <1>4, LaserMeasurement
<1>5. CASE (Answer /\ UNCHANGED taqVars) \/ UNCHANGED vars
  <2>1. UNCHANGED <<shots, thread, inProc, trigger, call, manual, seen, early, held, status>>
    BY <1>5 DEF Answer, vars, lrfVars, taqVars
  <2>2. QED
    BY <2>1 DEF LaserInv, Pulled, Wanted, Current
<1>6. QED
  BY <1>1, <1>2, <1>3, <1>4, <1>5 DEF Next

(* Only the measuring thread fires, when it finds the trigger pulled. *)
LEMMA FiredByTrigger ==
  ASSUME Types, [Next]_vars, NEW n \in Shots, thread[n] = "armed", thread'[n] = "fired"
  PROVE  trigger = "fire"
<1>1. thread \in [Shots -> Places]
  BY DEF Types, TypeOK
<1>2. CASE \E m \in Shots : Measurement(m)
  <2>1. PICK m \in Shots : Measuring(m)
    BY <1>2 DEF Measurement
  <2>2. m = n
    BY <1>1, <2>1, GoesOn DEF Go
  <2>3. CASE Fire(n)
    BY <2>3 DEF Fire
  <2>4. CASE Begin(n) \/ Charge(n) \/ TestTrigger(n) \/ Arm(n)
    BY <2>4 DEF Begin, Charge, TestTrigger, Arm, At
  <2>5. CASE GiveUp(n) \/ Overcharge(n) \/ Measure(n)
    BY <1>1, <2>5 DEF GiveUp, Overcharge, Measure, At, Go
  <2>6. CASE Ask(n) \/ TestWait(n) \/ Sleep(n) \/ Wake(n)
    BY <2>6 DEF Ask, TestWait, Sleep, Wake, At
  <2>7. QED
    BY <2>1, <2>2, <2>3, <2>4, <2>5, <2>6 DEF Measuring
<1>3. CASE ~(\E m \in Shots : Measurement(m))
  <2>1. CASE Reader
    <3>1. Acknowledge
      BY <2>1 DEF Reader, Read, Expire
    <3>2. QED
      BY <1>1, <3>1 DEF Acknowledge, Go
  <2>2. CASE Join
    BY <1>1, <2>2 DEF Join, EndMeasuring, Go, lrfVars
  <2>3. CASE Main /\ ~Join
    BY <2>3 DEF Main, ReadTrigger, PullTrigger, Finalize, Judge, Angles, Calculate,
                OnlyFaults, lrfVars
  <2>4. CASE User
    <3>1. UNCHANGED thread \/ thread' = [thread EXCEPT ![shots + 1] = "begin"]
      BY <2>4 DEF User, Push, StartRanging, StartMeasuring, Refused, Release, SetTaqmode,
                  Stop, Terminate, UseRange, lrfVars
    <3>2. QED
      BY <1>1, <3>1
  <2>5. CASE Answer \/ UNCHANGED vars
    BY <2>5 DEF Answer, vars, lrfVars
  <2>6. QED
    BY <1>3, <2>1, <2>2, <2>3, <2>4, <2>5 DEF Next
<1>4. QED
  BY <1>2, <1>3

(* The laser fires only in the release of an acquisition that was not refused,
   unless a release came before its thread had started, for any number of
   measurements and failures. *)
THEOREM LaserFiresWanted == Spec => LaserIsWanted
<1>1. Init => Types /\ OwnInv /\ LaserInv
  BY TypesInit, OwnInit, LaserInit
<1>2. Types /\ OwnInv /\ LaserInv /\ [Next]_vars => (Types /\ OwnInv /\ LaserInv)'
  BY TypesStep, OwnStep, LaserStep
<1>3. Types /\ OwnInv /\ LaserInv /\ [Next]_vars =>
        [\A n \in Shots : thread[n] = "armed" /\ thread'[n] = "fired" =>
           ~Idle /\ (status = "inproc" \/ early)]_vars
  <2> SUFFICES ASSUME Types, OwnInv, LaserInv, [Next]_vars, NEW n \in Shots,
                      thread[n] = "armed", thread'[n] = "fired"
               PROVE  ~Idle /\ (status = "inproc" \/ early)
    OBVIOUS
  <2>1. inProc /\ call \in {"finalize", "join"}
    BY FiredByTrigger DEF LaserInv, Pulled
  <2>2. ~early => status = "inproc"
    BY <2>1 DEF LaserInv, Wanted
  <2>3. QED
    BY <2>1, <2>2 DEF Idle
<1>4. QED
  BY <1>1, <1>2, <1>3, PTL DEF Spec, LaserIsWanted

=============================================================================
