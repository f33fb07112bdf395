-------------------------- MODULE KeyinHandler_proofs --------------------------
(***************************************************************************)
(* Theorems about the keys and about the dialogs they end in.              *)
(*                                                                         *)
(* KeyinHandler, for any keyboard, long-key count and bounds on the keys   *)
(* typed and the calls made.  The invariant has four parts: the two        *)
(* threads and the mutex; the stroke and what was posted of it; the        *)
(* keyboard and the buffer; what was typed during a lock.                  *)
(*                                                                         *)
(* Dialogs, for any number of failed allocations.  First what every        *)
(* creator's plan has, whatever happens to it (Fitting); then the          *)
(* invariant: what was made is on the widget list, in order, or dropped.   *)
(***************************************************************************)
EXTENDS KeyinHandler, Dialogs, SequenceTheorems, WellFoundedInduction, TLAPS

USE KeyinHandlerAssumption

(* Facts about a buffer that an input is appended to or taken from. *)
LEMMA AppendInput ==
  ASSUME NEW q \in Seq(Inputs), NEW e \in Inputs
  PROVE  /\ Append(q, e) \in Seq(Inputs)
         /\ Len(q) \in Nat
         /\ Len(Append(q, e)) = Len(q) + 1
         /\ \A i \in 1..Len(q) : Append(q, e)[i] = q[i]
         /\ Append(q, e)[Len(q) + 1] = e
  BY AppendProperties, LenProperties

LEMMA TakeInput ==
  ASSUME NEW q \in Seq(Inputs), q # <<>>
  PROVE  /\ Head(q) \in Inputs
         /\ Tail(q) \in Seq(Inputs)
         /\ Len(q) \in Nat
         /\ 1 \in 1..Len(q) /\ Head(q) = q[1]
         /\ Len(Tail(q)) = Len(q) - 1
         /\ \A i \in 1..Len(Tail(q)) : Tail(q)[i] = q[i + 1]
<1>1. Len(q) \in Nat /\ Len(q) # 0
  BY LenProperties, EmptySeq
<1>2. 1 \in 1..Len(q)
  BY <1>1
<1>3. Head(q) = q[1] /\ q[1] \in Inputs
  BY <1>2, HeadTailProperties, ElementOfSeq
<1>4. QED BY <1>1, <1>2, <1>3, HeadTailProperties

(* A key is one of the program's exactly when the table has it. *)
LEMMA KnownKey ==
  ASSUME NEW s, Known(s) PROVE KeyTable[s] \in Keycodes
  BY DEF Known, Keycodes

-----------------------------------------------------------------------------
(* The two threads and the mutex. *)

ControlOK ==
  /\ lock \in BOOLEAN /\ scan \in BOOLEAN
  /\ owner \in {NoThread, Scanner, Main}
  /\ thread \in {"loop", "branch", "acquire", "test", "wait", "relock", "leave",
                 "reset", "poll", "drain", "exit"}
  /\ caller \in {"idle", "locking", "unlocking", "signal", "stop", "join", "destroyed"}
  /\ owner = Scanner <=> thread \in {"test", "leave"}
  /\ owner = Main <=> caller \in {"locking", "unlocking"}
  /\ locks \in 0..MaxLocks

ControlInv == ControlOK /\ NoLostWakeup

LEMMA ControlStep == ControlInv /\ [Next]_vars => ControlInv'
<1> SUFFICES ASSUME ControlInv, [Next]_vars PROVE ControlInv'
  OBVIOUS
<1> USE DEF ControlInv, ControlOK, NoLostWakeup, Asleep
<1>1. CASE UNCHANGED <<control, owner, thread>>
  BY <1>1 DEF control
<1>2. CASE Keyboard
  BY <1>1, <1>2 DEF Keyboard, Press, LetGo
<1>3. CASE TestScan \/ TestLock \/ Acquire
  BY <1>3 DEF TestScan, TestLock, Acquire, Step, control
<1>4. CASE Wait \/ SpuriousWakeup \/ Relock \/ Unlocked \/ Leave
  BY <1>4 DEF Wait, SpuriousWakeup, Relock, Unlocked, Leave, Step, control
<1>5. CASE Reset \/ PollInput \/ PollIdle \/ CheckRepeat \/ Drained
  BY <1>5 DEF Reset, PollInput, PollIdle, CheckRepeat, Drained, Step, control
<1>6. CASE TakePush \/ TakeRelease \/ TakeIgnored
  BY <1>1, <1>6 DEF TakePush, TakeRelease, TakeIgnored, GetEvent
<1>7. CASE CallLock
  BY <1>7 DEF CallLock
<1>8. CASE EndLock
  BY <1>8 DEF EndLock
<1>9. CASE CallUnlock
  <2>1. locks' \in 0..MaxLocks
    <3>1. locks' = locks \/ (locks < MaxLocks /\ locks' = locks + 1)
      BY <1>9 DEF CallUnlock
    <3>2. locks \in Nat /\ MaxLocks \in Nat /\ locks <= MaxLocks
      OBVIOUS
    <3>3. QED BY <3>1, <3>2
  <2>2. /\ owner = NoThread /\ owner' = Main /\ caller' = "unlocking"
        /\ lock' = FALSE /\ scan' = scan /\ thread' = thread
    BY <1>9 DEF CallUnlock
  <2>3. thread' \notin {"test", "leave"}
    BY <2>2
  <2>4. QED BY <2>1, <2>2, <2>3
<1>10. CASE EndUnlock
  <2>1. /\ owner = Main /\ owner' = NoThread /\ caller' = "signal"
        /\ lock' = lock /\ scan' = scan /\ thread' = thread /\ locks' = locks
    BY <1>10 DEF EndUnlock
  <2>2. thread' \notin {"test", "leave"}
    BY <2>1
  <2>3. ControlOK'
    BY <2>1, <2>2
  <2>4. QED BY <2>1, <2>2, <2>3
<1>11. CASE Signal
  <2>1. /\ caller = "signal" /\ caller' \in {"idle", "join"}
        /\ thread' = (IF thread = "wait" THEN "relock" ELSE thread)
        /\ owner' = owner /\ lock' = lock /\ scan' = scan /\ locks' = locks
    BY <1>11 DEF Signal
  <2>2. owner # Main
    BY <2>1
  <2>3. thread' # "wait" /\ (thread' \in {"test", "leave"} <=> thread \in {"test", "leave"})
    BY <2>1
  <2>4. ControlOK'
    BY <2>1, <2>2, <2>3
  <2>5. thread' = "leave" => thread = "leave"
    BY <2>1
  <2>6. QED BY <2>1, <2>3, <2>4, <2>5
<1>12. CASE Destroy \/ Join
  <2>1. /\ caller \in {"idle", "join"} /\ caller' \in {"stop", "destroyed"}
        /\ scan' \in BOOLEAN
        /\ owner' = owner /\ lock' = lock /\ thread' = thread /\ locks' = locks
    BY <1>12 DEF Destroy, Join
  <2>2. owner # Main
    BY <2>1
  <2>3. ControlOK'
    BY <2>1, <2>2
  <2>4. QED BY <2>1, <2>3
<1>13. CASE UNCHANGED vars
  BY <1>1, <1>13 DEF vars
<1>14. QED
  BY <1>2, <1>3, <1>4, <1>5, <1>6, <1>7, <1>8, <1>9, <1>10, <1>11, <1>12, <1>13
     DEF Next, ScanStep, MainStep

-----------------------------------------------------------------------------
(* The stroke: the fields of the handler and what was posted. *)

StrokeOK ==
  /\ push \in BOOLEAN /\ hold \in BOOLEAN
  /\ keycode \in Keycodes \cup {"NULL"}
  /\ push => keycode \in Keycodes
  /\ repeat \in 0..LongKey + 1
  /\ sent \in Posts \cup {NoPost}
  /\ quiet \in 0..LongKey + 2

(* The stream is where the fields say it is. *)
Told ==
  /\ push /\ ~hold => sent = [key |-> keycode, kind |-> "PUSH"]
  /\ push /\ hold => sent \in {[key |-> keycode, kind |-> "HOLD"],
                               [key |-> keycode, kind |-> "REPEAT"]}
  /\ ~push => Stream!Between

StrokeInv ==
  /\ StrokeOK
  /\ Told
  /\ HoldIsLong
  /\ hold => push /\ repeat = LongKey + 1

(* Every step that is not one of these four leaves the stroke alone. *)
LEMMA StrokeSteps ==
  ASSUME Next PROVE
    Reset \/ CheckRepeat \/ TakePush \/ TakeRelease
    \/ UNCHANGED <<push, hold, keycode, repeat, sent, dreamt, quiet>>
<1>1. CASE Keyboard
  BY <1>1 DEF Keyboard, Press, LetGo, stroke
<1>2. CASE ScanStep \/ SpuriousWakeup
  BY <1>2 DEF ScanStep, TestScan, TestLock, Acquire, Wait, SpuriousWakeup, Relock,
     Unlocked, Leave, PollInput, PollIdle, Drained, TakeIgnored, stroke
<1>3. CASE MainStep
  BY <1>3 DEF MainStep, CallLock, EndLock, CallUnlock, EndUnlock, Signal, Destroy,
     Join, stroke
<1>4. QED BY <1>1, <1>2, <1>3 DEF Next

(* The codes the scan thread posts are codes of the stream. *)
LEMMA PostTyped ==
  ASSUME NEW k \in Keycodes, NEW kind \in Kinds
  PROVE  [key |-> k, kind |-> kind] \in Posts
  BY DEF Posts

LEMMA RepeatStep ==
  ASSUME StrokeInv, CheckRepeat
  PROVE  StrokeInv' /\ (Stream!Hold(keycode) \/ Stream!Repeat(keycode) \/ UNCHANGED sent)
<1>1. push = TRUE /\ keycode \in Keycodes /\ push' = TRUE /\ keycode' = keycode
  BY DEF StrokeInv, StrokeOK, CheckRepeat
<1>2. LongKey \in Nat /\ repeat \in 0..LongKey + 1 /\ quiet \in 0..LongKey + 2
  BY DEF StrokeInv, StrokeOK
<1>3. hold \in BOOLEAN
  BY DEF StrokeInv, StrokeOK
<1>4. CASE Counts
  <2>1. repeat <= LongKey
    BY <1>2, <1>4 DEF Counts
  <2>2. hold = FALSE
    BY <1>2, <1>3, <2>1 DEF StrokeInv
  <2>3. repeat' = repeat + 1 /\ hold' = FALSE /\ sent' = sent
    BY <1>4, <2>2 DEF CheckRepeat
  <2>4. quiet = repeat
    BY <1>1, <2>2 DEF StrokeInv, HoldIsLong
  <2>5. quiet' = quiet + 1
    BY <1>2, <2>1, <2>4 DEF CheckRepeat
  <2>6. /\ repeat' \in 0..LongKey + 1
        /\ quiet' \in 0..LongKey + 2
        /\ quiet' = repeat'
    BY <1>2, <2>1, <2>3, <2>4, <2>5
  <2>7. sent \in Posts \cup {NoPost} /\ sent = [key |-> keycode, kind |-> "PUSH"]
    BY <1>1, <2>2 DEF StrokeInv, StrokeOK, Told
  <2>8. StrokeOK'
    BY <1>1, <2>3, <2>6, <2>7 DEF StrokeOK
  <2>9. Told' /\ HoldIsLong'
    BY <1>1, <2>3, <2>6, <2>7 DEF Told, HoldIsLong
  <2>10. QED BY <2>3, <2>8, <2>9 DEF StrokeInv
<1>5. CASE ~Counts
  <2>1. repeat = LongKey + 1
    BY <1>2, <1>5 DEF Counts
  <2>2. /\ hold' = TRUE /\ repeat' = repeat
        /\ sent' = [key |-> keycode, kind |-> IF hold THEN "REPEAT" ELSE "HOLD"]
    BY <1>5 DEF CheckRepeat, Post
  <2>3. quiet' = LongKey + 2
    <3>1. CASE hold = TRUE
      <4>1. quiet = LongKey + 2
        BY <3>1 DEF StrokeInv, HoldIsLong
      <4>2. quiet > LongKey + 1
        BY <4>1
      <4>3. QED BY <4>1, <4>2 DEF CheckRepeat
    <3>2. CASE hold = FALSE
      <4>1. quiet = LongKey + 1
        BY <1>1, <2>1, <3>2 DEF StrokeInv, HoldIsLong
      <4>2. ~(quiet > LongKey + 1) /\ quiet + 1 = LongKey + 2
        BY <4>1
      <4>3. QED BY <4>2 DEF CheckRepeat
    <3>3. QED BY <1>3, <3>1, <3>2
  <2>4. sent' \in Posts
    BY <1>1, <2>2, PostTyped DEF Kinds
  <2>5. quiet' \in 0..LongKey + 2
    BY <2>3
  <2>6. StrokeOK'
    BY <1>1, <1>2, <2>2, <2>4, <2>5 DEF StrokeOK
  <2>7. Told' /\ HoldIsLong'
    BY <1>1, <2>2, <2>3 DEF Told, HoldIsLong
  <2>8. Stream!Hold(keycode) \/ Stream!Repeat(keycode)
    BY <1>1, <1>3, <2>2 DEF StrokeInv, Told, Stream!Hold, Stream!Repeat, Stream!Code
  <2>9. QED BY <1>1, <2>1, <2>2, <2>6, <2>7, <2>8 DEF StrokeInv
<1>6. QED BY <1>4, <1>5

LEMMA PushStep ==
  ASSUME StrokeInv, buffer \in Seq(Inputs), TakePush
  PROVE  StrokeInv' /\ keycode' \in Keycodes /\ Stream!Push(keycode')
<1>1. push = FALSE
  BY DEF TakePush, Pushes, StrokeInv, StrokeOK
<1>2. keycode' \in Keycodes
  BY KnownKey DEF TakePush, Pushes
<1>3. /\ push' = TRUE /\ hold' = FALSE /\ repeat' = 0 /\ quiet' = 0
      /\ sent' = [key |-> keycode', kind |-> "PUSH"]
  BY DEF TakePush, Post
<1>4. sent' \in Posts
  BY <1>2, <1>3, PostTyped DEF Kinds
<1>5. 0 \in 0..LongKey + 1 /\ 0 \in 0..LongKey + 2
  OBVIOUS
<1>6. StrokeOK'
  BY <1>2, <1>3, <1>4, <1>5 DEF StrokeOK
<1>7. Told' /\ HoldIsLong'
  BY <1>3 DEF Told, HoldIsLong
<1>8. Stream!Push(keycode')
  BY <1>1, <1>3 DEF StrokeInv, Told, Stream!Push, Stream!Code
<1>9. QED BY <1>2, <1>3, <1>6, <1>7, <1>8 DEF StrokeInv

LEMMA ReleaseStep ==
  ASSUME StrokeInv, TakeRelease
  PROVE  StrokeInv' /\ keycode \in Keycodes /\ Stream!Release(keycode)
<1>1. push = TRUE /\ keycode \in Keycodes
  BY DEF TakeRelease, Releases, StrokeInv, StrokeOK
<1>2. /\ push' = FALSE /\ hold' = FALSE /\ repeat' = 0 /\ quiet' = 0 /\ keycode' = keycode
      /\ sent' = [key |-> keycode, kind |-> IF hold THEN "HOLD_RELEASE" ELSE "RELEASE"]
  BY DEF TakeRelease, Releases, Post
<1>3. sent' \in Posts
  BY <1>1, <1>2, PostTyped DEF Kinds
<1>4. 0 \in 0..LongKey + 1 /\ 0 \in 0..LongKey + 2
  OBVIOUS
<1>5. StrokeOK'
  BY <1>1, <1>2, <1>3, <1>4 DEF StrokeOK
<1>6. Told' /\ HoldIsLong'
  BY <1>1, <1>2 DEF Told, HoldIsLong, Stream!Between, Stream!Code
<1>7. Stream!Release(keycode)
  BY <1>1, <1>2 DEF StrokeInv, Told, Stream!Release, Stream!Code
<1>8. QED BY <1>1, <1>2, <1>5, <1>6, <1>7 DEF StrokeInv

LEMMA ResetStep ==
  ASSUME StrokeInv, Reset PROVE StrokeInv' /\ Stream!Cut
<1>1. /\ push' = FALSE /\ hold' = FALSE /\ repeat' = 0 /\ quiet' = 0 /\ keycode' = keycode
      /\ sent' = NoPost
  BY DEF Reset
<1>2. 0 \in 0..LongKey + 1 /\ 0 \in 0..LongKey + 2
  OBVIOUS
<1>3. StrokeOK'
  BY <1>1, <1>2 DEF StrokeInv, StrokeOK
<1>4. Told' /\ HoldIsLong'
  BY <1>1 DEF Told, HoldIsLong, Stream!Between
<1>5. QED BY <1>1, <1>3, <1>4 DEF StrokeInv, Stream!Cut

-----------------------------------------------------------------------------
(* The keyboard and the buffer. *)

(* From its n-th input on, the buffer holds the release of s. *)
Later(q, s, n) ==
  \E i \in n..Len(q) : q[i].type = "RELEASE" /\ q[i].symbol = s

(* A press in the buffer is followed by its release, unless the key is down. *)
PressesEnd ==
  \A i \in 1..Len(buffer) : buffer[i].type = "PRESS" =>
     buffer[i].symbol \in down \/ Later(buffer, buffer[i].symbol, i + 1)

KeyboardInv ==
  /\ down \subseteq Symbols
  /\ buffer \in Seq(Inputs)
  /\ strokes \in 0..MaxStrokes
  /\ PressesEnd
  /\ NoStuckKey

LEMMA AppendKeepsRelease ==
  ASSUME NEW q \in Seq(Inputs), NEW e \in Inputs, NEW s, NEW n \in Nat, n >= 1
  PROVE  /\ Later(q, s, n) => Later(Append(q, e), s, n)
         /\ e.type = "RELEASE" /\ e.symbol = s /\ n <= Len(q) + 1 => Later(Append(q, e), s, n)
<1>1. ASSUME Later(q, s, n) PROVE Later(Append(q, e), s, n)
  <2>1. PICK i \in n..Len(q) : q[i].type = "RELEASE" /\ q[i].symbol = s
    BY <1>1 DEF Later
  <2>2. i \in 1..Len(q) /\ i \in n..Len(Append(q, e))
    BY <2>1, AppendInput
  <2>3. Append(q, e)[i] = q[i]
    BY <2>2, AppendInput
  <2>4. QED BY <2>1, <2>2, <2>3 DEF Later
<1>2. ASSUME e.type = "RELEASE", e.symbol = s, n <= Len(q) + 1
      PROVE  Later(Append(q, e), s, n)
  <2>1. Len(q) + 1 \in n..Len(Append(q, e)) /\ Append(q, e)[Len(q) + 1] = e
    BY <1>2, AppendInput
  <2>2. QED BY <1>2, <2>1 DEF Later
<1>3. QED BY <1>1, <1>2

LEMMA TailKeepsRelease ==
  ASSUME NEW q \in Seq(Inputs), q # <<>>, NEW s, NEW n \in Nat, n >= 2, Later(q, s, n)
  PROVE  Later(Tail(q), s, n - 1)
<1>1. PICK i \in n..Len(q) : q[i].type = "RELEASE" /\ q[i].symbol = s
  BY DEF Later
<1>2. Len(Tail(q)) = Len(q) - 1 /\ Len(q) \in Nat
  BY TakeInput
<1>3. i - 1 \in (n - 1)..Len(Tail(q)) /\ i - 1 \in 1..Len(Tail(q))
  BY <1>1, <1>2
<1>4. Tail(q)[i - 1] = q[(i - 1) + 1]
  BY <1>3, TakeInput
<1>5. (i - 1) + 1 = i
  BY <1>1
<1>6. QED BY <1>1, <1>3, <1>4, <1>5 DEF Later

(* NoStuckKey with the buffer's releases named. *)
LEMMA Stuck ==
  NoStuckKey <=> (push => \E s \in Symbol(keycode) : s \in down \/ Later(buffer, s, 1))
  BY DEF NoStuckKey, Later

LEMMA PressKey ==
  ASSUME KeyboardInv, NEW s \in Symbols, Press(s) PROVE KeyboardInv'
<1> DEFINE e == [type |-> "PRESS", symbol |-> s, asleep |-> Asleep]
<1>1. e \in Inputs /\ e.type = "PRESS" /\ e.symbol = s
  BY DEF Inputs, Asleep
<1>2. buffer \in Seq(Inputs) /\ buffer' = Append(buffer, e) /\ down' = down \cup {s}
  BY DEF KeyboardInv, Press, Type
<1> HIDE DEF e
<1>3. push' = push /\ keycode' = keycode
  BY DEF Press, stroke
<1>4. strokes' \in 0..MaxStrokes
  BY DEF KeyboardInv, Press
<1>5. PressesEnd'
  <2> SUFFICES ASSUME NEW i \in 1..Len(buffer'), buffer'[i].type = "PRESS"
               PROVE  buffer'[i].symbol \in down' \/ Later(buffer', buffer'[i].symbol, i + 1)
    BY DEF PressesEnd
  <2>1. CASE i = Len(buffer) + 1
    BY <1>1, <1>2, <2>1, AppendInput
  <2>2. CASE i # Len(buffer) + 1
    <3>1. i \in 1..Len(buffer) /\ i + 1 \in Nat /\ i + 1 >= 1
      BY <1>1, <1>2, <2>2, AppendInput
    <3>2. buffer'[i] = buffer[i]
      BY <1>1, <1>2, <3>1, AppendInput
    <3>3. buffer[i].symbol \in down \/ Later(buffer, buffer[i].symbol, i + 1)
      BY <3>1, <3>2 DEF KeyboardInv, PressesEnd
    <3>4. Later(buffer, buffer[i].symbol, i + 1) => Later(buffer', buffer[i].symbol, i + 1)
      BY <1>1, <1>2, <3>1, AppendKeepsRelease
    <3>5. QED BY <1>2, <3>2, <3>3, <3>4
  <2>3. QED BY <2>1, <2>2
<1>6. NoStuckKey'
  <2> SUFFICES ASSUME push'
               PROVE  \E t \in Symbol(keycode') : t \in down' \/ Later(buffer', t, 1)
    BY DEF NoStuckKey, Later, Symbol
  <2>1. PICK t \in Symbol(keycode) : t \in down \/ Later(buffer, t, 1)
    BY <1>3, Stuck DEF KeyboardInv
  <2>2. Later(buffer, t, 1) => Later(buffer', t, 1)
    BY <1>1, <1>2, AppendKeepsRelease
  <2>3. QED BY <1>2, <1>3, <2>1, <2>2
<1>7. buffer' \in Seq(Inputs) /\ down' \subseteq Symbols
  BY <1>1, <1>2, AppendInput DEF KeyboardInv
<1>8. QED BY <1>4, <1>5, <1>6, <1>7 DEF KeyboardInv

LEMMA LetGoKey ==
  ASSUME KeyboardInv, NEW s \in Symbols, LetGo(s) PROVE KeyboardInv'
<1> DEFINE e == [type |-> "RELEASE", symbol |-> s, asleep |-> Asleep]
<1>1. e \in Inputs /\ e.type = "RELEASE" /\ e.symbol = s
  BY DEF Inputs, Asleep
<1>2. buffer \in Seq(Inputs) /\ buffer' = Append(buffer, e) /\ down' = down \ {s}
  BY DEF KeyboardInv, LetGo, Type
<1> HIDE DEF e
<1>3. push' = push /\ keycode' = keycode /\ strokes' = strokes
  BY DEF LetGo, stroke
<1>4. Len(buffer) \in Nat
  BY <1>1, <1>2, AppendInput
<1>5. PressesEnd'
  <2> SUFFICES ASSUME NEW i \in 1..Len(buffer'), buffer'[i].type = "PRESS"
               PROVE  buffer'[i].symbol \in down' \/ Later(buffer', buffer'[i].symbol, i + 1)
    BY DEF PressesEnd
  <2>1. i # Len(buffer) + 1
    BY <1>1, <1>2, AppendInput
  <2>2. i \in 1..Len(buffer) /\ i + 1 \in Nat /\ i + 1 >= 1 /\ i + 1 <= Len(buffer) + 1
    BY <1>1, <1>2, <1>4, <2>1, AppendInput
  <2>3. buffer'[i] = buffer[i]
    BY <1>1, <1>2, <2>2, AppendInput
  <2>4. buffer[i].symbol \in down \/ Later(buffer, buffer[i].symbol, i + 1)
    BY <2>2, <2>3 DEF KeyboardInv, PressesEnd
  <2>5. Later(buffer, buffer[i].symbol, i + 1) => Later(buffer', buffer[i].symbol, i + 1)
    BY <1>1, <1>2, <2>2, AppendKeepsRelease
  <2>6. buffer[i].symbol = s => Later(buffer', buffer[i].symbol, i + 1)
    BY <1>1, <1>2, <2>2, AppendKeepsRelease
  <2>7. QED BY <1>2, <2>3, <2>4, <2>5, <2>6
<1>6. NoStuckKey'
  <2> SUFFICES ASSUME push'
               PROVE  \E t \in Symbol(keycode') : t \in down' \/ Later(buffer', t, 1)
    BY DEF NoStuckKey, Later, Symbol
  <2>1. PICK t \in Symbol(keycode) : t \in down \/ Later(buffer, t, 1)
    BY <1>3, Stuck DEF KeyboardInv
  <2>2. Later(buffer, t, 1) => Later(buffer', t, 1)
    BY <1>1, <1>2, AppendKeepsRelease
  <2>3. t = s => Later(buffer', t, 1)
    BY <1>1, <1>2, <1>4, AppendKeepsRelease
  <2>4. QED BY <1>2, <1>3, <2>1, <2>2, <2>3
<1>7. buffer' \in Seq(Inputs) /\ down' \subseteq Symbols
  BY <1>1, <1>2, AppendInput DEF KeyboardInv
<1>8. QED BY <1>3, <1>5, <1>6, <1>7 DEF KeyboardInv

(* Taking an input keeps what was promised about the presses behind it. *)
LEMMA TakeKeepsPresses ==
  ASSUME KeyboardInv, buffer # <<>>, buffer' = Tail(buffer), down' = down
  PROVE  PressesEnd'
<1> SUFFICES ASSUME NEW i \in 1..Len(buffer'), buffer'[i].type = "PRESS"
             PROVE  buffer'[i].symbol \in down' \/ Later(buffer', buffer'[i].symbol, i + 1)
  BY DEF PressesEnd
<1>1. buffer \in Seq(Inputs)
  BY DEF KeyboardInv
<1>2. i \in 1..Len(Tail(buffer)) /\ buffer'[i] = buffer[i + 1]
  BY <1>1, TakeInput
<1>3. i + 1 \in 1..Len(buffer)
  BY <1>1, <1>2, TakeInput
<1>4. buffer[i + 1].symbol \in down \/ Later(buffer, buffer[i + 1].symbol, (i + 1) + 1)
  BY <1>2, <1>3 DEF KeyboardInv, PressesEnd
<1>5. (i + 1) + 1 \in Nat /\ (i + 1) + 1 >= 2 /\ ((i + 1) + 1) - 1 = i + 1
  BY <1>2
<1>6. ASSUME Later(buffer, buffer[i + 1].symbol, (i + 1) + 1)
      PROVE  Later(Tail(buffer), buffer[i + 1].symbol, i + 1)
  <2>1. Later(Tail(buffer), buffer[i + 1].symbol, ((i + 1) + 1) - 1)
    BY <1>1, <1>5, <1>6, TailKeepsRelease
  <2>2. QED BY <1>5, <2>1
<1>7. QED BY <1>2, <1>4, <1>6

LEMMA TakeInputStep ==
  ASSUME KeyboardInv, StrokeInv, TakePush \/ TakeRelease \/ TakeIgnored
  PROVE  KeyboardInv'
<1>1. buffer \in Seq(Inputs) /\ buffer # <<>> /\ buffer' = Tail(buffer)
      /\ down' = down /\ strokes' = strokes
  BY DEF KeyboardInv, TakePush, TakeRelease, TakeIgnored, GetEvent
<1>2. /\ 1 \in 1..Len(buffer) /\ Head(buffer) = buffer[1] /\ Head(buffer) \in Inputs
      /\ buffer' \in Seq(Inputs) /\ Len(buffer) \in Nat
  BY <1>1, TakeInput
<1>3. PressesEnd'
  BY <1>1, TakeKeepsPresses
<1>4. \A s : Later(buffer, s, 2) => Later(buffer', s, 1)
  <2> TAKE s
  <2>1. Later(buffer, s, 2) => Later(Tail(buffer), s, 2 - 1)
    BY <1>1, TailKeepsRelease
  <2>2. QED BY <1>1, <2>1
<1>5. NoStuckKey'
  <2> SUFFICES ASSUME push'
               PROVE  \E t \in Symbol(keycode') : t \in down' \/ Later(buffer', t, 1)
    BY DEF NoStuckKey, Later, Symbol
  <2>1. CASE TakePush
    <3> DEFINE t == Head(buffer).symbol
    <3>1. Head(buffer).type = "PRESS" /\ Known(t) /\ keycode' = KeyTable[t]
      BY <2>1 DEF TakePush, Pushes
    <3>2. t \in Symbol(keycode')
      BY <1>2, <3>1 DEF Symbol, Inputs
    <3>3. t \in down \/ Later(buffer, t, 1 + 1)
      BY <1>2, <3>1 DEF KeyboardInv, PressesEnd
    <3>4. QED BY <1>1, <1>4, <3>2, <3>3
  <2>2. CASE TakeRelease
    BY <2>2 DEF TakeRelease
  <2>3. CASE TakeIgnored
    <3>1. push /\ keycode' = keycode
      BY <2>3 DEF TakeIgnored, stroke
    <3>2. PICK t \in Symbol(keycode) : t \in down \/ Later(buffer, t, 1)
      BY <3>1, Stuck DEF KeyboardInv
    <3>3. ~(Head(buffer).type = "RELEASE" /\ Head(buffer).symbol = t)
      BY <2>3, <3>1, <3>2 DEF TakeIgnored, Releases, Symbol
    <3>4. Later(buffer, t, 1) => Later(buffer, t, 2)
      <4> SUFFICES ASSUME Later(buffer, t, 1) PROVE Later(buffer, t, 2)
        OBVIOUS
      <4>1. PICK i \in 1..Len(buffer) : buffer[i].type = "RELEASE" /\ buffer[i].symbol = t
        BY DEF Later
      <4>2. i # 1
        BY <1>2, <3>3, <4>1
      <4>3. i \in 2..Len(buffer)
        BY <1>2, <4>2
      <4>4. QED BY <4>1, <4>3 DEF Later
    <3>5. QED BY <1>1, <1>4, <3>1, <3>2, <3>4
  <2>4. QED BY <2>1, <2>2, <2>3
<1>6. QED BY <1>1, <1>2, <1>3, <1>5 DEF KeyboardInv

LEMMA ResetKeyboard ==
  ASSUME KeyboardInv, Reset PROVE KeyboardInv'
<1>1. buffer' = <<>> /\ push' = FALSE /\ down' = down /\ strokes' = strokes
  BY DEF Reset
<1>2. buffer' \in Seq(Inputs) /\ Len(buffer') = 0
  BY <1>1, EmptySeq
<1>3. PressesEnd' /\ NoStuckKey'
  BY <1>1, <1>2 DEF PressesEnd, NoStuckKey
<1>4. QED BY <1>1, <1>2, <1>3 DEF KeyboardInv

(* Every other step of the two threads leaves keyboard and key alone. *)
LEMMA KeyboardSteps ==
  ASSUME Next PROVE
    \/ \E s \in Symbols : Press(s) \/ LetGo(s)
    \/ Reset \/ TakePush \/ TakeRelease \/ TakeIgnored
    \/ UNCHANGED <<down, buffer, strokes, push, keycode>>
<1>1. CASE ScanStep \/ SpuriousWakeup
  BY <1>1 DEF ScanStep, TestScan, TestLock, Acquire, Wait, SpuriousWakeup, Relock,
     Unlocked, Leave, PollInput, PollIdle, CheckRepeat, Drained, keyboard, stroke
<1>2. CASE MainStep
  BY <1>2 DEF MainStep, CallLock, EndLock, CallUnlock, EndUnlock, Signal, Destroy,
     Join, keyboard, stroke
<1>3. QED BY <1>1, <1>2 DEF Next, Keyboard

LEMMA KeyboardStep ==
  ASSUME KeyboardInv, StrokeInv, [Next]_vars PROVE KeyboardInv'
<1>1. CASE UNCHANGED <<down, buffer, strokes, push, keycode>>
  BY <1>1 DEF KeyboardInv, PressesEnd, NoStuckKey, Later, Symbol
<1>2. CASE Next
  BY <1>1, <1>2, KeyboardSteps, PressKey, LetGoKey, ResetKeyboard, TakeInputStep
<1>3. CASE UNCHANGED vars
  BY <1>1, <1>3 DEF vars, keyboard, stroke
<1>4. QED BY <1>2, <1>3

LEMMA StrokeStep ==
  ASSUME StrokeInv, buffer \in Seq(Inputs), [Next]_vars
  PROVE  StrokeInv' /\ [Stream!Next]_sent
<1>1. CASE UNCHANGED <<push, hold, keycode, repeat, sent, dreamt, quiet>>
  BY <1>1 DEF StrokeInv, StrokeOK, Told, HoldIsLong, Stream!Between, Stream!Code
<1>2. CASE Next
  <2>1. CASE CheckRepeat
    BY <2>1, RepeatStep DEF Stream!Next, StrokeInv, StrokeOK, CheckRepeat
  <2>2. CASE TakePush
    BY <2>2, PushStep DEF Stream!Next
  <2>3. CASE TakeRelease
    BY <2>3, ReleaseStep DEF Stream!Next
  <2>4. CASE Reset
    BY <2>4, ResetStep DEF Stream!Next
  <2>5. QED BY <1>1, <1>2, <2>1, <2>2, <2>3, <2>4, StrokeSteps
<1>3. CASE UNCHANGED vars
  BY <1>1, <1>3 DEF vars, stroke
<1>4. QED BY <1>2, <1>3

-----------------------------------------------------------------------------
(* What was typed while the scan thread slept. *)

(* Between the sleep and the reset; an input typed asleep is in the buffer
   only there. *)
Dozing == thread \in {"wait", "relock", "test", "leave", "reset"}

DozeInv ==
  /\ \A i \in 1..Len(buffer) : buffer[i].asleep => Dozing
  /\ LockedKeysDropped
  /\ dreamt \in BOOLEAN

LEMMA DozeStep ==
  ASSUME DozeInv, buffer \in Seq(Inputs), [Next]_vars PROVE DozeInv'
<1>1. CASE \E s \in Symbols : Press(s) \/ LetGo(s)
  <2>1. PICK s \in Symbols, t \in {"PRESS", "RELEASE"} :
          buffer' = Append(buffer, [type |-> t, symbol |-> s, asleep |-> Asleep])
    BY <1>1 DEF Press, LetGo, Type
  <2> DEFINE e == [type |-> t, symbol |-> s, asleep |-> Asleep]
  <2>2. thread' = thread /\ dreamt' = dreamt
    BY <1>1 DEF Press, LetGo, stroke
  <2>3. e \in Inputs /\ (e.asleep => Dozing)
    BY DEF Inputs, Asleep, Dozing
  <2>4. buffer' = Append(buffer, e)
    BY <2>1
  <2> HIDE DEF e
  <2>5. \A i \in 1..Len(buffer') : buffer'[i].asleep => Dozing
    <3> SUFFICES ASSUME NEW i \in 1..Len(buffer'), buffer'[i].asleep PROVE Dozing
      OBVIOUS
    <3>1. CASE i = Len(buffer) + 1
      BY <2>3, <2>4, <3>1, AppendInput
    <3>2. CASE i # Len(buffer) + 1
      <4>1. i \in 1..Len(buffer) /\ buffer'[i] = buffer[i]
        BY <2>3, <2>4, <3>2, AppendInput
      <4>2. QED BY <4>1 DEF DozeInv
    <3>3. QED BY <3>1, <3>2
  <2>6. QED BY <2>2, <2>5 DEF DozeInv, Dozing, LockedKeysDropped
<1>2. CASE TakePush \/ TakeRelease \/ TakeIgnored
  <2>1. thread = "drain" /\ thread' = thread /\ buffer # <<>> /\ buffer' = Tail(buffer)
    BY <1>2 DEF TakePush, TakeRelease, TakeIgnored, GetEvent
  <2>2. \A i \in 1..Len(buffer) : ~buffer[i].asleep
    BY <2>1 DEF DozeInv, Dozing
  <2>3. \A i \in 1..Len(buffer') : ~buffer'[i].asleep
    <3> TAKE i \in 1..Len(buffer')
    <3>1. i + 1 \in 1..Len(buffer) /\ buffer'[i] = buffer[i + 1]
      BY <2>1, TakeInput
    <3>2. QED BY <2>2, <3>1
  <2>4. Head(buffer).asleep \in BOOLEAN /\ ~Head(buffer).asleep
    BY <2>1, <2>2, TakeInput DEF Inputs
  <2>5. dreamt' \in BOOLEAN /\ ~dreamt'
    <3>1. CASE TakePush
      <4>1. dreamt' = Head(buffer).asleep
        BY <3>1 DEF TakePush
      <4>2. QED BY <2>4, <4>1
    <3>2. CASE TakeRelease \/ TakeIgnored
      <4>1. dreamt' = dreamt
        BY <3>2 DEF TakeRelease, TakeIgnored, stroke
      <4>2. QED BY <4>1 DEF DozeInv, LockedKeysDropped
    <3>3. QED BY <1>2, <3>1, <3>2
  <2>6. \A i \in 1..Len(buffer') : buffer'[i].asleep => Dozing'
    BY <2>3
  <2>7. LockedKeysDropped'
    BY <2>5 DEF LockedKeysDropped
  <2>8. QED BY <2>5, <2>6, <2>7 DEF DozeInv
<1>3. CASE Reset
  <2>1. buffer' = <<>> /\ dreamt' = FALSE
    BY <1>3 DEF Reset
  <2>2. Len(buffer') = 0
    BY <2>1, EmptySeq
  <2>3. \A i \in 1..Len(buffer') : buffer'[i].asleep => Dozing'
    BY <2>2
  <2>4. dreamt' \in BOOLEAN /\ LockedKeysDropped'
    BY <2>1 DEF LockedKeysDropped
  <2>5. QED BY <2>3, <2>4 DEF DozeInv
<1>4. CASE buffer' = buffer /\ dreamt' = dreamt /\ (Dozing => Dozing')
  <2>1. \A i \in 1..Len(buffer') : buffer'[i].asleep => Dozing'
    <3> SUFFICES ASSUME NEW i \in 1..Len(buffer'), buffer'[i].asleep PROVE Dozing'
      OBVIOUS
    <3>1. i \in 1..Len(buffer) /\ buffer[i].asleep
      BY <1>4
    <3>2. Dozing
      BY <3>1 DEF DozeInv
    <3>3. QED BY <1>4, <3>2
  <2>2. dreamt' \in BOOLEAN /\ LockedKeysDropped'
    BY <1>4 DEF DozeInv, LockedKeysDropped
  <2>3. QED BY <2>1, <2>2 DEF DozeInv
<1>5. ASSUME TestScan \/ TestLock \/ Acquire \/ Wait \/ Relock \/ SpuriousWakeup
      PROVE  buffer' = buffer /\ dreamt' = dreamt /\ (Dozing => Dozing')
  BY <1>5 DEF TestScan, TestLock, Acquire, Wait, Relock, SpuriousWakeup, Step, Dozing,
     keyboard, stroke
<1>6. ASSUME Unlocked \/ Leave \/ PollInput \/ PollIdle \/ CheckRepeat \/ Drained
      PROVE  buffer' = buffer /\ dreamt' = dreamt /\ (Dozing => Dozing')
  BY <1>6 DEF Unlocked, Leave, PollInput, PollIdle, CheckRepeat, Drained, Step, Dozing,
     keyboard, stroke
<1>7. ASSUME MainStep
      PROVE  buffer' = buffer /\ dreamt' = dreamt /\ (Dozing => Dozing')
  BY <1>7 DEF MainStep, CallLock, EndLock, CallUnlock, EndUnlock, Signal, Destroy, Join,
     Dozing, Asleep, keyboard, stroke
<1>8. CASE UNCHANGED vars
  BY <1>4, <1>8 DEF vars, keyboard, stroke, Dozing
<1>9. QED
  <2>1. CASE Keyboard
    BY <1>1, <2>1 DEF Keyboard
  <2>2. CASE ScanStep \/ SpuriousWakeup
    BY <1>2, <1>3, <1>4, <1>5, <1>6, <2>2 DEF ScanStep
  <2>3. CASE MainStep
    BY <1>4, <1>7, <2>3
  <2>4. QED BY <1>8, <2>1, <2>2, <2>3 DEF Next

-----------------------------------------------------------------------------
IInv == ControlInv /\ StrokeInv /\ KeyboardInv /\ DozeInv

LEMMA IInvInit == Init => IInv
<1> SUFFICES ASSUME Init PROVE IInv
  OBVIOUS
<1>1. 0 \in 0..MaxLocks /\ 0 \in 0..MaxStrokes /\ 0 \in 0..LongKey + 1 /\ 0 \in 0..LongKey + 2
  OBVIOUS
<1>2. buffer \in Seq(Inputs) /\ Len(buffer) = 0
  BY EmptySeq DEF Init
<1>3. ControlInv
  BY <1>1 DEF Init, ControlInv, ControlOK, NoLostWakeup, Asleep
<1>4. StrokeInv
  BY <1>1 DEF Init, StrokeInv, StrokeOK, Told, HoldIsLong, Stream!Between
<1>5. KeyboardInv
  BY <1>1, <1>2 DEF Init, KeyboardInv, PressesEnd, NoStuckKey
<1>6. DozeInv
  <2>1. \A i \in 1..Len(buffer) : buffer[i].asleep => Dozing
    BY <1>2
  <2>2. dreamt \in BOOLEAN /\ LockedKeysDropped
    BY DEF Init, LockedKeysDropped
  <2>3. QED BY <2>1, <2>2 DEF DozeInv
<1>7. QED BY <1>3, <1>4, <1>5, <1>6 DEF IInv

LEMMA IInvStep == IInv /\ [Next]_vars => IInv'
  BY ControlStep, StrokeStep, KeyboardStep, DozeStep DEF IInv, KeyboardInv

LEMMA Invariance == Spec => []IInv
<1>1. QED BY IInvInit, IInvStep, PTL DEF Spec

(* The variables of keyin_handler_attribute, of the two threads and of the
   keyboard keep their types, and mtx excludes one thread while the other is
   between lock and unlock. *)
THEOREM Typing == Spec => []TypeOK
<1>1. IInv => TypeOK
  BY DEF IInv, ControlInv, ControlOK, StrokeInv, StrokeOK, KeyboardInv, DozeInv, TypeOK
<1>2. QED BY Invariance, <1>1, PTL

(* No key sticks: what gui_keyin_handler_check_push took down is on the
   keyboard or its release is on the way, across locks and other keys. *)
THEOREM Unstuck == Spec => []NoStuckKey
<1>1. IInv => NoStuckKey
  BY DEF IInv, KeyboardInv
<1>2. QED BY Invariance, <1>1, PTL

(* Nothing typed while gui_keyin_handler_keyscan sleeps is ever posted. *)
THEOREM Dropped == Spec => []LockedKeysDropped
<1>1. IInv => LockedKeysDropped
  BY DEF IInv, DozeInv
<1>2. QED BY Invariance, <1>1, PTL

(* The signal of gui_keyin_handler_unlock is not lost, and the scan thread
   passes the wait only with the keys unlocked. *)
THEOREM WakeupSafety == Spec => []NoLostWakeup
<1>1. IInv => NoLostWakeup
  BY DEF IInv, ControlInv
<1>2. QED BY Invariance, <1>1, PTL

(* gui_keyin_handler_check_repeat posts HOLD after as many quiet scans as
   LONGKEY_COUNT asks for, for any count. *)
THEOREM LongKeys == Spec => []HoldIsLong
<1>1. IInv => HoldIsLong
  BY DEF IInv, StrokeInv
<1>2. QED BY Invariance, <1>1, PTL

(* The handler implements the stream of whole strokes the GUI reads. *)
THEOREM ImplementsStream == Spec => StreamSpec
<1>1. Init => Stream!Init
  BY DEF Init, Stream!Init
<1>2. IInv /\ [Next]_vars => [Stream!Next]_sent
  BY StrokeStep DEF IInv, KeyboardInv
<1>3. QED BY Invariance, <1>1, <1>2, PTL DEF Spec, StreamSpec, Stream!Spec

-----------------------------------------------------------------------------
(* The dialogs.  What each creator hands over: the widgets are of the known
   kinds, the callbacks find in a whole dialog the spin boxes they look for,
   and the widget that is to have the focus can have it; where there is none,
   all that can have the focus comes first. *)

HIDE KeyinHandlerAssumption

WidgetTypes == Freed \cup {"GRID"}

List(s) == Len(s) \in Nat /\ DOMAIN s = 1..Len(s)

Holds(ws, ident) == \E k \in DOMAIN ws : Ident(ws[k]) = ident

FocusableFirst(ws) ==
  \A i, j \in DOMAIN ws : ws[i].type \notin Unfocusable /\ ws[j].type \in Unfocusable => i < j

Answered(ws) ==
  \A i \in DOMAIN ws : \A j \in DOMAIN Reads(ws[i].callback) :
    Holds(ws, <<"SPINBOX", Reads(ws[i].callback)[j]>>)

Focusing(p) ==
  /\ \A k \in DOMAIN p.widgets :
       Ident(p.widgets[k]) = p.focus => p.widgets[k].type \notin Unfocusable
  /\ Holds(p.widgets, p.focus) \/ FocusableFirst(p.widgets)

Fitting(p) ==
  /\ List(p.widgets) /\ \A i \in DOMAIN p.widgets : p.widgets[i].type \in WidgetTypes
  /\ p.complete => Answered(p.widgets)
  /\ Focusing(p)
  /\ p.id = "TARGET_LIST" => Holds(p.widgets, <<"GRID", "TARGET_LIST">>)

(* The callbacks that look for no widget. *)
Others ==
  {NULL, "toggle_obmode", "irarray_end", "init_correct", "dispbr", "irbr", "ircont",
   "iredge", "enable_ireis", "disable_ireis", "set_irclr_mono", "set_irclr_sepia",
   "set_irclr_spectrum", "set_irclr_isotherm", "irgain", "irlevel", "enable_gheq",
   "enable_lheq", "select_internal_shutter", "select_external_shutter", "update_nuc",
   "enable_evout", "disable_evout", "set_coordsys_geodetic", "set_coordsys_utm",
   "set_coordsys_mgrs", "enable_auto_xmit", "disable_auto_xmit", "enter_standby_mode",
   "test_dmif", "enter_magcompmode", "exit_magcompmode", "apply_magparm",
   "retry_magcomp", "use_auto_obloc", "use_auto_range", "taqsel",
   "terminate_target_acquisition", "check_target_list", "delete_target",
   "xmit_observer_location", "xmit_target_location", "xmit_target_location_at_list",
   "xmit_target_shift", "xmit_target_shift_at_list"}

LEMMA OthersReadNothing == \A c \in Others : DOMAIN Reads(c) = {}
<1>1. \A c \in Others : c \notin DOMAIN Reading
  BY DEF Others, Reading, NULL
<1>2. QED BY <1>1 DEF Reads

(* Lists of widgets of the known kinds, whose callbacks look for nothing. *)
Plain(w) == w.type \in WidgetTypes /\ w.callback \in Others
PlainList(ws) == List(ws) /\ \A i \in DOMAIN ws : Plain(ws[i])

LEMMA Joined ==
  ASSUME NEW s, NEW t, List(s), List(t)
  PROVE  /\ List(s \o t) /\ Len(s \o t) = Len(s) + Len(t)
         /\ \A i \in DOMAIN s : i \in DOMAIN (s \o t) /\ (s \o t)[i] = s[i]
         /\ \A i \in DOMAIN t : /\ Len(s) + i \in DOMAIN (s \o t)
                                /\ (s \o t)[Len(s) + i] = t[i]
         /\ \A i \in DOMAIN (s \o t) :
              \/ i \in DOMAIN s
              \/ i - Len(s) \in DOMAIN t /\ (s \o t)[i] = t[i - Len(s)]
BY DEF List

LEMMA PlainJoined ==
  ASSUME NEW s, NEW t, PlainList(s), PlainList(t)
  PROVE  PlainList(s \o t)
<1>1. List(s) /\ List(t)
  BY DEF PlainList
<1>2. \A i \in DOMAIN (s \o t) : Plain((s \o t)[i])
  <2>1. ASSUME NEW i \in DOMAIN s PROVE Plain((s \o t)[i])
    <3>1. (s \o t)[i] = s[i]
      BY <1>1 DEF List
    <3>2. QED BY <3>1 DEF PlainList
  <2>2. ASSUME NEW i \in DOMAIN (s \o t),
               i - Len(s) \in DOMAIN t /\ (s \o t)[i] = t[i - Len(s)]
        PROVE  Plain((s \o t)[i])
    BY <2>2 DEF PlainList
  <2>3. QED BY <1>1, <2>1, <2>2, Joined
<1>3. QED BY <1>1, <1>2, Joined DEF PlainList

LEMMA HoldsJoined ==
  ASSUME NEW s, NEW t, List(s), List(t), NEW ident, Holds(s, ident) \/ Holds(t, ident)
  PROVE  Holds(s \o t, ident)
<1>1. CASE Holds(s, ident)
  BY <1>1, Joined DEF Holds
<1>2. CASE Holds(t, ident)
  <2>1. PICK k \in DOMAIN t : Ident(t[k]) = ident
    BY <1>2 DEF Holds
  <2>2. Len(s) + k \in DOMAIN (s \o t) /\ (s \o t)[Len(s) + k] = t[k]
    BY DEF List
  <2>3. QED BY <2>1, <2>2 DEF Holds
<1>3. QED BY <1>1, <1>2

LEMMA PlainLists ==
  ASSUME NEW names, List(names)
  PROVE  /\ PlainList(Captions(names)) /\ PlainList(Spinboxes(names))
         /\ Len(Captions(names)) = Len(names) /\ Len(Spinboxes(names)) = Len(names)
         /\ \A i \in DOMAIN names : /\ Ident(Captions(names)[i]) = <<"CAPTION", names[i]>>
                                    /\ Captions(names)[i].type = "CAPTION"
                                    /\ Holds(Spinboxes(names), <<"SPINBOX", names[i]>>)
<1>1. \A n : Plain(Caption(n)) /\ Plain(Spinbox(n))
  BY DEF Plain, Caption, Spinbox, Widget, WidgetTypes, Freed, Others, NULL
<1>2. /\ List(Captions(names)) /\ DOMAIN Captions(names) = DOMAIN names
      /\ List(Spinboxes(names)) /\ DOMAIN Spinboxes(names) = DOMAIN names
  BY DEF Captions, Spinboxes, List
<1>3. \A i \in DOMAIN names : Captions(names)[i] = Caption(names[i])
                              /\ Spinboxes(names)[i] = Spinbox(names[i])
  BY DEF Captions, Spinboxes
<1>4. PlainList(Captions(names)) /\ PlainList(Spinboxes(names))
  BY <1>1, <1>2, <1>3 DEF PlainList
<1>5. Len(Captions(names)) = Len(names) /\ Len(Spinboxes(names)) = Len(names)
  BY DEF Captions, Spinboxes, List
<1>6. ASSUME NEW i \in DOMAIN names
      PROVE  /\ Ident(Captions(names)[i]) = <<"CAPTION", names[i]>>
             /\ Captions(names)[i].type = "CAPTION"
             /\ Holds(Spinboxes(names), <<"SPINBOX", names[i]>>)
  BY <1>2, <1>3 DEF Holds, Ident, Caption, Spinbox, Widget
<1>7. QED BY <1>4, <1>5, <1>6

(* A dialog whose callbacks look for nothing. *)
LEMMA PlainFits ==
  ASSUME NEW id, id # "TARGET_LIST", NEW ws, PlainList(ws),
         NEW type, type \notin Unfocusable, NEW name,
         Holds(ws, <<type, name>>) \/ FocusableFirst(ws)
  PROVE  Fitting(Plan(id, ws, <<type, name>>))
<1>1. Answered(ws)
  BY OthersReadNothing DEF PlainList, Plain, Answered
<1>2. ASSUME NEW k \in DOMAIN ws, Ident(ws[k]) = <<type, name>>
      PROVE  ws[k].type \notin Unfocusable
  BY <1>2 DEF Ident
<1>3. QED BY <1>1, <1>2 DEF Fitting, Focusing, Plan, PlainList, Plain

LEMMA NoticeFits ==
  ASSUME NEW id, id # "TARGET_LIST", NEW caption
  PROVE  Fitting(NoticePlan(id, caption))
<1> DEFINE ws == <<Caption(caption), Button("CONFIRM", NULL)>>
<1>1. PlainList(ws)
  BY DEF PlainList, List, Plain, Caption, Button, Widget, WidgetTypes, Freed, Others, NULL
<1>2. Holds(ws, <<"BUTTON", "CONFIRM">>)
  <2>1. 2 \in DOMAIN ws /\ Ident(ws[2]) = <<"BUTTON", "CONFIRM">>
    BY DEF Ident, Button, Widget
  <2>2. QED BY <2>1 DEF Holds
<1>3. "BUTTON" \notin Unfocusable
  BY DEF Unfocusable
<1> HIDE DEF ws
<1>4. Fitting(Plan(id, ws, <<"BUTTON", "CONFIRM">>))
  BY <1>1, <1>2, <1>3, PlainFits
<1>5. QED BY <1>4 DEF NoticePlan, ws

LEMMA ChoiceFits ==
  ASSUME NEW id, id # "TARGET_LIST", NEW caption, NEW focus_,
         NEW one, NEW other, NEW save \in Others, NEW leave \in Others
  PROVE  Fitting(ChoicePlan(id, Button(one, save), Button(other, leave), caption, focus_))
<1> DEFINE ws == <<Button(one, save), Button(other, leave), Caption(caption)>>
<1>1. PlainList(ws)
  BY DEF PlainList, List, Plain, Caption, Button, Widget, WidgetTypes, Freed, Others, NULL
<1>2. FocusableFirst(ws)
  BY DEF FocusableFirst, Unfocusable, Button, Caption, Widget
<1>3. "BUTTON" \notin Unfocusable
  BY DEF Unfocusable
<1> HIDE DEF ws
<1>4. Fitting(Plan(id, ws, <<"BUTTON", focus_>>))
  BY <1>1, <1>2, <1>3, PlainFits
<1>5. QED BY <1>4 DEF ChoicePlan, ws

LEMMA NoticesFit ==
  /\ Fitting(success_magcomp) /\ Fitting(magcomp_errfom) /\ Fitting(magcomp_errcalc)
  /\ Fitting(magcomp_errdaq) /\ Fitting(user_obloc) /\ Fitting(auto_obloc)
  /\ Fitting(invalid_obloc) /\ Fitting(user_range) /\ Fitting(auto_range)
  /\ Fitting(invalid_range) /\ Fitting(user_gridvar) /\ Fitting(auto_gridvar)
  /\ Fitting(low_voltage) /\ Fitting(invalid_gridvar) /\ Fitting(ircamctrl_error)
  /\ Fitting(ircampwr_error) /\ Fitting(dispctrl_error) /\ Fitting(evoutctrl_error)
  /\ Fitting(shtrctrl_error) /\ Fitting(lrfctrl_error) /\ Fitting(angle_error)
  /\ Fitting(unknown_error) /\ Fitting(magcomp_initerr) /\ Fitting(error_zero_range)
  /\ Fitting(error_target_shift) /\ Fitting(error_target_size) /\ Fitting(error_geodcalc)
  /\ Fitting(error_dmc_offline) /\ Fitting(error_gnss_offline) /\ Fitting(error_taq)
  /\ Fitting(success_xmit) /\ Fitting(success_dmif_test) /\ Fitting(timeout)
  /\ Fitting(nack_cantpro2) /\ Fitting(nack_cantpro15) /\ Fitting(nack_cantpro19)
  /\ Fitting(nack_cantpro25) /\ Fitting(error_gridvar) /\ Fitting(bit_pass)
  /\ Fitting(bit_fail) /\ Fitting(fwupdate_nofile) /\ Fitting(fwupdate_success)
  /\ Fitting(fwupdate_fail) /\ Fitting(fwupdate_nosdcard)
BY NoticeFits
   DEF success_magcomp, magcomp_errfom, magcomp_errcalc, magcomp_errdaq, user_obloc,
       auto_obloc, invalid_obloc, user_range, auto_range, invalid_range, user_gridvar,
       auto_gridvar, low_voltage, invalid_gridvar, ircamctrl_error, ircampwr_error,
       dispctrl_error, evoutctrl_error, shtrctrl_error, lrfctrl_error, angle_error,
       unknown_error, magcomp_initerr, error_zero_range, error_target_shift,
       error_target_size, error_geodcalc, error_dmc_offline, error_gnss_offline,
       error_taq, success_xmit, success_dmif_test, timeout, nack_cantpro2,
       nack_cantpro15, nack_cantpro19, nack_cantpro25, error_gridvar, bit_pass,
       bit_fail, fwupdate_nofile, fwupdate_success, fwupdate_fail, fwupdate_nosdcard

LEMMA ChoicesFit ==
  /\ Fitting(obmode) /\ Fitting(standby_mode) /\ Fitting(exec_bit) /\ Fitting(dmif_test)
  /\ Fitting(exit_magcompmode) /\ Fitting(apply_magparm) /\ Fitting(retry_magcomp)
  /\ Fitting(delete_target) /\ Fitting(xmit_taloc) /\ Fitting(xmit_taloc_at_list)
  /\ Fitting(ir_scale_input) /\ Fitting(firmware_update) /\ Fitting(correct_init)
  /\ \A b \in BOOLEAN : /\ Fitting(ireis(b)) /\ Fitting(irheq(b)) /\ Fitting(auto_xmit(b))
                        /\ Fitting(select_shutter(b)) /\ Fitting(ir_array(b))
                        /\ Fitting(enter_magcompmode(b))
<1>0. /\ NULL \in Others /\ "toggle_obmode" \in Others /\ "enter_standby_mode" \in Others
      /\ "test_dmif" \in Others /\ "exit_magcompmode" \in Others
      /\ "apply_magparm" \in Others /\ "retry_magcomp" \in Others
      /\ "delete_target" \in Others /\ "xmit_target_location" \in Others
      /\ "xmit_target_location_at_list" \in Others /\ "init_correct" \in Others
      /\ "enable_ireis" \in Others /\ "disable_ireis" \in Others
      /\ "enable_gheq" \in Others /\ "enable_lheq" \in Others
      /\ "enable_auto_xmit" \in Others /\ "disable_auto_xmit" \in Others
      /\ "select_internal_shutter" \in Others /\ "select_external_shutter" \in Others
      /\ "enter_magcompmode" \in Others
  BY DEF Others
<1>1. Fitting(obmode) /\ Fitting(standby_mode) /\ Fitting(exec_bit) /\ Fitting(dmif_test)
  BY <1>0, ChoiceFits DEF obmode, standby_mode, exec_bit, dmif_test
<1>2. Fitting(exit_magcompmode) /\ Fitting(apply_magparm) /\ Fitting(retry_magcomp)
  BY <1>0, ChoiceFits DEF exit_magcompmode, apply_magparm, retry_magcomp
<1>3. Fitting(delete_target) /\ Fitting(xmit_taloc) /\ Fitting(xmit_taloc_at_list)
  BY <1>0, ChoiceFits DEF delete_target, xmit_taloc, xmit_taloc_at_list
<1>4. Fitting(ir_scale_input) /\ Fitting(firmware_update) /\ Fitting(correct_init)
  BY <1>0, ChoiceFits DEF ir_scale_input, firmware_update, correct_init
<1>5. ASSUME NEW b \in BOOLEAN
      PROVE  /\ Fitting(ireis(b)) /\ Fitting(irheq(b)) /\ Fitting(auto_xmit(b))
             /\ Fitting(select_shutter(b)) /\ Fitting(ir_array(b))
             /\ Fitting(enter_magcompmode(b))
  <2>1. Fitting(ireis(b)) /\ Fitting(irheq(b)) /\ Fitting(auto_xmit(b))
    BY <1>0, ChoiceFits DEF ireis, irheq, auto_xmit
  <2>2. Fitting(select_shutter(b)) /\ Fitting(ir_array(b))
    BY <1>0, ChoiceFits DEF select_shutter, ir_array
  <2>3. Fitting(enter_magcompmode(b))
    BY <1>0, ChoiceFits, NoticeFits DEF enter_magcompmode
  <2>4. QED BY <2>1, <2>2, <2>3
<1>6. QED BY <1>1, <1>2, <1>3, <1>4, <1>5

(* Lists of widgets of which the callbacks `a' and `b' may look for spin boxes. *)
Asks(ws, a, b) ==
  /\ List(ws)
  /\ \A i \in DOMAIN ws : ws[i].type \in WidgetTypes /\ ws[i].callback \in Others \cup {a, b}

LEMMA PlainAsks ==
  ASSUME NEW ws, PlainList(ws), NEW a, NEW b
  PROVE  Asks(ws, a, b)
BY DEF PlainList, Plain, Asks

LEMMA AsksJoined ==
  ASSUME NEW s, NEW t, NEW a, NEW b, Asks(s, a, b), Asks(t, a, b)
  PROVE  Asks(s \o t, a, b)
<1> DEFINE Fine(w) == w.type \in WidgetTypes /\ w.callback \in Others \cup {a, b}
<1>1. /\ List(s) /\ \A i \in DOMAIN s : Fine(s[i])
      /\ List(t) /\ \A i \in DOMAIN t : Fine(t[i])
  BY DEF Asks
<1> HIDE DEF Fine
<1>2. ASSUME NEW i \in DOMAIN (s \o t) PROVE Fine((s \o t)[i])
  <2>1. CASE i \in DOMAIN s
    <3>1. (s \o t)[i] = s[i]
      BY <1>1, <2>1, Joined
    <3>2. QED BY <1>1, <2>1, <3>1
  <2>2. CASE i - Len(s) \in DOMAIN t /\ (s \o t)[i] = t[i - Len(s)]
    BY <1>1, <2>2
  <2>3. QED BY <1>1, <2>1, <2>2, Joined
<1>3. List(s \o t)
  BY <1>1, Joined
<1>4. QED BY <1>2, <1>3 DEF Asks, Fine

LEMMA ReaderFits ==
  ASSUME NEW id, id # "TARGET_LIST", NEW ws, NEW a, NEW b, Asks(ws, a, b),
         NEW name, Holds(ws, <<"BUTTON", name>>),
         \A j \in DOMAIN Reads(a) : Holds(ws, <<"SPINBOX", Reads(a)[j]>>),
         \A j \in DOMAIN Reads(b) : Holds(ws, <<"SPINBOX", Reads(b)[j]>>)
  PROVE  Fitting(Plan(id, ws, <<"BUTTON", name>>))
<1>1. Answered(ws)
  BY OthersReadNothing DEF Answered, Asks
<1>2. ASSUME NEW k \in DOMAIN ws, Ident(ws[k]) = <<"BUTTON", name>>
      PROVE  ws[k].type \notin Unfocusable
  BY <1>2 DEF Ident, Unfocusable
<1>3. QED BY <1>1, <1>2 DEF Fitting, Focusing, Plan, Asks

(* The two buttons of a dialog with values; the first reads them. *)
LEMMA Pair ==
  ASSUME NEW apply, NEW read, NEW name, NEW leave \in Others, NEW b
  PROVE  LET pair == <<Button(apply, read), Button(name, leave)>>
         IN  Asks(pair, read, b) /\ Holds(pair, <<"BUTTON", name>>)
<1> DEFINE pair == <<Button(apply, read), Button(name, leave)>>
<1>1. /\ List(pair) /\ DOMAIN pair = {1, 2}
      /\ pair[1] = Button(apply, read) /\ pair[2] = Button(name, leave)
  BY DEF List
<1> HIDE DEF pair
<1>2. Asks(pair, read, b)
  BY <1>1 DEF Asks, Button, Widget, WidgetTypes, Freed
<1>3. Holds(pair, <<"BUTTON", name>>)
  BY <1>1 DEF Holds, Ident, Button, Widget
<1>4. QED BY <1>2, <1>3 DEF pair

(* Plain widgets, two buttons of which the first reads, plain widgets again, and
   what the first reads is among the last. *)
LEMMA CorrectionFits ==
  ASSUME NEW id, id # "TARGET_LIST", NEW labels, PlainList(labels),
         NEW boxes, PlainList(boxes), NEW save, NEW apply, NEW leave \in Others,
         \A j \in DOMAIN Reads(save) : Holds(boxes, <<"SPINBOX", Reads(save)[j]>>)
  PROVE  Fitting(Plan(id, (labels \o <<Button(apply, save), Button("CANCEL", leave)>>) \o boxes,
                      <<"BUTTON", "CANCEL">>))
<1> DEFINE pair == <<Button(apply, save), Button("CANCEL", leave)>>
           ws   == (labels \o pair) \o boxes
<1>1. Asks(pair, save, save) /\ Holds(pair, <<"BUTTON", "CANCEL">>)
  BY Pair
<1> HIDE DEF pair
<1>2. Asks(labels, save, save) /\ Asks(boxes, save, save)
  BY PlainAsks
<1>3. Asks(labels \o pair, save, save)
  BY <1>1, <1>2, AsksJoined
<1>4. Asks(ws, save, save)
  BY <1>2, <1>3, AsksJoined
<1>5. List(labels) /\ List(pair) /\ List(labels \o pair) /\ List(boxes)
  BY <1>1, <1>2, <1>3 DEF Asks
<1>6. Holds(labels \o pair, <<"BUTTON", "CANCEL">>)
  BY <1>1, <1>5, HoldsJoined
<1>7. Holds(ws, <<"BUTTON", "CANCEL">>)
  BY <1>5, <1>6, HoldsJoined
<1>8. \A j \in DOMAIN Reads(save) : Holds(ws, <<"SPINBOX", Reads(save)[j]>>)
  BY <1>5, HoldsJoined
<1>9. Fitting(Plan(id, ws, <<"BUTTON", "CANCEL">>))
  <2> HIDE DEF ws
  <2>1. QED BY <1>4, <1>7, <1>8, ReaderFits
<1>10. QED BY <1>9 DEF pair

(* The boxes of a correction: one for each name, and a caption. *)
LEMMA BoxesHold ==
  ASSUME NEW names, List(names), NEW title
  PROVE  LET boxes == Spinboxes(names) \o Captions(<<title>>)
         IN  /\ PlainList(boxes)
             /\ \A i \in DOMAIN names : Holds(boxes, <<"SPINBOX", names[i]>>)
<1>1. List(<<title>>)
  BY DEF List
<1>2. PlainList(Spinboxes(names)) /\ PlainList(Captions(<<title>>))
  BY <1>1, PlainLists
<1>3. List(Spinboxes(names)) /\ List(Captions(<<title>>))
  BY <1>2 DEF PlainList
<1>4. ASSUME NEW i \in DOMAIN names
      PROVE  Holds(Spinboxes(names) \o Captions(<<title>>), <<"SPINBOX", names[i]>>)
  BY <1>3, PlainLists, HoldsJoined
<1>5. QED BY <1>2, <1>4, PlainJoined

LEMMA LabelsPlain ==
  /\ PlainList(DistanceLabels) /\ PlainList(AngleLabels) /\ PlainList(Captions(<<"A", "B">>))
<1>1. /\ List(<<"A", "B", "DECIMAL_POINT_A", "DECIMAL_POINT_B">>)
      /\ List(<<"ANGLE_UNIT", "DECIMAL_POINT">>) /\ List(<<"A", "B">>)
  BY DEF List
<1>2. QED BY <1>1, PlainLists DEF DistanceLabels, AngleLabels

LEMMA CallbacksRead ==
  /\ Reads("save_short_dist_correct") = distance_guiid
  /\ Reads("save_middle_dist_correct") = distance_guiid
  /\ Reads("save_long_dist_correct") = distance_guiid
  /\ Reads("save_azimuth_correct") = save_azimuth_correct
  /\ Reads("save_altitude_correct") = save_altitude_correct
  /\ Reads("save_sensor_correct") = save_sensor_correct
  /\ Reads("use_user_obloc") = use_user_obloc
  /\ Reads("use_user_range") = use_user_range
  /\ Reads("use_user_gridvar") = use_user_gridvar
  /\ Reads("set_systime") = set_systime
  /\ Reads("change_lastday") = change_lastday
BY DEF Reads, Reading, save_short_dist_correct, save_middle_dist_correct, save_long_dist_correct

(* What is read for a distance is what its dialog has, name by name. *)
LEMMA DistanceDigits ==
  LET names == digits_A \o digits_B
  IN  /\ List(names) /\ DOMAIN distance_guiid = DOMAIN names
      /\ \A j \in DOMAIN distance_guiid : names[j] = distance_guiid[j]
<1>1. List(digits_A \o digits_B) /\ DOMAIN (digits_A \o digits_B) = 1..16
  BY DEF digits_A, digits_B, List
<1>2. DOMAIN distance_guiid = 1..16
  BY DEF distance_guiid
<1>3. ASSUME NEW j \in 1..16 PROVE (digits_A \o digits_B)[j] = distance_guiid[j]
  BY DEF digits_A, digits_B, distance_guiid
<1>4. QED BY <1>1, <1>2, <1>3

LEMMA DistanceFits ==
  ASSUME NEW id, id # "TARGET_LIST", NEW save, Reads(save) = distance_guiid, NEW title
  PROVE  Fitting(Plan(id, (DistanceLabels \o SaveOrCancel(save))
                            \o (Spinboxes(digits_A \o digits_B) \o Captions(<<title>>)), OnCancel))
<1> DEFINE names == digits_A \o digits_B
           boxes == Spinboxes(names) \o Captions(<<title>>)
<1>1. /\ List(names) /\ DOMAIN distance_guiid = DOMAIN names
      /\ \A j \in DOMAIN distance_guiid : names[j] = distance_guiid[j]
  BY DistanceDigits
<1> HIDE DEF names
<1>2. PlainList(boxes) /\ \A i \in DOMAIN names : Holds(boxes, <<"SPINBOX", names[i]>>)
  BY <1>1, BoxesHold
<1> HIDE DEF boxes
<1>3. \A j \in DOMAIN Reads(save) : Holds(boxes, <<"SPINBOX", Reads(save)[j]>>)
  BY <1>1, <1>2
<1>4. NULL \in Others /\ PlainList(DistanceLabels)
  BY LabelsPlain DEF Others
<1>5. Fitting(Plan(id, (DistanceLabels \o <<Button("SAVE", save), Button("CANCEL", NULL)>>)
                           \o boxes,
                   <<"BUTTON", "CANCEL">>))
  BY <1>2, <1>3, <1>4, CorrectionFits
<1>6. QED BY <1>5 DEF boxes, names, SaveOrCancel, OnCancel

LEMMA AngleFits ==
  ASSUME NEW id, id # "TARGET_LIST", NEW save, NEW names, List(names), Reads(save) = names,
         NEW title, NEW labels, PlainList(labels)
  PROVE  Fitting(Plan(id, (labels \o SaveOrCancel(save))
                            \o (Spinboxes(names) \o Captions(<<title>>)), OnCancel))
<1> DEFINE boxes == Spinboxes(names) \o Captions(<<title>>)
<1>1. PlainList(boxes) /\ \A i \in DOMAIN names : Holds(boxes, <<"SPINBOX", names[i]>>)
  BY BoxesHold
<1> HIDE DEF boxes
<1>2. NULL \in Others
  BY DEF Others
<1>3. Fitting(Plan(id, (labels \o <<Button("SAVE", save), Button("CANCEL", NULL)>>) \o boxes,
                   <<"BUTTON", "CANCEL">>))
  BY <1>1, <1>2, CorrectionFits
<1>4. QED BY <1>3 DEF boxes, SaveOrCancel, OnCancel

LEMMA CorrectionsFit ==
  /\ Fitting(short_distance_correct) /\ Fitting(middle_distance_correct)
  /\ Fitting(long_distance_correct) /\ Fitting(azimuth_correct)
  /\ Fitting(altitude_correct) /\ Fitting(sensor_correct)
<1>1. Fitting(short_distance_correct) /\ Fitting(middle_distance_correct)
      /\ Fitting(long_distance_correct)
  BY DistanceFits, CallbacksRead
     DEF short_distance_correct, middle_distance_correct, long_distance_correct,
         short_labels, middle_labels, long_labels, short_boxes, middle_boxes, long_boxes
<1>2. /\ List(azimuth_digits) /\ azimuth_digits = save_azimuth_correct
      /\ List(altitude_digits) /\ altitude_digits = save_altitude_correct
      /\ List(sensor_digits) /\ sensor_digits = save_sensor_correct
  BY DEF List, azimuth_digits, save_azimuth_correct, altitude_digits, save_altitude_correct,
         sensor_digits, save_sensor_correct
<1>3. Fitting(azimuth_correct)
  BY <1>2, AngleFits, CallbacksRead, LabelsPlain
     DEF azimuth_correct, azimuth_labels, azimuth_boxes
<1>4. Fitting(altitude_correct)
  BY <1>2, AngleFits, CallbacksRead, LabelsPlain
     DEF altitude_correct, altitude_labels, altitude_boxes
<1>5. Fitting(sensor_correct)
  BY <1>2, AngleFits, CallbacksRead, LabelsPlain
     DEF sensor_correct, sensor_labels, sensor_boxes
<1>6. QED BY <1>1, <1>3, <1>4, <1>5

(* Two buttons of which the first reads, boxes, and a caption. *)
LEMMA InputFits ==
  ASSUME NEW id, id # "TARGET_LIST", NEW apply, NEW read, NEW leave \in Others,
         NEW boxes, PlainList(boxes), NEW title,
         \A j \in DOMAIN Reads(read) : Holds(boxes, <<"SPINBOX", Reads(read)[j]>>)
  PROVE  Fitting(Plan(id, (<<Button(apply, read), Button("CANCEL", leave)>> \o boxes)
                            \o Captions(<<title>>), <<"BUTTON", "CANCEL">>))
<1> DEFINE pair  == <<Button(apply, read), Button("CANCEL", leave)>>
           label == Captions(<<title>>)
           ws    == (pair \o boxes) \o label
<1>1. Asks(pair, read, read) /\ Holds(pair, <<"BUTTON", "CANCEL">>)
  BY Pair
<1>2. PlainList(label)
  <2>1. List(<<title>>)
    BY DEF List
  <2>2. QED BY <2>1, PlainLists
<1> HIDE DEF pair, label
<1>3. Asks(boxes, read, read) /\ Asks(label, read, read)
  BY <1>2, PlainAsks
<1>4. Asks(pair \o boxes, read, read)
  BY <1>1, <1>3, AsksJoined
<1>5. Asks(ws, read, read)
  BY <1>3, <1>4, AsksJoined
<1>6. List(pair) /\ List(boxes) /\ List(pair \o boxes) /\ List(label)
  BY <1>1, <1>3, <1>4 DEF Asks
<1>7. Holds(pair \o boxes, <<"BUTTON", "CANCEL">>)
  BY <1>1, <1>6, HoldsJoined
<1>8. Holds(ws, <<"BUTTON", "CANCEL">>)
  BY <1>6, <1>7, HoldsJoined
<1>9. \A j \in DOMAIN Reads(read) : Holds(ws, <<"SPINBOX", Reads(read)[j]>>)
  <2>1. ASSUME NEW j \in DOMAIN Reads(read) PROVE Holds(ws, <<"SPINBOX", Reads(read)[j]>>)
    <3>1. Holds(boxes, <<"SPINBOX", Reads(read)[j]>>)
      OBVIOUS
    <3>2. Holds(pair \o boxes, <<"SPINBOX", Reads(read)[j]>>)
      BY <1>6, <3>1, HoldsJoined
    <3>3. QED BY <1>6, <3>2, HoldsJoined
  <2>2. QED BY <2>1
<1>10. Fitting(Plan(id, ws, <<"BUTTON", "CANCEL">>))
  <2> HIDE DEF ws
  <2>1. QED BY <1>5, <1>8, <1>9, ReaderFits
<1>11. QED BY <1>10 DEF pair, label

LEMMA InputsFit == Fitting(input_gridvar) /\ Fitting(input_range) /\ Fitting(input_obloc)
<1>1. NULL \in Others /\ "use_auto_range" \in Others /\ "use_auto_obloc" \in Others
  BY DEF Others
<1>2. Fitting(input_gridvar)
  <2>1. List(gridvar_digits)
    BY DEF List, gridvar_digits
  <2>2. \A j \in DOMAIN use_user_gridvar : \E i \in DOMAIN gridvar_digits :
          gridvar_digits[i] = use_user_gridvar[j]
    <3>1. /\ DOMAIN use_user_gridvar = {1, 2, 3, 4}
          /\ gridvar_digits[2] = use_user_gridvar[1] /\ gridvar_digits[3] = use_user_gridvar[2]
          /\ gridvar_digits[4] = use_user_gridvar[3] /\ gridvar_digits[1] = use_user_gridvar[4]
          /\ DOMAIN gridvar_digits = {1, 2, 3, 4}
      BY DEF gridvar_digits, use_user_gridvar
    <3>2. QED BY <3>1
  <2>3. \A j \in DOMAIN Reads("use_user_gridvar") :
          Holds(Spinboxes(gridvar_digits), <<"SPINBOX", Reads("use_user_gridvar")[j]>>)
    <3>1. ASSUME NEW j \in DOMAIN use_user_gridvar
          PROVE  Holds(Spinboxes(gridvar_digits), <<"SPINBOX", use_user_gridvar[j]>>)
      <4>1. PICK i \in DOMAIN gridvar_digits : gridvar_digits[i] = use_user_gridvar[j]
        BY <2>2
      <4>2. Holds(Spinboxes(gridvar_digits), <<"SPINBOX", gridvar_digits[i]>>)
        BY <2>1, PlainLists
      <4>3. QED BY <4>1, <4>2
    <3>2. QED BY <3>1, CallbacksRead
  <2>4. PlainList(Spinboxes(gridvar_digits))
    BY <2>1, PlainLists
  <2>5. QED BY <1>1, <2>3, <2>4, InputFits DEF input_gridvar, OnButton
<1>3. Fitting(input_range)
  <2>1. List(range_digits) /\ range_digits = use_user_range
    BY DEF List, range_digits, use_user_range
  <2>2. \A j \in DOMAIN Reads("use_user_range") :
          Holds(Spinboxes(range_digits), <<"SPINBOX", Reads("use_user_range")[j]>>)
    BY <2>1, PlainLists, CallbacksRead
  <2>3. PlainList(Spinboxes(range_digits))
    BY <2>1, PlainLists
  <2>4. QED BY <1>1, <2>2, <2>3, InputFits DEF input_range, OnButton
<1>4. Fitting(input_obloc)
  <2> DEFINE mgrs == Spinboxes(mgrs_digit)
             alt  == Spinboxes(altitude_digit)
             pair == <<Button("APPLY", "use_user_obloc"), Button("CANCEL", "use_auto_obloc")>>
             read == "use_user_obloc"
  <2>1. List(mgrs_digit) /\ List(altitude_digit)
    BY DEF List, mgrs_digit, altitude_digit
  <2>2. PlainList(mgrs) /\ PlainList(alt) /\ List(mgrs) /\ List(alt)
    BY <2>1, PlainLists DEF PlainList
  <2>3. PlainList(mgrs \o alt)
    BY <2>2, PlainJoined
  <2>4. \A j \in 1..15 : Holds(mgrs, <<"SPINBOX", use_user_obloc[j]>>)
    <3>1. DOMAIN mgrs_digit = 1..15 /\ \A j \in 1..15 : mgrs_digit[j] = use_user_obloc[j]
      BY DEF mgrs_digit, use_user_obloc
    <3>2. QED BY <2>1, <3>1, PlainLists
  <2>5. \A j \in 16..20 : Holds(alt, <<"SPINBOX", use_user_obloc[j]>>)
    <3>1. /\ DOMAIN altitude_digit = 1..5
          /\ use_user_obloc[16] = altitude_digit[2] /\ use_user_obloc[17] = altitude_digit[3]
          /\ use_user_obloc[18] = altitude_digit[4] /\ use_user_obloc[19] = altitude_digit[5]
          /\ use_user_obloc[20] = altitude_digit[1]
      BY DEF altitude_digit, use_user_obloc
    <3>2. \A i \in 1..5 : Holds(alt, <<"SPINBOX", altitude_digit[i]>>)
      BY <2>1, <3>1, PlainLists
    <3>3. /\ Holds(alt, <<"SPINBOX", use_user_obloc[16]>>)
          /\ Holds(alt, <<"SPINBOX", use_user_obloc[17]>>)
          /\ Holds(alt, <<"SPINBOX", use_user_obloc[18]>>)
          /\ Holds(alt, <<"SPINBOX", use_user_obloc[19]>>)
          /\ Holds(alt, <<"SPINBOX", use_user_obloc[20]>>)
      BY <3>1, <3>2
    <3>4. \A j \in 16..20 : j \in {16, 17, 18, 19, 20}
      OBVIOUS
    <3>5. QED BY <3>3, <3>4
  <2>6. DOMAIN use_user_obloc = 1..20
    BY DEF use_user_obloc
  <2> HIDE DEF mgrs, alt
  <2>7. \A j \in 1..20 : Holds(mgrs \o alt, <<"SPINBOX", use_user_obloc[j]>>)
    <3>1. \A j \in 1..15 : Holds(mgrs \o alt, <<"SPINBOX", use_user_obloc[j]>>)
      BY <2>2, <2>4, HoldsJoined
    <3>2. \A j \in 16..20 : Holds(mgrs \o alt, <<"SPINBOX", use_user_obloc[j]>>)
      BY <2>2, <2>5, HoldsJoined
    <3>3. \A j \in 1..20 : j \in 1..15 \/ j \in 16..20
      OBVIOUS
    <3>4. QED BY <3>1, <3>2, <3>3
  <2>8. \A j \in DOMAIN Reads(read) : Holds(mgrs \o alt, <<"SPINBOX", Reads(read)[j]>>)
    BY <2>6, <2>7, CallbacksRead
  <2>9. Fitting(Plan("INPUT_OBLOC", (pair \o (mgrs \o alt)) \o Captions(<<"ALTITUDE_UNIT">>),
                     <<"BUTTON", "CANCEL">>))
    BY <1>1, <2>3, <2>8, InputFits
  <2>10. (pair \o mgrs) \o alt = pair \o (mgrs \o alt)
    OBVIOUS
  <2>11. QED BY <2>9, <2>10 DEF input_obloc, OnButton, mgrs, alt
<1>5. QED BY <1>2, <1>3, <1>4

(* The clock's dialog, and what is left of it without a time. *)
LEMMA TimeFits == \A tm \in BOOLEAN : Fitting(timeset(tm))
<1> DEFINE set  == "set_systime"
           last == "change_lastday"
<1>1. Asks(time_buttons, set, last) /\ Holds(time_buttons, <<"BUTTON", "CANCEL">>)
  <2>1. NULL \in Others
    BY DEF Others
  <2>2. QED BY <2>1, Pair DEF time_buttons
<1>2. /\ List(date_boxes) /\ DOMAIN date_boxes = {1, 2, 3, 4, 5}
      /\ date_boxes[1] = Widget("SPINBOX", "YEAR", last)
      /\ date_boxes[2] = Caption("DELIMIT_YEAR")
      /\ date_boxes[3] = Widget("SPINBOX", "MONTH", last)
      /\ date_boxes[4] = Caption("DELIMIT_MONTH") /\ date_boxes[5] = Spinbox("DAY")
  BY DEF date_boxes, List
<1>3. /\ List(clock_boxes) /\ DOMAIN clock_boxes = {1, 2, 3, 4, 5}
      /\ clock_boxes[1] = Spinbox("HOUR") /\ clock_boxes[2] = Caption("DELIMIT_TIME")
      /\ clock_boxes[3] = Spinbox("MINUTE") /\ clock_boxes[4] = Caption("UTC")
      /\ clock_boxes[5] = Spinbox("UTC_OFFSET")
  BY DEF clock_boxes, List
<1>4. NULL \in Others
  BY DEF Others
<1>5. Asks(date_boxes, set, last) /\ Asks(clock_boxes, set, last)
  BY <1>2, <1>3, <1>4 DEF Asks, WidgetTypes, Freed, Widget, Caption, Spinbox
<1>6. /\ Holds(date_boxes, <<"SPINBOX", "YEAR">>)
      /\ Holds(date_boxes, <<"SPINBOX", "MONTH">>)
      /\ Holds(date_boxes, <<"SPINBOX", "DAY">>)
  BY <1>2 DEF Holds, Ident, Widget, Spinbox
<1>7. /\ Holds(clock_boxes, <<"SPINBOX", "HOUR">>)
      /\ Holds(clock_boxes, <<"SPINBOX", "MINUTE">>)
      /\ Holds(clock_boxes, <<"SPINBOX", "UTC_OFFSET">>)
  BY <1>3 DEF Holds, Ident, Widget, Spinbox
<1> DEFINE first == time_buttons \o date_boxes
           ws    == first \o clock_boxes
<1>8. Asks(first, set, last)
  BY <1>1, <1>5, AsksJoined
<1>9. List(time_buttons) /\ List(first)
  BY <1>1, <1>8 DEF Asks
<1>10. /\ Holds(first, <<"SPINBOX", "YEAR">>) /\ Holds(first, <<"SPINBOX", "MONTH">>)
      /\ Holds(first, <<"SPINBOX", "DAY">>) /\ Holds(first, <<"BUTTON", "CANCEL">>)
  BY <1>1, <1>2, <1>6, <1>9, HoldsJoined
<1> HIDE DEF first
<1>11. Asks(ws, set, last)
  BY <1>5, <1>8, AsksJoined
<1>12. /\ Holds(ws, <<"SPINBOX", "YEAR">>) /\ Holds(ws, <<"SPINBOX", "MONTH">>)
       /\ Holds(ws, <<"SPINBOX", "DAY">>) /\ Holds(ws, <<"BUTTON", "CANCEL">>)
       /\ Holds(ws, <<"SPINBOX", "HOUR">>) /\ Holds(ws, <<"SPINBOX", "MINUTE">>)
       /\ Holds(ws, <<"SPINBOX", "UTC_OFFSET">>)
  BY <1>3, <1>7, <1>9, <1>10, HoldsJoined
<1> HIDE DEF ws
<1>13. /\ \A j \in DOMAIN set_systime : Holds(ws, <<"SPINBOX", set_systime[j]>>)
       /\ \A j \in DOMAIN change_lastday : Holds(ws, <<"SPINBOX", change_lastday[j]>>)
  BY <1>12 DEF set_systime, change_lastday
<1>14. Fitting(Plan("TIME_CONFIG", ws, <<"BUTTON", "CANCEL">>))
  BY <1>11, <1>12, <1>13, CallbacksRead, ReaderFits
<1>15. timeset(TRUE) = Plan("TIME_CONFIG", ws, <<"BUTTON", "CANCEL">>)
  BY DEF timeset, OnButton, ws, first
<1>16. Fitting(timeset(FALSE))
  <2>1. /\ List(time_buttons) /\ DOMAIN time_buttons = {1, 2}
        /\ time_buttons[1].type = "BUTTON" /\ time_buttons[2].type = "BUTTON"
    BY DEF List, time_buttons, Button, Widget
  <2>2. \A w : Ident(w) # <<>>
    BY DEF Ident
  <2>3. QED
    BY <2>1, <2>2
       DEF timeset, GivesUp, Fitting, Focusing, FocusableFirst, WidgetTypes, Freed, Unfocusable
<1>17. QED BY <1>14, <1>15, <1>16

LEMMA NoPlanFits == Fitting(NoPlan)
BY DEF NoPlan, GivesUp, Fitting, List, Focusing, FocusableFirst

(* A button that closes and captions. *)
LEMMA CheckFits ==
  ASSUME NEW id, id # "TARGET_LIST", NEW names, List(names)
  PROVE  /\ Fitting(Plan(id, <<Button("CONFIRM", NULL)>> \o Captions(names),
                         <<"BUTTON", "CONFIRM">>))
         /\ Fitting(Plan(id, Captions(names) \o <<Button("CONFIRM", NULL)>>,
                         <<"BUTTON", "CONFIRM">>))
<1> DEFINE confirm == <<Button("CONFIRM", NULL)>>
           labels  == Captions(names)
<1>1. PlainList(confirm)
  BY DEF PlainList, List, Plain, Button, Widget, WidgetTypes, Freed, Others, NULL
<1>2. Holds(confirm, <<"BUTTON", "CONFIRM">>)
  <2>1. 1 \in DOMAIN confirm /\ Ident(confirm[1]) = <<"BUTTON", "CONFIRM">>
    BY DEF Ident, Button, Widget
  <2>2. QED BY <2>1 DEF Holds
<1>3. PlainList(labels)
  BY PlainLists
<1> HIDE DEF confirm, labels
<1>4. List(confirm) /\ List(labels)
  BY <1>1, <1>3 DEF PlainList
<1>5. /\ PlainList(confirm \o labels) /\ Holds(confirm \o labels, <<"BUTTON", "CONFIRM">>)
      /\ PlainList(labels \o confirm) /\ Holds(labels \o confirm, <<"BUTTON", "CONFIRM">>)
  BY <1>1, <1>2, <1>3, <1>4, PlainJoined, HoldsJoined
<1>6. "BUTTON" \notin Unfocusable
  BY DEF Unfocusable
<1>7. /\ Fitting(Plan(id, confirm \o labels, <<"BUTTON", "CONFIRM">>))
      /\ Fitting(Plan(id, labels \o confirm, <<"BUTTON", "CONFIRM">>))
  BY <1>5, <1>6, PlainFits
<1>8. QED BY <1>7 DEF confirm, labels

LEMMA ChecksFit ==
  /\ Fitting(distance_correct_check) /\ Fitting(angle_correct_check)
  /\ Fitting(sensor_correct_check) /\ Fitting(ir_array_check)
  /\ Fitting(target_detail) /\ Fitting(system_info)
<1>1. Fitting(angle_correct_check)
  <2>1. List(<<"AZM", "AZIMUTH_VAL", "ALTT", "ALTITUDE_VAL", "ANGLECHECK">>)
    BY DEF List
  <2>2. QED BY <2>1, CheckFits DEF angle_correct_check, CheckPlan
<1>2. Fitting(sensor_correct_check)
  <2>1. List(<<"A", "B", "SENSORCHECK">>)
    BY DEF List
  <2>2. QED BY <2>1, CheckFits DEF sensor_correct_check, CheckPlan
<1>3. Fitting(ir_array_check)
  <2>1. List(<<"VERTICAL", "VERTICAL_VAL", "HORIZONTAL", "HORIZONTAL_VAL",
               "IRSCALEINPUT", "IRSCALEINPUT_VAL", "IRCHECK">>)
    BY DEF List
  <2>2. QED BY <2>1, CheckFits DEF ir_array_check, CheckPlan
<1>4. Fitting(distance_correct_check)
  <2>1. List(short_and_middle_values) /\ List(long_values)
    BY DEF List, short_and_middle_values, long_values
  <2>2. List(short_and_middle_values \o long_values)
    BY <2>1, Joined
  <2>3. QED BY <2>2, CheckFits DEF distance_correct_check, CheckPlan
<1>5. Fitting(target_detail)
  <2> DEFINE values == observer_values \o bearing_values \o location_values \o shape_values
  <2>1. List(observer_values) /\ List(bearing_values) /\ List(location_values) /\ List(shape_values)
    BY DEF List, observer_values, bearing_values, location_values, shape_values
  <2>2. List(observer_values \o bearing_values)
    BY <2>1, Joined
  <2>3. List(observer_values \o bearing_values \o location_values)
    BY <2>1, <2>2, Joined
  <2>4. List(values)
    BY <2>1, <2>3, Joined
  <2> HIDE DEF values
  <2>5. Fitting(Plan("TARGET_DETAIL", <<Button("CONFIRM", NULL)>> \o Captions(values),
                     <<"BUTTON", "CONFIRM">>))
    BY <2>4, CheckFits
  <2>6. QED BY <2>5 DEF target_detail, OnButton, values
<1>6. Fitting(system_info)
  <2>1. List(version_values) /\ List(parameter_values)
    BY DEF List, version_values, parameter_values
  <2>2. List(version_values \o parameter_values)
    BY <2>1, Joined
  <2>3. QED BY <2>2, CheckFits DEF system_info, OnButton
<1>7. QED BY <1>1, <1>2, <1>3, <1>4, <1>5, <1>6

(* The dialogs of a few widgets that are like no other. *)
LEMMA SlidersFit ==
  Fitting(irglv) /\ (\A running \in BOOLEAN : Fitting(display_adjust(running)))
    /\ Fitting(taqsel) /\ Fitting(ir_move)
<1> USE DEF Plan, Fitting, List, WidgetTypes, Freed, Focusing, FocusableFirst, Unfocusable,
            Widget, Slider
<1>1. DOMAIN Reads("irgain") = {} /\ DOMAIN Reads("irlevel") = {} /\ DOMAIN Reads("dispbr") = {}
      /\ DOMAIN Reads("irbr") = {} /\ DOMAIN Reads("ircont") = {} /\ DOMAIN Reads("iredge") = {}
      /\ DOMAIN Reads("taqsel") = {} /\ DOMAIN Reads("irarray_end") = {}
  BY OthersReadNothing DEF Others
<1>2. Fitting(irglv)
  BY <1>1 DEF irglv, Answered
<1>3. Fitting(taqsel) /\ Fitting(ir_move)
  BY <1>1 DEF taqsel, ir_move, Answered
<1>4. Fitting(display_adjust(TRUE))
  BY <1>1 DEF display_adjust, dispbr, Answered
<1>5. Fitting(display_adjust(FALSE))
  BY <1>1 DEF display_adjust, dispbr, Answered
<1>6. ASSUME NEW running \in BOOLEAN PROVE Fitting(display_adjust(running))
  <2> HIDE DEF Fitting
  <2>1. CASE running = TRUE
    BY <1>4, <2>1
  <2>2. CASE running = FALSE
    BY <1>5, <2>2
  <2>3. QED BY <2>1, <2>2
<1>7. QED
  <2> HIDE DEF Fitting
  <2>1. QED BY <1>2, <1>3, <1>6

(* The dialogs with two buttons or more, whose callbacks look for nothing. *)
LEMMA QuestionsFit ==
  /\ \A colour \in Colours : Fitting(irclr(colour))
  /\ \A coordsys \in CoordSystems : Fitting(coordsys_selection(coordsys))
  /\ Fitting(cover_irlens) /\ Fitting(evout) /\ Fitting(gnss_status)
  /\ \A inProcess \in BOOLEAN : Fitting(termtaq(inProcess))
  /\ \A userInput, online \in BOOLEAN : Fitting(xmit_obloc(userInput, online))
<1>0. /\ NULL \in Others /\ "set_irclr_mono" \in Others /\ "set_irclr_sepia" \in Others
      /\ "set_irclr_spectrum" \in Others /\ "set_irclr_isotherm" \in Others
      /\ "set_coordsys_geodetic" \in Others /\ "set_coordsys_utm" \in Others
      /\ "set_coordsys_mgrs" \in Others /\ "update_nuc" \in Others
      /\ "enable_evout" \in Others /\ "disable_evout" \in Others
      /\ "terminate_target_acquisition" \in Others /\ "xmit_observer_location" \in Others
  BY DEF Others
<1>1. "BUTTON" \notin Unfocusable
  BY DEF Unfocusable
<1>2. ASSUME NEW colour \in Colours PROVE Fitting(irclr(colour))
  <2> DEFINE ws == <<Button("MONO", "set_irclr_mono"), Button("SEPIA", "set_irclr_sepia"),
                     Button("SPECTRUM", "set_irclr_spectrum"),
                     Button("ISOTHERM", "set_irclr_isotherm"), Caption("IRCLR")>>
  <2>1. PlainList(ws)
    BY <1>0 DEF PlainList, List, Plain, Caption, Button, Widget, WidgetTypes, Freed
  <2>2. FocusableFirst(ws)
    BY DEF FocusableFirst, Unfocusable, Button, Caption, Widget
  <2> HIDE DEF ws
  <2>3. Fitting(Plan("IRCLR", ws, <<"BUTTON", colour>>))
    BY <1>1, <2>1, <2>2, PlainFits
  <2>4. QED BY <2>3 DEF irclr, OnButton, ws
<1>3. ASSUME NEW coordsys \in CoordSystems PROVE Fitting(coordsys_selection(coordsys))
  <2> DEFINE ws == <<Button("GEODETIC", "set_coordsys_geodetic"),
                     Button("UTM", "set_coordsys_utm"), Button("MGRS", "set_coordsys_mgrs"),
                     Caption("COORDSYS")>>
  <2>1. PlainList(ws)
    BY <1>0 DEF PlainList, List, Plain, Caption, Button, Widget, WidgetTypes, Freed
  <2>2. FocusableFirst(ws)
    BY DEF FocusableFirst, Unfocusable, Button, Caption, Widget
  <2> HIDE DEF ws
  <2>3. Fitting(Plan("SET_COORDSYS", ws, <<"BUTTON", coordsys>>))
    BY <1>1, <2>1, <2>2, PlainFits
  <2>4. QED BY <2>3 DEF coordsys_selection, OnButton, ws
<1>4. Fitting(cover_irlens)
  <2> DEFINE ws == <<Caption("COVER_IRLENS"), Button("CONFIRM", "update_nuc")>>
  <2>1. PlainList(ws)
    BY <1>0 DEF PlainList, List, Plain, Caption, Button, Widget, WidgetTypes, Freed
  <2>2. 2 \in DOMAIN ws /\ Ident(ws[2]) = <<"BUTTON", "CONFIRM">>
    BY DEF Ident, Button, Widget
  <2> HIDE DEF ws
  <2>3. Holds(ws, <<"BUTTON", "CONFIRM">>)
    BY <2>2 DEF Holds
  <2>4. Fitting(Plan("COVER_IRLENS", ws, <<"BUTTON", "CONFIRM">>))
    BY <1>1, <2>1, <2>3, PlainFits
  <2>5. QED BY <2>4 DEF cover_irlens, OnButton, ws
<1>5. Fitting(evout)
  <2> DEFINE ws == <<Caption("EVOUT"), Button("ON", "enable_evout"),
                     Button("OFF", "disable_evout")>>
  <2>1. PlainList(ws)
    BY <1>0 DEF PlainList, List, Plain, Caption, Button, Widget, WidgetTypes, Freed
  <2>2. 3 \in DOMAIN ws /\ Ident(ws[3]) = <<"BUTTON", "OFF">>
    BY DEF Ident, Button, Widget
  <2> HIDE DEF ws
  <2>3. Holds(ws, <<"BUTTON", "OFF">>)
    BY <2>2 DEF Holds
  <2>4. Fitting(Plan("EXTERN_VOUT", ws, <<"BUTTON", "OFF">>))
    BY <1>1, <2>1, <2>3, PlainFits
  <2>5. QED BY <2>4 DEF evout, OnButton, ws
<1>6. Fitting(gnss_status)
  <2> DEFINE ws == <<Button("CONFIRM", NULL), Widget("SVPLOT", "GNSS", NULL)>>
  <2>1. PlainList(ws)
    BY <1>0 DEF PlainList, List, Plain, Button, Widget, WidgetTypes, Freed
  <2>2. 1 \in DOMAIN ws /\ Ident(ws[1]) = <<"BUTTON", "CONFIRM">>
    BY DEF Ident, Button, Widget
  <2> HIDE DEF ws
  <2>3. Holds(ws, <<"BUTTON", "CONFIRM">>)
    BY <2>2 DEF Holds
  <2>4. Fitting(Plan("GNSS_STATUS", ws, <<"BUTTON", "CONFIRM">>))
    BY <1>1, <2>1, <2>3, PlainFits
  <2>5. QED BY <2>4 DEF gnss_status, OnButton, ws
<1>7. ASSUME NEW inProcess \in BOOLEAN PROVE Fitting(termtaq(inProcess))
  BY <1>0, ChoiceFits, NoPlanFits DEF termtaq
<1>8. ASSUME NEW userInput \in BOOLEAN, NEW online \in BOOLEAN
      PROVE  Fitting(xmit_obloc(userInput, online))
  <2> DEFINE ws == <<Button("CONFIRM", NULL), Caption("XMIT_OBLOC")>>
  <2>1. PlainList(ws)
    BY <1>0 DEF PlainList, List, Plain, Caption, Button, Widget, WidgetTypes, Freed
  <2>2. 1 \in DOMAIN ws /\ Ident(ws[1]) = <<"BUTTON", "CONFIRM">>
    BY DEF Ident, Button, Widget
  <2>3. Holds(ws, <<"BUTTON", "CONFIRM">>)
    BY <2>2 DEF Holds
  <2> HIDE DEF ws
  <2>4. Fitting(Plan("XMIT_OBLOC", ws, <<"BUTTON", "CONFIRM">>))
    BY <1>1, <2>1, <2>3, PlainFits
  <2>5. CASE userInput \/ online
    BY <1>0, <2>5, ChoiceFits DEF xmit_obloc
  <2>6. CASE ~(userInput \/ online)
    BY <2>4, <2>6 DEF xmit_obloc, OnButton, ws
  <2>7. QED BY <2>5, <2>6
<1>9. QED BY <1>2, <1>3, <1>4, <1>5, <1>6, <1>7, <1>8

(* The two creators that leave the focus alone: the buttons come first. *)
LEMMA XmitFits ==
  ASSUME NEW id, id # "TARGET_LIST", NEW location \in Others, NEW shift \in Others
  PROVE  Fitting(XmitInfo(id, location, shift))
<1> DEFINE ws == <<Button("TARGET_LOCATION", location), Button("TARGET_SHIFT", shift),
                   Button("CANCEL", NULL), Caption("SELECT_XMITINFO")>>
<1>0. NULL \in Others
  BY DEF Others
<1>1. PlainList(ws)
  BY <1>0 DEF PlainList, List, Plain, Caption, Button, Widget, WidgetTypes, Freed
<1>2. FocusableFirst(ws)
  BY DEF FocusableFirst, Unfocusable, Button, Caption, Widget
<1>3. \A w : Ident(w) # <<>>
  BY DEF Ident
<1> HIDE DEF ws
<1>4. Answered(ws)
  BY <1>1, OthersReadNothing DEF PlainList, Plain, Answered
<1>5. Fitting(Plan(id, ws, <<>>))
  BY <1>1, <1>2, <1>3, <1>4 DEF Fitting, Focusing, Plan, PlainList, Plain
<1>6. QED BY <1>5 DEF XmitInfo, ws

LEMMA XmitsFit == Fitting(select_xmitifno) /\ Fitting(select_xmitifno_at_list)
<1>1. /\ "xmit_target_location" \in Others /\ "xmit_target_shift" \in Others
      /\ "xmit_target_location_at_list" \in Others /\ "xmit_target_shift_at_list" \in Others
  BY DEF Others
<1>2. QED BY <1>1, XmitFits DEF select_xmitifno, select_xmitifno_at_list

(* The target list, whose grid is there to be moved over. *)
LEMMA TargetListFits == Fitting(target_list)
<1> DEFINE ws == list_buttons \o list_grid
<1>1. /\ List(ws) /\ DOMAIN ws = {1, 2, 3, 4, 5}
      /\ ws[1] = Button("DETAIL_INFO", "check_target_list")
      /\ ws[2] = Button("XMIT_TARGET", "check_target_list")
      /\ ws[3] = Button("DELETE_TARGET", "check_target_list")
      /\ ws[4] = Button("CLOSE", NULL) /\ ws[5] = Widget("GRID", "TARGET_LIST", NULL)
  BY DEF list_buttons, list_grid, List
<1> HIDE DEF ws
<1>2. "check_target_list" \in Others /\ NULL \in Others
  BY DEF Others
<1>3. \A i \in DOMAIN ws : ws[i].type \in WidgetTypes /\ ws[i].callback \in Others
  BY <1>1, <1>2 DEF Button, Widget, WidgetTypes, Freed
<1>4. Answered(ws)
  BY <1>3, OthersReadNothing DEF Answered
<1>5. Holds(ws, <<"GRID", "TARGET_LIST">>) /\ Holds(ws, <<"BUTTON", "CLOSE">>)
  BY <1>1 DEF Holds, Ident, Button, Widget
<1>6. ASSUME NEW k \in DOMAIN ws, Ident(ws[k]) = <<"BUTTON", "CLOSE">>
      PROVE  ws[k].type \notin Unfocusable
  BY <1>6 DEF Ident, Unfocusable
<1>7. Fitting(Plan("TARGET_LIST", ws, <<"BUTTON", "CLOSE">>))
  BY <1>1, <1>3, <1>4, <1>5, <1>6 DEF Fitting, Focusing, Plan
<1>8. QED BY <1>7 DEF target_list, OnButton, ws

(* All dialogs have fitting plans. *)
NoticesAsked == {"INVALID_OBLOC", "USER_OBLOC", "AUTO_OBLOC", "INVALID_RANGE",
                  "USER_RANGE", "AUTO_RANGE", "INVALID_GRIDVAR", "USER_GRIDVAR",
                  "AUTO_GRIDVAR", "ERROR_ANGLE_LIMIT", "ERROR_LRF_CTRL", "ERROR_SHTR_CTRL",
                  "ERROR_DISP_CTRL", "ERROR_IRCAM_CTRL", "ERROR_IRCAM_POWER",
                  "ERROR_EVOUT_CTRL", "UNKNOWN_ERROR", "MAGCOMP_OK", "MAGCOMP_ERRFOM",
                  "MAGCOMP_ERRCALC", "MAGCOMP_ERRDAQ", "MAGCOMP_ERRINIT",
                  "ERROR_ZERO_RANGE", "ERROR_TARGET_SHIFT", "ERROR_TARGET_SIZE",
                  "ERROR_GEODCALC", "ERROR_DMC_OFFLINE", "ERROR_GNSS_OFFLINE", "ERROR_TAQ",
                  "SUCCESS_XMIT", "SUCCESS_DMIF_TEST", "ERROR_TIMEOUT",
                  "ERROR_NACK_CANPRO2", "ERROR_NACK_CANPRO15", "ERROR_NACK_CANPRO19",
                  "ERROR_NACK_CANPRO25", "ERROR_GRIDVAR", "LOW_VOLTAGE", "BIT_PASS",
                  "BIT_FAIL", "NOFILE", "SUCCESS_FWUPDATE", "FAIL_FWUPDATE", "NOSDCARD"}

SimpleAsked == {"OBMODE", "IRGLV", "TARGET_LIST", "INPUT_GRIDVAR", "INPUT_OBLOC",
                 "INPUT_RANGE", "GNSS_STATUS", "EXTERN_VOUT", "DMIF_TEST", "SLEEP",
                 "SYSTEM_INFO", "TAQSEL", "EXIT_MAGCOMPMODE", "RETRY_MAGCOMP",
                 "APPLY_MAGPARM", "XMIT_TALOC", "SELECT_XMITINFO", "EXEC_BIT",
                 "COVER_IRLENS", "DELETE_TARGET", "TARGET_DETAIL", "SELECT_XMITINFO_TLIST",
                 "XMIT_TALOC_TLIST", "SHORTDIST", "MIDDIST", "LONGDIST", "DISTCHECK",
                 "AZM", "ALTT", "ANGLECHECK", "SENSOR", "SENSORCHECK", "IRCHECK",
                 "FWUPDATE", "INIT", "IRSCALEINPUT", "MOVE_IR"}

VariedAsked == {"ADJUST", "IREIS", "IRCLR", "IRHEQ", "XMIT_OBLOC", "SET_COORDSYS",
                 "TIME_CONFIG", "ENTER_MAGCOMPMODE", "TERMTAQ", "XMIT_DATA",
                 "SELECT_SHUTTER", "IRARRAY"}

LEMMA TableDomain == DOMAIN dialog_table = NoticesAsked \cup SimpleAsked \cup VariedAsked
BY DEF dialog_table, NoticesAsked, SimpleAsked, VariedAsked

LEMMA TableFits ==
  ASSUME NEW id \in DOMAIN dialog_table, NEW p \in dialog_table[id]
  PROVE  Fitting(p)
<1>1. ASSUME id \in NoticesAsked PROVE Fitting(p)
  <2>1. /\ dialog_table["INVALID_OBLOC"] = {invalid_obloc}
        /\ dialog_table["USER_OBLOC"] = {user_obloc}
        /\ dialog_table["AUTO_OBLOC"] = {auto_obloc}
        /\ dialog_table["INVALID_RANGE"] = {invalid_range}
        /\ dialog_table["USER_RANGE"] = {user_range}
        /\ dialog_table["AUTO_RANGE"] = {auto_range}
        /\ dialog_table["INVALID_GRIDVAR"] = {invalid_gridvar}
        /\ dialog_table["USER_GRIDVAR"] = {user_gridvar}
    BY DEF dialog_table
  <2>2. /\ dialog_table["AUTO_GRIDVAR"] = {auto_gridvar}
        /\ dialog_table["ERROR_ANGLE_LIMIT"] = {angle_error}
        /\ dialog_table["ERROR_LRF_CTRL"] = {lrfctrl_error}
        /\ dialog_table["ERROR_SHTR_CTRL"] = {shtrctrl_error}
        /\ dialog_table["ERROR_DISP_CTRL"] = {dispctrl_error}
        /\ dialog_table["ERROR_IRCAM_CTRL"] = {ircamctrl_error}
        /\ dialog_table["ERROR_IRCAM_POWER"] = {ircampwr_error}
        /\ dialog_table["ERROR_EVOUT_CTRL"] = {evoutctrl_error}
    BY DEF dialog_table
  <2>3. /\ dialog_table["UNKNOWN_ERROR"] = {unknown_error}
        /\ dialog_table["MAGCOMP_OK"] = {success_magcomp}
        /\ dialog_table["MAGCOMP_ERRFOM"] = {magcomp_errfom}
        /\ dialog_table["MAGCOMP_ERRCALC"] = {magcomp_errcalc}
        /\ dialog_table["MAGCOMP_ERRDAQ"] = {magcomp_errdaq}
        /\ dialog_table["MAGCOMP_ERRINIT"] = {magcomp_initerr}
        /\ dialog_table["ERROR_ZERO_RANGE"] = {error_zero_range}
        /\ dialog_table["ERROR_TARGET_SHIFT"] = {error_target_shift}
    BY DEF dialog_table
  <2>4. /\ dialog_table["ERROR_TARGET_SIZE"] = {error_target_size}
        /\ dialog_table["ERROR_GEODCALC"] = {error_geodcalc}
        /\ dialog_table["ERROR_DMC_OFFLINE"] = {error_dmc_offline}
        /\ dialog_table["ERROR_GNSS_OFFLINE"] = {error_gnss_offline}
        /\ dialog_table["ERROR_TAQ"] = {error_taq}
        /\ dialog_table["SUCCESS_XMIT"] = {success_xmit}
        /\ dialog_table["SUCCESS_DMIF_TEST"] = {success_dmif_test}
        /\ dialog_table["ERROR_TIMEOUT"] = {timeout}
    BY DEF dialog_table
  <2>5. /\ dialog_table["ERROR_NACK_CANPRO2"] = {nack_cantpro2}
        /\ dialog_table["ERROR_NACK_CANPRO15"] = {nack_cantpro15}
        /\ dialog_table["ERROR_NACK_CANPRO19"] = {nack_cantpro19}
        /\ dialog_table["ERROR_NACK_CANPRO25"] = {nack_cantpro25}
        /\ dialog_table["ERROR_GRIDVAR"] = {error_gridvar}
        /\ dialog_table["LOW_VOLTAGE"] = {low_voltage}
        /\ dialog_table["BIT_PASS"] = {bit_pass}
        /\ dialog_table["BIT_FAIL"] = {bit_fail}
    BY DEF dialog_table
  <2>6. /\ dialog_table["NOFILE"] = {fwupdate_nofile}
        /\ dialog_table["SUCCESS_FWUPDATE"] = {fwupdate_success}
        /\ dialog_table["FAIL_FWUPDATE"] = {fwupdate_fail}
        /\ dialog_table["NOSDCARD"] = {fwupdate_nosdcard}
    BY DEF dialog_table
  <2>7. QED BY <1>1, <2>1, <2>2, <2>3, <2>4, <2>5, <2>6, NoticesFit DEF NoticesAsked
<1>2. ASSUME id \in SimpleAsked PROVE Fitting(p)
  <2>1. /\ dialog_table["OBMODE"] = {obmode}
        /\ dialog_table["IRGLV"] = {irglv}
        /\ dialog_table["TARGET_LIST"] = {target_list}
        /\ dialog_table["INPUT_GRIDVAR"] = {input_gridvar}
        /\ dialog_table["INPUT_OBLOC"] = {input_obloc}
        /\ dialog_table["INPUT_RANGE"] = {input_range}
        /\ dialog_table["GNSS_STATUS"] = {gnss_status}
        /\ dialog_table["EXTERN_VOUT"] = {evout}
    BY DEF dialog_table
  <2>2. /\ dialog_table["DMIF_TEST"] = {dmif_test}
        /\ dialog_table["SLEEP"] = {standby_mode}
        /\ dialog_table["SYSTEM_INFO"] = {system_info}
        /\ dialog_table["TAQSEL"] = {taqsel}
        /\ dialog_table["EXIT_MAGCOMPMODE"] = {exit_magcompmode}
        /\ dialog_table["RETRY_MAGCOMP"] = {retry_magcomp}
        /\ dialog_table["APPLY_MAGPARM"] = {apply_magparm}
        /\ dialog_table["XMIT_TALOC"] = {xmit_taloc}
    BY DEF dialog_table
  <2>3. /\ dialog_table["SELECT_XMITINFO"] = {select_xmitifno}
        /\ dialog_table["EXEC_BIT"] = {exec_bit}
        /\ dialog_table["COVER_IRLENS"] = {cover_irlens}
        /\ dialog_table["DELETE_TARGET"] = {delete_target}
        /\ dialog_table["TARGET_DETAIL"] = {target_detail}
        /\ dialog_table["SELECT_XMITINFO_TLIST"] = {select_xmitifno_at_list}
        /\ dialog_table["XMIT_TALOC_TLIST"] = {xmit_taloc_at_list}
        /\ dialog_table["SHORTDIST"] = {short_distance_correct}
    BY DEF dialog_table
  <2>4. /\ dialog_table["MIDDIST"] = {middle_distance_correct}
        /\ dialog_table["LONGDIST"] = {long_distance_correct}
        /\ dialog_table["DISTCHECK"] = {distance_correct_check}
        /\ dialog_table["AZM"] = {azimuth_correct}
        /\ dialog_table["ALTT"] = {altitude_correct}
        /\ dialog_table["ANGLECHECK"] = {angle_correct_check}
        /\ dialog_table["SENSOR"] = {sensor_correct}
        /\ dialog_table["SENSORCHECK"] = {sensor_correct_check}
    BY DEF dialog_table
  <2>5. /\ dialog_table["IRCHECK"] = {ir_array_check}
        /\ dialog_table["FWUPDATE"] = {firmware_update}
        /\ dialog_table["INIT"] = {correct_init}
        /\ dialog_table["IRSCALEINPUT"] = {ir_scale_input}
        /\ dialog_table["MOVE_IR"] = {ir_move}
    BY DEF dialog_table
  <2>6. QED BY <1>2, <2>1, <2>2, <2>3, <2>4, <2>5, ChoicesFit, CorrectionsFit,
           InputsFit, ChecksFit, SlidersFit,
           QuestionsFit, XmitsFit, TargetListFits DEF SimpleAsked
<1>3. ASSUME id \in VariedAsked PROVE Fitting(p)
  <2>1. /\ dialog_table["ADJUST"] = {display_adjust(r) : r \in BOOLEAN}
        /\ dialog_table["IREIS"] = {ireis(e) : e \in BOOLEAN}
        /\ dialog_table["IRCLR"] = {irclr(k) : k \in Colours}
        /\ dialog_table["IRHEQ"] = {irheq(h) : h \in BOOLEAN}
        /\ dialog_table["XMIT_OBLOC"] = {xmit_obloc(u, o) : u, o \in BOOLEAN}
        /\ dialog_table["SET_COORDSYS"] = {coordsys_selection(s) : s \in CoordSystems}
        /\ dialog_table["TIME_CONFIG"] = {timeset(tm) : tm \in BOOLEAN}
        /\ dialog_table["ENTER_MAGCOMPMODE"] = {enter_magcompmode(k) : k \in BOOLEAN}
    BY DEF dialog_table
  <2>2. /\ dialog_table["TERMTAQ"] = {termtaq(b) : b \in BOOLEAN}
        /\ dialog_table["XMIT_DATA"] = {auto_xmit(k) : k \in BOOLEAN}
        /\ dialog_table["SELECT_SHUTTER"] = {select_shutter(k) : k \in BOOLEAN}
        /\ dialog_table["IRARRAY"] = {ir_array(r) : r \in BOOLEAN}
    BY DEF dialog_table
  <2>3. QED BY <1>3, <2>1, <2>2, ChoicesFit, SlidersFit, TimeFits, QuestionsFit DEF VariedAsked
<1>4. QED BY <1>1, <1>2, <1>3, TableDomain

(* The least of a set of numbers. *)
LEMMA LeastNumber ==
  ASSUME NEW S, S \subseteq Nat, S # {}
  PROVE  \E s \in S : \A t \in S : s <= t
<1>1. PICK s \in S : \A t \in S : ~(<<t, s>> \in OpToRel(<, Nat))
  BY NatLessThanWellFounded, WFMin
<1>2. \A t \in S : t < s => <<t, s>> \in OpToRel(<, Nat)
  BY DEF OpToRel
<1>3. ASSUME NEW t \in S PROVE s <= t
  <2>1. ~(t < s)
    BY <1>1, <1>2
  <2>2. QED BY <2>1
<1>4. QED BY <1>3

-----------------------------------------------------------------------------
(* The dialog that is built and used.  Its plan is fitting; the list holds the
   places of the plan in order, and what was made is on it or was dropped. *)
Alive == phase \in {"building", "open"}

Ranges ==
  /\ phase \in {"idle", "building", "open", "hung"}
  /\ asked \in DOMAIN dialog_table \cup {"none"}
  /\ Fitting(plan)
  /\ made \in 0..Len(plan.widgets) /\ heap \subseteq 0..Len(plan.widgets)
  /\ dropped \subseteq 1..made
  /\ list \in Seq(Nat) /\ focus \in 0..Len(list)
  /\ \A q \in 1..Len(list) : list[q] \in 1..made

Accounted ==
  /\ \A q, r \in 1..Len(list) : q < r => list[q] < list[r]
  /\ Alive => /\ heap \subseteq 0..made
              /\ \A i \in 1..made : i \in dropped \/ \E q \in 1..Len(list) : list[q] = i

Stages ==
  /\ phase = "building" => focus = IF list = <<>> THEN 0 ELSE 1
  /\ phase = "open" => made = Len(plan.widgets) /\ plan.complete
  /\ phase = "idle" => list = <<>> /\ focus = 0

DialogInv ==
  /\ Ranges /\ Accounted /\ Stages
  /\ HangCause /\ DeafCause /\ NothingLeaks

(* The places of a fitting plan. *)
LEMMA PlanPlaces ==
  ASSUME Ranges
  PROVE  /\ Len(plan.widgets) \in Nat /\ DOMAIN plan.widgets = 1..Len(plan.widgets)
         /\ \A i \in 1..Len(plan.widgets) : plan.widgets[i].type \in WidgetTypes
         /\ made \in Nat /\ Len(list) \in Nat
         /\ \A q \in 1..Len(list) : list[q] \in 1..Len(plan.widgets)
BY DEF Ranges, Fitting, List

LEMMA DialogInitInv == DialogInit => DialogInv
<1> SUFFICES ASSUME DialogInit PROVE DialogInv
  OBVIOUS
<1>1. Len(plan.widgets) = 0
  BY DEF DialogInit, NoPlan, GivesUp
<1>2. Ranges
  BY <1>1, NoPlanFits DEF DialogInit, Ranges
<1>3. Accounted /\ Stages
  BY <1>1 DEF DialogInit, Accounted, Stages, Alive
<1>4. QED
  BY <1>2, <1>3 DEF DialogInit, DialogInv, HangCause, DeafCause, NothingLeaks

(* A step that leaves the dialog as it is. *)
LEMMA DialogStutters == DialogInv /\ UNCHANGED dialogVars => DialogInv'
BY DEF DialogInv, Ranges, Accounted, Stages, Alive, HangCause, DeafCause, NothingLeaks, dialogVars,
       Attends, Focused, At, Lost, Positions

(* An identifier the whole dialog holds is on the list, or was dropped. *)
LEMMA HeldOrDropped ==
  ASSUME DialogInv, phase = "open", NEW type, NEW name, Holds(plan.widgets, <<type, name>>),
         ~Has(type, name)
  PROVE  \E i \in dropped : Ident(plan.widgets[i]) = <<type, name>> /\ plan.widgets[i].type = type
<1>1. PICK k \in DOMAIN plan.widgets : Ident(plan.widgets[k]) = <<type, name>>
  BY DEF Holds
<1>2. k \in 1..made
  BY <1>1, PlanPlaces DEF DialogInv, Stages
<1>3. ASSUME NEW q \in 1..Len(list), list[q] = k PROVE FALSE
  BY <1>1, <1>3 DEF Has, Positions, At
<1>4. k \in dropped
  BY <1>2, <1>3 DEF DialogInv, Accounted, Alive
<1>5. plan.widgets[k].type = type
  BY <1>1 DEF Ident
<1>6. QED BY <1>1, <1>4, <1>5

(* Who looks for a widget in vain has lost it. *)
LEMMA Hung ==
  ASSUME DialogInv, phase = "open", Spin,
         NEW type \in {"SPINBOX", "GRID"}, NEW name, Holds(plan.widgets, <<type, name>>),
         ~Has(type, name)
  PROVE  DialogInv'
<1>1. HangCause'
  BY HeldOrDropped DEF Spin, HangCause
<1>2. (Ranges /\ Accounted /\ Stages)'
  BY DEF DialogInv, Spin, Ranges, Accounted, Stages, Alive
<1>3. QED
  BY <1>1, <1>2 DEF DialogInv, Spin, DeafCause, NothingLeaks

LEMMA HungOnCallback ==
  ASSUME DialogInv, phase = "open", focus # 0, Missing(Focused.callback), Spin
  PROVE  DialogInv'
<1>1. PICK j \in DOMAIN Reads(Focused.callback) : ~Has("SPINBOX", Reads(Focused.callback)[j])
  BY DEF Missing
<1>2. focus \in 1..Len(list)
  BY DEF DialogInv, Ranges
<1>3. list[focus] \in DOMAIN plan.widgets
  BY <1>2, PlanPlaces DEF DialogInv
<1>4. Answered(plan.widgets)
  BY DEF DialogInv, Ranges, Stages, Fitting
<1>5. Holds(plan.widgets, <<"SPINBOX", Reads(Focused.callback)[j]>>)
  BY <1>1, <1>3, <1>4 DEF Answered, Focused, At
<1>6. QED BY <1>1, <1>5, Hung

(* What is left of a dialog that goes away. *)
LEMMA Gone ==
  ASSUME DialogInv, Alive, phase' = "idle", list' = <<>>, focus' = 0,
         UNCHANGED <<plan, made, dropped>>,
         asked' \in DOMAIN dialog_table \cup {"none"},
         heap' \subseteq 0..Len(plan.widgets),
         \A i \in heap' : \/ i \in heap \ ({0} \cup remove_widgets)
                          \/ i # 0 /\ plan.widgets[i].type = "GRID"
  PROVE  DialogInv'
<1>1. (Ranges /\ Accounted /\ Stages)'
  BY DEF DialogInv, Ranges, Accounted, Stages, Alive
<1>2. ASSUME NEW i \in heap' PROVE i \in dropped \/ (i # 0 /\ plan.widgets[i].type = "GRID")
  <2>1. CASE i \in heap \ ({0} \cup remove_widgets)
    <3>1. i \in 1..made
      BY <2>1, PlanPlaces DEF DialogInv, Accounted
    <3>2. CASE i \in dropped
      BY <3>2
    <3>3. CASE i \notin dropped
      <4>1. PICK q \in 1..Len(list) : list[q] = i
        BY <3>1, <3>3 DEF DialogInv, Accounted
      <4>2. plan.widgets[i].type \notin Freed
        BY <2>1, <4>1 DEF remove_widgets, Positions, At
      <4>3. plan.widgets[i].type \in WidgetTypes
        BY <4>1, PlanPlaces DEF DialogInv
      <4>4. QED BY <3>1, <4>2, <4>3 DEF WidgetTypes
    <3>4. QED BY <3>2, <3>3
  <2>2. QED BY <1>2, <2>1
<1>3. NothingLeaks'
  BY <1>2 DEF NothingLeaks
<1>4. QED
  BY <1>1, <1>3 DEF DialogInv, HangCause, DeafCause

LEMMA Replaced ==
  ASSUME DialogInv, Alive, Destroyed, asked' \in DOMAIN dialog_table \cup {"none"}
  PROVE  DialogInv'
<1>1. heap' \subseteq 0..Len(plan.widgets)
  BY DEF Destroyed, DialogInv, Ranges
<1>2. QED BY <1>1, Gone DEF Destroyed

-----------------------------------------------------------------------------
(* Building: one lemma for each step. *)

LEMMA AskInv == ASSUME DialogInv, NEW id \in DOMAIN dialog_table, Ask(id) PROVE DialogInv'
<1>1. Len(plan'.widgets) = 0
  BY DEF Ask, NoPlan, GivesUp
<1>2. Ranges'
  BY <1>1, NoPlanFits DEF DialogInv, Ranges, Stages, Ask
<1>3. (Accounted /\ Stages)'
  BY DEF DialogInv, Accounted, Stages, Alive, Ask
<1>4. QED
  BY <1>2, <1>3 DEF Ask, DialogInv, HangCause, DeafCause, NothingLeaks

LEMMA CreateInv == DialogInv /\ Create => DialogInv'
<1> SUFFICES ASSUME DialogInv, Create PROVE DialogInv'
  OBVIOUS
<1>1. PICK p \in dialog_table[asked] :
        IF p = NoPlan
          THEN asked' = "none" /\ UNCHANGED <<phase, plan, made, heap, dropped>>
          ELSE /\ phase' = "building" /\ plan' = p /\ UNCHANGED asked
               /\ made' = 0 /\ heap' = {0} /\ dropped' = {}
  BY DEF Create
<1>2. phase = "idle" /\ list' = list /\ focus' = focus /\ list = <<>> /\ focus = 0
  BY DEF Create, DialogInv, Stages
<1>3. CASE p = NoPlan
  <2>1. asked' = "none" /\ UNCHANGED <<phase, plan, made, list, focus, heap, dropped>>
    BY <1>1, <1>2, <1>3
  <2>2. (Ranges /\ Accounted /\ Stages)'
    BY <2>1 DEF DialogInv, Ranges, Accounted, Stages, Alive
  <2>3. QED BY <1>2, <2>1, <2>2 DEF DialogInv, HangCause, DeafCause, NothingLeaks
<1>4. CASE p # NoPlan
  <2>1. Fitting(plan')
    BY <1>1, <1>4, TableFits DEF Create, DialogInv, Ranges
  <2>2. Len(plan'.widgets) \in Nat
    BY <2>1 DEF Fitting, List
  <2>3. (Ranges /\ Accounted /\ Stages)'
    BY <1>1, <1>2, <1>4, <2>1, <2>2 DEF DialogInv, Ranges, Accounted, Stages, Alive
  <2>4. QED
    BY <1>1, <1>4, <2>3 DEF DialogInv, HangCause, DeafCause, NothingLeaks
<1>5. QED BY <1>3, <1>4

LEMMA CreateFailsInv == DialogInv /\ CreateFails => DialogInv'
BY DEF CreateFails, DialogInv, Ranges, Accounted, Stages, Alive, HangCause, DeafCause, NothingLeaks

LEMMA AddWidgetInv == DialogInv /\ AddWidget => DialogInv'
<1> SUFFICES ASSUME DialogInv, AddWidget PROVE DialogInv'
  OBVIOUS
<1>1. /\ phase = "building" /\ made < Len(plan.widgets) /\ made' = made + 1
      /\ heap' = heap \cup {made'} /\ list' = Append(list, made') /\ focus' = 1
      /\ UNCHANGED <<asked, phase, plan, dropped>>
  BY DEF AddWidget, Building
<1>2. made \in Nat /\ made' \in Nat /\ Len(plan.widgets) \in Nat /\ made' \in 1..Len(plan.widgets)
  BY <1>1, PlanPlaces DEF DialogInv
<1>3. /\ list \in Seq(Nat) /\ list' \in Seq(Nat) /\ Len(list') = Len(list) + 1 /\ Len(list) \in Nat
      /\ \A q \in 1..Len(list) : list'[q] = list[q] /\ list[q] \in 1..made
      /\ list'[Len(list) + 1] = made'
  BY <1>1, <1>2 DEF DialogInv, Ranges
<1>4. Ranges'
  <2>1. \A q \in 1..Len(list') : list'[q] \in 1..made'
    BY <1>1, <1>2, <1>3
  <2>2. dropped' \subseteq 1..made' /\ heap' \subseteq 0..Len(plan'.widgets)
    BY <1>1, <1>2 DEF DialogInv, Ranges
  <2>3. QED BY <1>1, <1>2, <1>3, <2>1, <2>2 DEF DialogInv, Ranges
<1>5. Accounted'
  <2>1. \A q, r \in 1..Len(list') : q < r => list'[q] < list'[r]
    BY <1>1, <1>2, <1>3 DEF DialogInv, Accounted
  <2>2. heap' \subseteq 0..made'
    BY <1>1, <1>2 DEF DialogInv, Accounted, Alive
  <2>3. ASSUME NEW i \in 1..made'
        PROVE  i \in dropped' \/ \E q \in 1..Len(list') : list'[q] = i
    <3>1. CASE i = made'
      BY <1>3, <3>1
    <3>2. CASE i \in 1..made
      BY <1>1, <1>3, <3>2 DEF DialogInv, Accounted, Alive
    <3>3. QED BY <1>1, <1>2, <3>1, <3>2
  <2>4. QED BY <2>1, <2>2, <2>3 DEF Accounted
<1>6. Stages'
  BY <1>1, <1>3 DEF Stages
<1>7. QED
  BY <1>1, <1>4, <1>5, <1>6 DEF DialogInv, HangCause, DeafCause, NothingLeaks

LEMMA AddFailsInv == DialogInv /\ AddFails => DialogInv'
<1> SUFFICES ASSUME DialogInv, AddFails PROVE DialogInv'
  OBVIOUS
<1>1. /\ phase = "building" /\ made < Len(plan.widgets) /\ made' = made + 1
      /\ heap' = heap \cup {made'} /\ dropped' = dropped \cup {made'}
      /\ UNCHANGED <<asked, phase, plan, list, focus>>
  BY DEF AddFails, Building
<1>2. made \in Nat /\ made' \in Nat /\ Len(plan.widgets) \in Nat /\ made' \in 1..Len(plan.widgets)
  BY <1>1, PlanPlaces DEF DialogInv
<1>3. Ranges'
  <2>1. \A q \in 1..Len(list') : list'[q] \in 1..made'
    BY <1>1, <1>2 DEF DialogInv, Ranges
  <2>2. dropped' \subseteq 1..made' /\ heap' \subseteq 0..Len(plan'.widgets)
    BY <1>1, <1>2 DEF DialogInv, Ranges
  <2>3. QED BY <1>1, <1>2, <2>1, <2>2 DEF DialogInv, Ranges
<1>4. Accounted'
  <2>1. heap' \subseteq 0..made'
    BY <1>1, <1>2 DEF DialogInv, Accounted, Alive
  <2>2. ASSUME NEW i \in 1..made'
        PROVE  i \in dropped' \/ \E q \in 1..Len(list') : list'[q] = i
    BY <1>1, <1>2 DEF DialogInv, Accounted, Alive
  <2>3. QED BY <1>1, <2>1, <2>2 DEF DialogInv, Accounted
<1>5. Stages'
  BY <1>1 DEF DialogInv, Stages
<1>6. QED
  BY <1>1, <1>3, <1>4, <1>5 DEF DialogInv, HangCause, DeafCause, NothingLeaks

LEMMA WidgetFailsInv == DialogInv /\ WidgetFails => DialogInv'
<1> SUFFICES ASSUME DialogInv, WidgetFails PROVE DialogInv'
  OBVIOUS
<1>1. phase = "building" /\ made < Len(plan.widgets) /\ asked' = "none" /\ Alive
  BY DEF WidgetFails, Building, Alive
<1>2. CASE Destroyed
  BY <1>1, <1>2, Replaced
<1>3. CASE /\ plan.widgets[made + 1].type = "GRID"
           /\ phase' = "idle"
           /\ heap' = (heap \ ({0} \cup remove_widgets)) \cup {made + 1}
           /\ list' = <<>> /\ focus' = 0
           /\ UNCHANGED <<plan, made, dropped>>
  <2>1. made + 1 \in 1..Len(plan.widgets) /\ made + 1 # 0
    BY <1>1, PlanPlaces DEF DialogInv
  <2>2. heap' \subseteq 0..Len(plan.widgets)
    <3>1. made + 1 \in 0..Len(plan.widgets)
      BY <2>1, PlanPlaces DEF DialogInv
    <3>2. QED BY <1>3, <3>1 DEF DialogInv, Ranges
  <2>3. QED BY <1>1, <1>3, <2>1, <2>2, Gone
<1>4. QED BY <1>2, <1>3 DEF WidgetFails

LEMMA GiveUpInv == DialogInv /\ GiveUp => DialogInv'
BY Replaced DEF GiveUp, Alive

(* Show leaves the focus where a key is heard, unless what could hear it is lost:
   the first widget with the identifier asked for; or the head of the list, and
   when that is a caption, nothing on the list comes before it. *)
LEMMA ShowInv == DialogInv /\ Show => DialogInv'
<1> SUFFICES ASSUME DialogInv, Show PROVE DialogInv'
  OBVIOUS
<1> DEFINE found == {k \in 1..Len(list) : Ident(At(k)) = plan.focus}
<1>1. /\ phase = "building" /\ made = Len(plan.widgets) /\ plan.complete /\ phase' = "open"
      /\ UNCHANGED <<asked, plan, made, list, heap, dropped>>
      /\ focus' = IF found = {} THEN focus ELSE CHOOSE k \in found : \A j \in found : k <= j
  BY DEF Show, setFocus, Positions
<1>2. Len(list) \in Nat /\ Len(plan.widgets) \in Nat /\ DOMAIN plan.widgets = 1..Len(plan.widgets)
      /\ \A q \in 1..Len(list) : list[q] \in 1..Len(plan.widgets)
  BY PlanPlaces DEF DialogInv
<1>3. found # {} => focus' \in found
  <2>1. SUFFICES ASSUME found # {} PROVE focus' \in found
    OBVIOUS
  <2>2. found \subseteq Nat
    BY <1>2
  <2> HIDE DEF found
  <2>3. \E k \in found : \A j \in found : k <= j
    BY <2>1, <2>2, LeastNumber
  <2>4. QED BY <1>1, <2>1, <2>3
<1>4. focus' \in 0..Len(list)
  <2>1. CASE found # {}
    BY <1>2, <1>3, <2>1
  <2>2. CASE found = {}
    <3>1. focus' = focus
      BY <1>1, <2>2
    <3>2. QED BY <3>1 DEF DialogInv, Ranges
  <2>3. QED BY <2>1, <2>2
<1>5. (Ranges /\ Accounted /\ Stages)'
  BY <1>1, <1>4 DEF DialogInv, Ranges, Accounted, Stages, Alive
<1>6. ASSUME ~Attends'
      PROVE  \/ Lost(plan.focus)
             \/ \A i \in DOMAIN plan.widgets :
                  plan.widgets[i].type \notin Unfocusable => i \in dropped
  <2>0. UNCHANGED <<plan, list>>
    BY <1>1
  <2>1. Focusing(plan)
    BY DEF DialogInv, Ranges, Fitting
  <2>2. \A i \in DOMAIN plan.widgets : i \in dropped \/ \E q \in 1..Len(list) : list[q] = i
    BY <1>1, <1>2 DEF DialogInv, Accounted, Alive
  <2>3. CASE found # {}
    <3>1. focus' \in 1..Len(list) /\ Ident(At(focus')) = plan.focus
      BY <1>3, <2>3
    <3>2. list[focus'] \in DOMAIN plan.widgets /\ At(focus') = plan.widgets[list[focus']]
      BY <1>2, <3>1 DEF At
    <3>3. At(focus').type \notin Unfocusable
      BY <2>1, <3>1, <3>2 DEF Focusing
    <3>4. Attends'
      BY <2>0, <3>1, <3>3 DEF Attends, Focused, At
    <3>5. QED BY <1>6, <3>4
  <2>4. CASE found = {} /\ Holds(plan.widgets, plan.focus)
    <3>1. PICK k \in DOMAIN plan.widgets : Ident(plan.widgets[k]) = plan.focus
      BY <2>4 DEF Holds
    <3>2. \A q \in 1..Len(list) : list[q] # k
      BY <2>4, <3>1 DEF At
    <3>3. QED BY <2>2, <3>1, <3>2 DEF Lost
  <2>5. CASE found = {} /\ FocusableFirst(plan.widgets)
    <3>1. focus' = IF list = <<>> THEN 0 ELSE 1
      BY <1>1, <2>5 DEF DialogInv, Stages
    <3>2. ASSUME NEW i \in DOMAIN plan.widgets, plan.widgets[i].type \notin Unfocusable,
                 i \notin dropped
          PROVE  FALSE
      <4>1. PICK q \in 1..Len(list) : list[q] = i
        BY <2>2, <3>2
      <4>2. list # <<>> /\ 1 \in 1..Len(list)
        BY <1>2, <4>1
      <4>3. focus' = 1 /\ list[1] \in DOMAIN plan.widgets
        BY <1>2, <3>1, <4>2
      <4>4. plan.widgets[list[1]].type \in Unfocusable
        BY <1>6, <2>0, <4>3 DEF Attends, Focused, At
      <4>5. i < list[1]
        BY <2>5, <3>2, <4>3, <4>4 DEF FocusableFirst
      <4>6. q # 1 /\ 1 < q
        BY <1>2, <4>1, <4>5
      <4>7. list[1] < list[q]
        BY <4>2, <4>6 DEF DialogInv, Accounted
      <4>8. QED BY <1>2, <4>1, <4>3, <4>5, <4>7
    <3>3. QED BY <3>2
  <2>6. QED BY <2>1, <2>3, <2>4, <2>5 DEF Focusing
<1>7. DeafCause'
  BY <1>1, <1>6 DEF DeafCause, Lost
<1>8. QED
  BY <1>1, <1>5, <1>7 DEF DialogInv, HangCause, NothingLeaks

-----------------------------------------------------------------------------
(* Keys. *)

(* A turn of the ring ends at a place that can have the focus: after as many
   steps as there are widgets it is back where it was. *)
LEMMA Round ==
  ASSUME NEW size \in Nat \ {0}, NEW n \in 1..size
  PROVE  /\ \A d \in 1..size : ((n + d - 1) % size) + 1 \in 1..size
         /\ \A d \in 1..size : ((n + size - d - 1) % size) + 1 \in 1..size
         /\ ((n + size - 1) % size) + 1 = n /\ ((n + size - size - 1) % size) + 1 = n
<1>1. ASSUME NEW k \in Int PROVE (k % size) + 1 \in 1..size
  OBVIOUS
<1>2. (n + size - 1) % size = n - 1
  OBVIOUS
<1>3. (n - 1) % size = n - 1 /\ n + size - size - 1 = n - 1
  OBVIOUS
<1>4. QED BY <1>1, <1>2, <1>3

LEMMA Turned ==
  ASSUME DialogInv, Attends
  PROVE  /\ focusNext \in Positions /\ At(focusNext).type \notin Unfocusable
         /\ focusPrev \in Positions /\ At(focusPrev).type \notin Unfocusable
<1>1. Len(list) \in Nat \ {0} /\ focus \in 1..Len(list) /\ Positions = 1..Len(list)
  BY DEF DialogInv, Ranges, Attends, Positions
<1>2. At(focus).type \notin Unfocusable
  BY DEF Attends, Focused
<1>3. focusNext \in Positions /\ At(focusNext).type \notin Unfocusable
  <2> DEFINE may == {d \in Positions : At(Ring(focus + d)).type \notin Unfocusable}
  <2>1. \A d \in Positions : Ring(focus + d) \in Positions
    BY <1>1, Round DEF Ring
  <2>2. Ring(focus + Len(list)) = focus
    <3>1. ((focus + Len(list) - 1) % Len(list)) + 1 = focus
      BY <1>1, Round
    <3>2. QED BY <1>1, <3>1 DEF Ring
  <2>3. may # {} /\ may \subseteq Nat
    BY <1>1, <1>2, <2>2
  <2>4. PICK d \in may : focusNext = Ring(focus + d)
    <3>1. focusNext = LET dist == CHOOSE d \in may : \A e \in may : d <= e
               IN  Ring(focus + dist)
      BY DEF focusNext, Turn
    <3>2. \E d \in may : \A e \in may : d <= e
      <4> HIDE DEF may
      <4>1. QED BY <2>3, LeastNumber
    <3>3. (CHOOSE d \in may : \A e \in may : d <= e) \in may
      <4> HIDE DEF may
      <4>1. QED BY <3>2
    <3> HIDE DEF may
    <3>4. QED BY <3>1, <3>3
  <2>5. QED BY <2>1, <2>4
<1>4. focusPrev \in Positions /\ At(focusPrev).type \notin Unfocusable
  <2> DEFINE may == {d \in Positions : At(Ring(focus + Len(list) - d)).type \notin Unfocusable}
  <2>1. \A d \in Positions : Ring(focus + Len(list) - d) \in Positions
    BY <1>1, Round DEF Ring
  <2>2. Ring(focus + Len(list) - Len(list)) = focus
    BY <1>1, Round DEF Ring
  <2>3. may # {} /\ may \subseteq Nat
    BY <1>1, <1>2, <2>2
  <2>4. PICK d \in may : focusPrev = Ring(focus + Len(list) - d)
    <3>1. focusPrev = LET dist == CHOOSE d \in may : \A e \in may : d <= e
               IN  Ring(focus + Len(list) - dist)
      BY DEF focusPrev, Turn
    <3>2. \E d \in may : \A e \in may : d <= e
      <4> HIDE DEF may
      <4>1. QED BY <2>3, LeastNumber
    <3>3. (CHOOSE d \in may : \A e \in may : d <= e) \in may
      <4> HIDE DEF may
      <4>1. QED BY <3>2
    <3> HIDE DEF may
    <3>4. QED BY <3>1, <3>3
  <2>5. QED BY <2>1, <2>4
<1>5. QED BY <1>3, <1>4

LEMMA MoveFocusInv == DialogInv /\ MoveFocus => DialogInv'
<1> SUFFICES ASSUME DialogInv, MoveFocus PROVE DialogInv'
  OBVIOUS
<1>1. /\ phase = "open" /\ Attends /\ focus' \in {focusNext, focusPrev}
      /\ UNCHANGED <<asked, phase, plan, made, list, heap, dropped>>
  BY DEF MoveFocus, On, Attends, Unfocusable
<1>2. focus' \in 1..Len(list) /\ At(focus').type \notin Unfocusable
  BY <1>1, Turned DEF Positions
<1>3. Attends'
  BY <1>1, <1>2 DEF Attends, Focused, At, DialogInv, Ranges
<1>4. (Ranges /\ Accounted /\ Stages)'
  BY <1>1, <1>2 DEF DialogInv, Ranges, Accounted, Stages, Alive
<1>5. QED
  BY <1>1, <1>3, <1>4 DEF DialogInv, HangCause, DeafCause, NothingLeaks

LEMMA HideInv == ASSUME DialogInv, phase = "open", Hide PROVE DialogInv'
BY Replaced DEF Hide, Replace, Alive

LEMMA MoveRowInv == DialogInv /\ MoveRow => DialogInv'
<1> SUFFICES ASSUME DialogInv, MoveRow PROVE DialogInv'
  OBVIOUS
<1>1. phase = "open" /\ plan.id = "TARGET_LIST"
  BY DEF MoveRow, On
<1>2. Holds(plan.widgets, <<"GRID", "TARGET_LIST">>)
  BY <1>1 DEF DialogInv, Ranges, Fitting
<1>3. CASE Has("GRID", "TARGET_LIST") /\ Hide
  BY <1>1, <1>3, HideInv
<1>4. CASE ~Has("GRID", "TARGET_LIST") /\ Spin
  BY <1>1, <1>2, <1>4, Hung
<1>5. QED BY <1>3, <1>4 DEF MoveRow

LEMMA PressButtonInv == DialogInv /\ PressButton => DialogInv'
<1> SUFFICES ASSUME DialogInv, PressButton PROVE DialogInv'
  OBVIOUS
<1>1. phase = "open" /\ focus # 0
  BY DEF PressButton, On
<1>2. CASE Missing(Focused.callback) /\ Spin
  BY <1>1, <1>2, HungOnCallback
<1>3. ASSUME NEW next \in AfterButton, Replace(next) PROVE DialogInv'
  <2>1. AfterButton \subseteq {"none", "ERROR_IRCAM_POWER", "ERROR_SHTR_CTRL", "MOVE_IR",
                               "NOFILE", "SUCCESS_FWUPDATE", "FAIL_FWUPDATE", "NOSDCARD"}
    BY DEF AfterButton
  <2>2. next \in DOMAIN dialog_table \cup {"none"}
    BY <2>1, TableDomain DEF NoticesAsked, SimpleAsked
  <2>3. QED BY <1>1, <1>3, <2>2, Replaced DEF Replace, Alive
<1>4. QED BY <1>2, <1>3 DEF PressButton

LEMMA SlideFailsInv == DialogInv /\ SlideFails => DialogInv'
<1> SUFFICES ASSUME DialogInv, SlideFails PROVE DialogInv'
  OBVIOUS
<1>1. phase = "open"
  BY DEF SlideFails, On
<1>2. PICK next \in {"ERROR_IRCAM_CTRL", "ERROR_DISP_CTRL"} : Replace(next)
  BY DEF SlideFails
<1>3. next \in DOMAIN dialog_table \cup {"none"}
  BY TableDomain DEF NoticesAsked
<1>4. QED BY <1>1, <1>2, <1>3, Replaced DEF Replace, Alive

LEMMA ChangeValueInv == DialogInv /\ ChangeValue => DialogInv'
BY HungOnCallback, DialogStutters DEF ChangeValue, On

LEMMA KeyInv == DialogInv /\ Key => DialogInv'
<1> SUFFICES ASSUME DialogInv, Key PROVE DialogInv'
  OBVIOUS
<1>1. CASE MoveFocus \/ MoveRow \/ PressButton \/ SlideFails \/ ChangeValue
  BY <1>1, MoveFocusInv, MoveRowInv, PressButtonInv, SlideFailsInv, ChangeValueInv
<1>2. CASE HoldButton \/ CloseSlider \/ CloseSpinbox
  BY <1>2, HideInv DEF HoldButton, CloseSlider, CloseSpinbox, On
<1>3. CASE Select
  BY <1>3, HideInv, DialogStutters DEF Select, On
<1>4. CASE IgnoreKey
  BY <1>4, DialogStutters DEF IgnoreKey
<1>5. QED BY <1>1, <1>2, <1>3, <1>4 DEF Key

LEMMA DialogStep == DialogInv /\ [DialogNext]_dialogVars => DialogInv'
<1> SUFFICES ASSUME DialogInv, [DialogNext]_dialogVars PROVE DialogInv'
  OBVIOUS
<1>1. ASSUME NEW id \in DOMAIN dialog_table, Ask(id) PROVE DialogInv'
  BY <1>1, AskInv
<1>2. CASE Build
  BY <1>2, CreateInv, CreateFailsInv, AddWidgetInv, AddFailsInv, WidgetFailsInv, ShowInv, GiveUpInv
     DEF Build
<1>3. CASE Key
  BY <1>3, KeyInv
<1>4. CASE KeepSpinning \/ UNCHANGED dialogVars
  BY <1>4, DialogStutters DEF KeepSpinning
<1>5. QED BY <1>1, <1>2, <1>3, <1>4 DEF DialogNext

THEOREM DialogInvariant == DialogSpec => []DialogInv
BY DialogInitInv, DialogStep, PTL DEF DialogSpec

(* The places of a dialog's plan stay places of that plan: what was made, what
   is on the widget list, what was dropped and what is on the heap. *)
THEOREM DialogTyping == DialogSpec => []DialogTypeOK
<1>1. DialogInv => DialogTypeOK
  <2> SUFFICES ASSUME DialogInv PROVE DialogTypeOK
    OBVIOUS
  <2>1. Places = 0..Len(plan.widgets) /\ dropped \subseteq Places /\ heap \subseteq Places
    BY PlanPlaces DEF DialogInv, Ranges, Places
  <2>2. \A k \in Positions : list[k] \in Places \ {0}
    BY <2>1, PlanPlaces DEF DialogInv, Positions
  <2>3. QED BY <2>1, <2>2 DEF DialogInv, Ranges, DialogTypeOK
<1>2. QED BY <1>1, DialogInvariant, PTL

(* gui_dialog_find_widget hangs the GUI thread only in a dialog that lost a spin
   box or its grid to an addWidget that failed: every number a callback looks
   for is one its own creator used. *)
THEOREM HangExplained == DialogSpec => []HangCause
<1>1. DialogInv => HangCause
  BY DEF DialogInv
<1>2. QED BY <1>1, DialogInvariant, PTL

(* A dialog nobody can close with a key has lost the widget its creator put the
   focus on, or every widget that can have it. *)
THEOREM DeafExplained == DialogSpec => []DeafCause
<1>1. DialogInv => DeafCause
  BY DEF DialogInv
<1>2. QED BY <1>1, DialogInvariant, PTL

(* What a dialog leaves behind is its grid, which gui_dialog_remove_widgets has
   no case for, and the widgets its list refused. *)
THEOREM OnlyGridsLeak == DialogSpec => []NothingLeaks
<1>1. DialogInv => NothingLeaks
  BY DEF DialogInv
<1>2. QED BY <1>1, DialogInvariant, PTL
=============================================================================
