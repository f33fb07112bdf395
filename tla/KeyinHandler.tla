----------------------------- MODULE KeyinHandler -----------------------------
(***************************************************************************)
(* gui/gui_keyin_handler.c: the key scan thread, and the main thread that  *)
(* locks and unlocks the keys and destroys the handler.                    *)
(*                                                                         *)
(* Every 100 ms the thread either drains the DirectFB input buffer or, if  *)
(* it is empty, advances the repeat count of the key that is down.  While  *)
(* the keys are locked it sleeps on a condition variable.  The flags lock  *)
(* and scan are read by the scan loop without the mutex.                   *)
(* The keyboard and the input buffer are DirectFB's (external).            *)
(***************************************************************************)
EXTENDS Naturals, Sequences

CONSTANTS Symbols,      \* key symbols the keyboard sends
          LongKey,      \* LONGKEY_COUNT
          NoPost,       \* no code posted since the keys were last reset
          NoThread, Scanner, Main,
          MaxStrokes,   \* bound: keys pressed
          MaxLocks      \* bound: calls of lock() and unlock()

(* gui_keyin_handler_convert_keycode, as wired: LEFT and DOWN are crossed. *)
KeyTable == [CURSOR_LEFT |-> "DOWN", CURSOR_RIGHT |-> "RIGHT", CURSOR_UP |-> "UP",
             CURSOR_DOWN |-> "LEFT", ENTER |-> "ENTER", SPACE |-> "TRIGGER",
             HOME |-> "CHANNEL", END |-> "CAPTURE"]

Known(s) == s \in DOMAIN KeyTable

Keycodes == {KeyTable[s] : s \in DOMAIN KeyTable}

Inputs == [type : {"PRESS", "RELEASE"}, symbol : Symbols, asleep : BOOLEAN]

Kinds == {"PUSH", "HOLD", "REPEAT", "RELEASE", "HOLD_RELEASE"}

Posts == [key : Keycodes, kind : Kinds]

ASSUME KeyinHandlerAssumption ==
  /\ LongKey \in Nat
  /\ MaxStrokes \in Nat
  /\ MaxLocks \in Nat
  /\ NoPost \notin Posts
  /\ Scanner # Main /\ NoThread \notin {Scanner, Main}

VARIABLES
  down,      \* symbols whose keys are physically down (external)
  buffer,    \* the DirectFB event buffer (external)
  strokes,   \* keys pressed so far
  push, hold, lock, scan, keycode, repeat,   \* keyin_handler_attribute
  owner,     \* holder of mtx
  thread,    \* where the scan thread is
  caller,    \* where the main thread is
  locks,     \* calls of lock() and unlock() so far
  sent,      \* history: the last code posted since the last reset
  dreamt,    \* history: the stroke being posted was typed while asleep
  quiet      \* history: scans without input since the PUSH

keyboard == <<down, buffer, strokes>>
stroke == <<push, hold, keycode, repeat, sent, dreamt, quiet>>
control == <<lock, scan, caller, locks>>

vars == <<keyboard, stroke, control, owner, thread>>

Init ==
  /\ down = {}
  /\ buffer = <<>>
  /\ strokes = 0
  /\ push = FALSE
  /\ hold = FALSE
  /\ lock = TRUE
  /\ scan = TRUE
  /\ keycode = "NULL"
  /\ repeat = 0
  /\ owner = NoThread
  /\ thread = "loop"
  /\ caller = "idle"
  /\ locks = 0
  /\ sent = NoPost
  /\ dreamt = FALSE
  /\ quiet = 0

-----------------------------------------------------------------------------
(* The keyboard. *)

Asleep == thread = "wait"

Type(type, s) ==
  buffer' = Append(buffer, [type |-> type, symbol |-> s, asleep |-> Asleep])

Press(s) ==
  /\ strokes < MaxStrokes
  /\ s \notin down
  /\ down' = down \cup {s}
  /\ strokes' = strokes + 1
  /\ Type("PRESS", s)
  /\ UNCHANGED <<stroke, control, owner, thread>>

LetGo(s) ==
  /\ s \in down
  /\ down' = down \ {s}
  /\ Type("RELEASE", s)
  /\ UNCHANGED <<strokes, stroke, control, owner, thread>>

-----------------------------------------------------------------------------
(* The scan thread. *)

Step(from, to) == thread = from /\ thread' = to

Post(k, kind) == sent' = [key |-> k, kind |-> kind]

TestScan ==
  /\ IF scan THEN Step("loop", "branch") ELSE Step("loop", "exit")
  /\ UNCHANGED <<keyboard, stroke, control, owner>>

TestLock ==
  /\ IF lock THEN Step("branch", "acquire") ELSE Step("branch", "poll")
  /\ UNCHANGED <<keyboard, stroke, control, owner>>

Acquire ==
  /\ Step("acquire", "test")
  /\ owner = NoThread /\ owner' = Scanner
  /\ UNCHANGED <<keyboard, stroke, control>>

(* while (lock) pthread_cond_wait: waiting releases the mutex. *)
Wait ==
  /\ lock
  /\ Step("test", "wait")
  /\ owner' = NoThread
  /\ UNCHANGED <<keyboard, stroke, control>>

SpuriousWakeup ==
  /\ Step("wait", "relock")
  /\ UNCHANGED <<keyboard, stroke, control, owner>>

(* Mutant: `if` instead of `while` around the wait. *)
RelockNoRetest ==
  /\ Step("relock", "leave")
  /\ owner = NoThread /\ owner' = Scanner
  /\ UNCHANGED <<keyboard, stroke, control>>

Relock ==
  /\ Step("relock", "test")
  /\ owner = NoThread /\ owner' = Scanner
  /\ UNCHANGED <<keyboard, stroke, control>>

Unlocked ==
  /\ ~lock
  /\ Step("test", "leave")
  /\ UNCHANGED <<keyboard, stroke, control, owner>>

Leave ==
  /\ Step("leave", "reset")
  /\ owner' = NoThread
  /\ UNCHANGED <<keyboard, stroke, control>>

(* Mutant: only the buffer is cleared after a lock. *)
ResetBufferOnly ==
  /\ Step("reset", "loop")
  /\ buffer' = <<>>
  /\ UNCHANGED <<down, strokes, stroke, control, owner>>

(* The keys are unlocked: forget the stroke and what was typed. *)
Reset ==
  /\ Step("reset", "loop")
  /\ push' = FALSE /\ hold' = FALSE /\ repeat' = 0
  /\ buffer' = <<>>
  /\ sent' = NoPost /\ dreamt' = FALSE /\ quiet' = 0
  /\ UNCHANGED <<down, strokes, keycode, control, owner>>

PollInput ==
  /\ buffer # <<>>
  /\ Step("poll", "drain")
  /\ UNCHANGED <<keyboard, stroke, control, owner>>

(* No stroke to count. *)
PollIdle ==
  /\ buffer = <<>> /\ ~push
  /\ Step("poll", "loop")
  /\ UNCHANGED <<keyboard, stroke, control, owner>>

Counts == ~(repeat > LongKey)

(* gui_keyin_handler_check_repeat: the key has been down for a scan without
   input.  (quiet stops at the count HOLD needs.) *)
CheckRepeat ==
  /\ buffer = <<>> /\ push
  /\ Step("poll", "loop")
  /\ quiet' = IF quiet > LongKey + 1 THEN quiet ELSE quiet + 1
  /\ IF Counts
     THEN repeat' = repeat + 1 /\ UNCHANGED <<hold, sent>>
     ELSE /\ hold' = TRUE
          /\ Post(keycode, IF hold THEN "REPEAT" ELSE "HOLD")
          /\ UNCHANGED repeat
  /\ UNCHANGED <<keyboard, push, keycode, dreamt, control, owner>>

Drained ==
  /\ buffer = <<>>
  /\ Step("drain", "loop")
  /\ UNCHANGED <<keyboard, stroke, control, owner>>

(* gui_keyin_handler_check_push *)
Pushes(e) == ~push /\ e.type = "PRESS" /\ Known(e.symbol)

(* Mutant: the key code is not compared. *)
ReleasesAny(e) == push /\ e.type = "RELEASE" /\ Known(e.symbol)

(* gui_keyin_handler_check_release; a press that was just taken by check_push
   is not a release. *)
Releases(e) ==
  push /\ e.type = "RELEASE" /\ Known(e.symbol) /\ KeyTable[e.symbol] = keycode

GetEvent ==
  /\ thread = "drain"
  /\ buffer # <<>>
  /\ buffer' = Tail(buffer)
  /\ UNCHANGED <<down, strokes, control, owner, thread>>

TakePush ==
  /\ GetEvent
  /\ Pushes(Head(buffer))
  /\ keycode' = KeyTable[Head(buffer).symbol]
  /\ push' = TRUE /\ hold' = FALSE /\ repeat' = 0
  /\ Post(KeyTable[Head(buffer).symbol], "PUSH")
  /\ dreamt' = Head(buffer).asleep
  /\ quiet' = 0

TakeRelease ==
  /\ GetEvent
  /\ Releases(Head(buffer))
  /\ push' = FALSE /\ hold' = FALSE /\ repeat' = 0
  /\ Post(KeyTable[Head(buffer).symbol], IF hold THEN "HOLD_RELEASE" ELSE "RELEASE")
  /\ quiet' = 0
  /\ UNCHANGED <<keycode, dreamt>>

(* Another key while one is down, a release without a stroke, an unknown key. *)
TakeIgnored ==
  /\ GetEvent
  /\ ~Pushes(Head(buffer)) /\ ~Releases(Head(buffer))
  /\ UNCHANGED stroke

-----------------------------------------------------------------------------
(* The main thread: lock, unlock and destroy of the handler.  unlock writes the
   flag under the mutex and signals after releasing it. *)

CallLock ==
  /\ caller = "idle" /\ locks < MaxLocks
  /\ owner = NoThread /\ owner' = Main
  /\ caller' = "locking"
  /\ lock' = TRUE
  /\ locks' = locks + 1
  /\ UNCHANGED <<keyboard, stroke, scan, thread>>

EndLock ==
  /\ caller = "locking"
  /\ owner' = NoThread
  /\ caller' = "idle"
  /\ UNCHANGED <<keyboard, stroke, lock, scan, locks, thread>>

CallUnlock ==
  /\ \/ caller = "idle" /\ locks < MaxLocks /\ locks' = locks + 1
     \/ caller = "stop" /\ UNCHANGED locks
  /\ owner = NoThread /\ owner' = Main
  /\ caller' = "unlocking"
  /\ lock' = FALSE
  /\ UNCHANGED <<keyboard, stroke, scan, thread>>

EndUnlock ==
  /\ caller = "unlocking"
  /\ owner' = NoThread
  /\ caller' = "signal"
  /\ UNCHANGED <<keyboard, stroke, lock, scan, locks, thread>>

Signal ==
  /\ caller = "signal"
  /\ caller' = IF scan THEN "idle" ELSE "join"
  /\ thread' = IF Asleep THEN "relock" ELSE thread
  /\ UNCHANGED <<keyboard, stroke, lock, scan, owner, locks>>

(* Mutant: destroy joins the thread without waking it up. *)
DestroySleeping ==
  /\ caller = "idle"
  /\ scan' = FALSE
  /\ caller' = "join"
  /\ UNCHANGED <<keyboard, stroke, lock, locks, owner, thread>>

(* gui_keyin_handler_destroy: scan is cleared without the mutex. *)
Destroy ==
  /\ caller = "idle"
  /\ scan' = FALSE
  /\ caller' = "stop"
  /\ UNCHANGED <<keyboard, stroke, lock, locks, owner, thread>>

(* pthread_join, then mutex, condition and buffer are released. *)
Join ==
  /\ caller = "join" /\ thread = "exit"
  /\ caller' = "destroyed"
  /\ UNCHANGED <<keyboard, stroke, lock, scan, locks, owner, thread>>

-----------------------------------------------------------------------------
Keyboard == \E s \in Symbols : Press(s) \/ LetGo(s)

ScanStep ==
  \/ TestScan \/ TestLock
  \/ Acquire \/ Wait \/ Relock \/ Unlocked \/ Leave \/ Reset
  \/ PollInput \/ PollIdle \/ CheckRepeat
  \/ Drained \/ TakePush \/ TakeRelease \/ TakeIgnored

(* A call, once it has been entered. *)
InCall == EndLock \/ (caller = "stop" /\ CallUnlock) \/ EndUnlock \/ Signal \/ Join

MainStep == CallLock \/ EndLock \/ CallUnlock \/ EndUnlock \/ Signal \/ Destroy \/ Join

Next == Keyboard \/ ScanStep \/ SpuriousWakeup \/ MainStep

(* Both threads are scheduled, so a call that was entered goes on, and a call
   that waits for the mutex gets it although spurious wakeups let the scan
   thread take it again and again: hence SF.  Nobody has to type or to lock the
   keys, and no spurious wakeup has to come. *)
Fairness == WF_vars(ScanStep) /\ SF_vars(InCall)

Spec == Init /\ [][Next]_vars /\ Fairness

-----------------------------------------------------------------------------
(* Type correctness, mutual exclusion included: a thread is between lock and
   unlock of mtx exactly when it owns it. *)
TypeOK ==
  /\ down \subseteq Symbols
  /\ buffer \in Seq(Inputs)
  /\ strokes \in 0..MaxStrokes
  /\ push \in BOOLEAN /\ hold \in BOOLEAN /\ lock \in BOOLEAN /\ scan \in BOOLEAN
  /\ keycode \in Keycodes \cup {"NULL"}
  /\ push => keycode \in Keycodes
  /\ repeat \in 0..LongKey + 1
  /\ owner \in {NoThread, Scanner, Main}
  /\ thread \in {"loop", "branch", "acquire", "test", "wait", "relock", "leave",
                 "reset", "poll", "drain", "exit"}
  /\ caller \in {"idle", "locking", "unlocking", "signal", "stop", "join", "destroyed"}
  /\ owner = Scanner <=> thread \in {"test", "leave"}
  /\ owner = Main <=> caller \in {"locking", "unlocking"}
  /\ locks \in 0..MaxLocks
  /\ sent \in Posts \cup {NoPost}
  /\ dreamt \in BOOLEAN
  /\ quiet \in 0..LongKey + 2

Symbol(k) == {s \in Symbols : Known(s) /\ KeyTable[s] = k}

(* No stuck key: the key the handler holds as pushed is down on the keyboard,
   or its release is still in the buffer.  A lock that swallows the release
   ends the stroke too; otherwise HOLD would repeat for ever. *)
NoStuckKey ==
  push =>
    \E s \in Symbol(keycode) :
      \/ s \in down
      \/ \E i \in 1..Len(buffer) : buffer[i].type = "RELEASE" /\ buffer[i].symbol = s

(* What is typed while the scan thread sleeps with the keys locked is never
   posted: a stroke that starts during a lock is dropped whole. *)
LockedKeysDropped == ~dreamt

(* No lost wakeup: the scan thread sleeps with the keys unlocked only while
   unlock() is on its way to the signal, and it passes the lock only when the
   keys are unlocked. *)
NoLostWakeup ==
  /\ Asleep /\ ~lock => caller \in {"unlocking", "signal"}
  /\ thread = "leave" => ~lock

(* HOLD means a long key: more than LONGKEY_COUNT scans, and one more, have
   gone by without input since the PUSH, whatever else was typed meanwhile. *)
HoldIsLong ==
  /\ hold => quiet = LongKey + 2
  /\ push /\ ~hold => quiet = repeat

(* The posted codes form the stream of whole strokes the GUI reads. *)
Stream == INSTANCE KeyStream
StreamSpec == Stream!Spec

(* destroy returns, wherever the scan thread is. *)
DestroyReturns == ~scan ~> caller = "destroyed"
=============================================================================
