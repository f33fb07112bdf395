----------------------------- MODULE Obmode_proofs -----------------------------
(***************************************************************************)
(* Theorems about Obmode for any of the camera's settings, any number of   *)
(* commands, late answers and failures: the types, and what the five parts *)
(* of a view, the settings and the saved shift have to do with each other. *)
(***************************************************************************)
EXTENDS Obmode, SequenceTheorems, TLAPS

-----------------------------------------------------------------------------
(* Sequences grow at their end and are read at their head. *)

LEMMA Appended ==
  ASSUME NEW S, NEW s \in Seq(S), NEW e \in S, NEW t, t = Append(s, e)
  PROVE  /\ t \in Seq(S) /\ t # <<>> /\ Len(s) \in Nat /\ Len(t) = Len(s) + 1
         /\ t[Len(t)] = e /\ \A i \in 1..Len(s) : t[i] = s[i]
OBVIOUS

LEMMA Taken ==
  ASSUME NEW S, NEW s \in Seq(S), s # <<>>, NEW t, t = Tail(s)
  PROVE  /\ t \in Seq(S) /\ Len(s) \in Nat /\ Len(s) > 0 /\ Len(t) = Len(s) - 1
         /\ Head(s) = s[1] /\ s[1] \in S
         /\ \A i \in 1..Len(t) : t[i] = s[i + 1]
OBVIOUS

LEMMA Led ==
  ASSUME NEW S, NEW x \in S, NEW s \in Seq(S)
  PROVE  /\ <<x>> \o s \in Seq(S) /\ <<x>> \o s # <<>>
         /\ Head(<<x>> \o s) = x /\ Tail(<<x>> \o s) = s
OBVIOUS

-----------------------------------------------------------------------------
(* Types. *)

LEMMA NoSettings ==
  \A s \in Settings : s \notin Orders \cup {"ready", "on", "boot", "close", "init", "run",
                                            "deinit", "join", "off", "open"}
BY IrcamAssumption DEF IrcamAssumption, Names, Orders

LEMMA Numbers ==
  /\ \A s \in Settings : cache[s] \in Values =>
       Clamp(cache[s] + 1) \in Values /\ Clamp(cache[s] - 1) \in Values
  /\ 0 \in Values /\ Top \div 2 \in Values /\ 0 \in Shifts /\ 1 \in Shifts
  /\ \A x \in Shifts : 1 - x \in Shifts
BY IrcamAssumption DEF IrcamAssumption, Clamp, Values, Shifts

(* Frames whose value is one of what they tell, and those that are commands. *)
Messages ==
  {m \in Frames : /\ m.cmd \in Settings => m.val \in Values
                  /\ m.cmd = "move" => m.val \in Shifts}
Commands == {m \in Messages : m.cmd # "ready"}

Steps == Settings \cup Orders \cup {"on", "boot", "close", "init", "run",
                                    "deinit", "join", "off", "open"}

LineTypes ==
  /\ cam \in [on : BOOLEAN, booted : BOOLEAN, set : [Settings -> Values], shift : Shifts]
  /\ cmds \in Seq(Commands) /\ wire \in Seq(Messages)
  /\ power \in Powers /\ error \subseteq Errors
  /\ cache \in [Settings -> Values]
  /\ shift \in Shifts \cup {Unmoved}
  /\ waitAck \in BOOLEAN /\ call \in {"none", "sent", "asleep"}
  /\ op \in Commands
  /\ doubt \in BOOLEAN

Places == {"open", "closed"}

ModeTypes ==
  /\ view \in Views
  /\ shutter \in Places /\ closed \in BOOLEAN /\ due \in Seq(Places)
  /\ saved \in Shifts \cup {Unmoved}
  /\ todo \in Seq(Steps)

TypeInv == LineTypes /\ ModeTypes

LEMMA Messages1 ==
  /\ \A s \in Settings, v \in Values : Message(s, v) \in Commands
  /\ \A c \in Orders : Message(c, 0) \in Commands
  /\ \A x \in Shifts : Message("move", x) \in Commands
  /\ \A x \in Shifts : Message("ready", x) \in Messages
  /\ Commands \subseteq Messages
  /\ \A m \in Messages : /\ m.cmd \in Settings \cup Orders \cup {"ready"}
                         /\ m.cmd \in Settings => m.val \in Values
                         /\ m.cmd = "move" => m.val \in Shifts
<1>1. "move" \in Orders
  BY DEF Orders
<1>2. \A s \in Settings, v \in Values : Message(s, v) \in Commands
  BY NoSettings, <1>1 DEF Message, Commands, Messages, Frames
<1>3. \A c \in Orders : Message(c, 0) \in Commands
  BY NoSettings, Numbers DEF Message, Commands, Messages, Frames, Orders
<1>4. \A x \in Shifts : Message("move", x) \in Commands
  BY NoSettings, <1>1 DEF Message, Commands, Messages, Frames
<1>5. \A x \in Shifts : Message("ready", x) \in Messages
  BY NoSettings DEF Message, Messages, Frames
<1>6. QED BY <1>2, <1>3, <1>4, <1>5 DEF Commands, Messages, Frames

(* The views that the preview's operations leave. *)
LEMMA ViewTypes ==
  ASSUME NEW v \in Views
  PROVE  /\ InitPreview(v) \in Views /\ InitFails(v) \subseteq Views
         /\ RunPreview(v) \in Views /\ StopPreview(v) \in Views /\ JoinPreview(v) \in Views
         /\ Started(v) \in Views /\ NotStarted(v) \in Views /\ FrameFails(v) \in Views
         /\ Ended(v) \in Views
<1>1. \A w \in Views : Destroyed(w) \in Views
  BY DEF Destroyed, Freed, Views, Objects
<1>2. \A a, b \in Objects : Opened(v, a, b) \in Views
  BY DEF Opened, Views
<1>3. v.camif \in Objects
  BY DEF Views
<1>4. InitFails(v) \subseteq Views
  BY <1>1, <1>2, <1>3 DEF InitFails, Objects
<1>5. JoinPreview(v) \in Views
  <2>1. Destroyed(v) \in Views
    BY <1>1
  <2>2. QED BY <2>1 DEF JoinPreview, Views, Threads
<1>6. InitPreview(v) \in Views
  <2>1. Opened(v, "live", "live") \in Views
    BY <1>2 DEF Objects
  <2>2. QED BY <2>1 DEF InitPreview, Views, States, Threads
<1>7. QED BY <1>4, <1>5, <1>6
      DEF RunPreview, StopPreview, Started, NotStarted, FrameFails, Ended, Views, States, Threads

(* ... and what they hold. *)
LEMMA ViewFields ==
  ASSUME NEW v \in Views
  PROVE  /\ v.sane \in BOOLEAN
         /\ InitPreview(v).state = "pause" /\ InitPreview(v).thread = "begin"
         /\ InitPreview(v).camif = "live" /\ InitPreview(v).ipu = "live"
         /\ InitPreview(v).sane = v.sane
         /\ \A w \in InitFails(v) : w.state = v.state
         /\ RunPreview(v) = [v EXCEPT !.state = "run"] /\ RunPreview(v).state = "run"
         /\ StopPreview(v).state = "stop"
         /\ Started(v).state = "pause" /\ Started(v).thread = "on"
         /\ NotStarted(v).state = "pause" /\ NotStarted(v).thread = "ended"
         /\ FrameFails(v).state = "stop"
         /\ Ended(v).state = v.state /\ Ended(v).thread = "ended"
         /\ JoinPreview(v).state = v.state
         /\ v.sane /\ v.thread = "ended" /\ v.camif = "live" /\ v.ipu = "live" =>
              JoinPreview(v).sane
         /\ \A w \in {StopPreview(v), FrameFails(v), RunPreview(v)} : w.thread = v.thread
         /\ \A w \in {StopPreview(v), FrameFails(v), RunPreview(v), Started(v), NotStarted(v),
                      Ended(v)} :
              w.camif = v.camif /\ w.ipu = v.ipu /\ w.sane = v.sane
<1>1. /\ InitPreview(v).state = "pause" /\ InitPreview(v).thread = "begin"
      /\ InitPreview(v).camif = "live" /\ InitPreview(v).ipu = "live"
      /\ InitPreview(v).sane = v.sane
  BY DEF InitPreview, Opened, Views
<1>2. \A w \in InitFails(v) : w.state = v.state
  <2>1. \A w \in Views : Destroyed(w).state = w.state
    BY DEF Destroyed, Views
  <2>2. \A a, b \in Objects : Opened(v, a, b) \in Views /\ Opened(v, a, b).state = v.state
    BY DEF Opened, Views
  <2>3. v.camif \in Objects
    BY DEF Views
  <2>4. QED BY <2>1, <2>2, <2>3 DEF InitFails, Objects
<1>3. JoinPreview(v).state = v.state
  BY DEF JoinPreview, Destroyed, Views
<1>4. v.sane /\ v.thread = "ended" /\ v.camif = "live" /\ v.ipu = "live" => JoinPreview(v).sane
  BY DEF JoinPreview, Destroyed, Views
<1>5. v.sane \in BOOLEAN
  BY DEF Views
<1>6. QED BY <1>1, <1>2, <1>3, <1>4, <1>5
      DEF RunPreview, StopPreview, Started, NotStarted, FrameFails, Ended, Views

LEMMA CutTypes ==
  ASSUME LineTypes, CutPower, error' \subseteq Errors
  PROVE  LineTypes'
<1>1. cam' \in [on : BOOLEAN, booted : BOOLEAN, set : [Settings -> Values], shift : Shifts]
  <2>1. Factory \in [Settings -> Values]
    BY Numbers DEF Factory
  <2>2. QED BY <2>1 DEF CutPower, LineTypes
<1>2. cmds' \in Seq(Commands) /\ power' \in Powers /\ doubt' \in BOOLEAN
  BY DEF CutPower, Powers, LineTypes
<1>3. QED BY <1>1, <1>2 DEF CutPower, LineTypes

LEMMA CallTypes ==
  ASSUME LineTypes, NEW m \in Commands, Write(m) \/ WriteFails(m)
  PROVE  LineTypes'
<1>1. CASE Write(m)
  <2>1. cmds' \in Seq(Commands)
    BY <1>1 DEF Write, LineTypes
  <2>2. error' \subseteq Errors /\ call' = "sent" /\ doubt' \in BOOLEAN
    BY <1>1 DEF Write, LineTypes
  <2>3. QED BY <1>1, <2>1, <2>2 DEF Write, LineTypes
<1>2. CASE WriteFails(m)
  BY <1>2 DEF WriteFails, LineTypes, Errors, camera
<1>3. QED BY <1>1, <1>2

LEMMA ReaderTypes ==
  ASSUME LineTypes, Read \/ Expire
  PROVE  LineTypes'
<1>1. CASE Read
  <2> DEFINE m == Head(wire)
  <2>1. m \in Messages /\ wire' \in Seq(Messages)
    BY <1>1, Taken DEF Read, LineTypes
  <2>2. Parse(m)
    BY <1>1 DEF Read
  <2> HIDE DEF m
  <2>3. cache' \in [Settings -> Values]
    BY <2>1, <2>2, Messages1 DEF Parse, LineTypes
  <2>4. shift' \in Shifts \cup {Unmoved}
    BY <2>1, <2>2, Messages1 DEF Parse, LineTypes
  <2>5. power' \in Powers /\ error' \subseteq Errors
    BY <2>2 DEF Parse, LineTypes, Powers, Errors
  <2>6. doubt' \in BOOLEAN /\ waitAck' = FALSE
    BY <1>1 DEF Read
  <2>7. QED BY <1>1, <2>1, <2>3, <2>4, <2>5, <2>6 DEF Read, LineTypes, camera
<1>2. CASE Expire
  BY <1>2 DEF Expire, LineTypes, camera
<1>3. QED BY <1>1, <1>2

LEMMA CameraTypes ==
  ASSUME LineTypes, Boot \/ Answer \/ Ignore \/ LoseCommand \/ LoseAnswer
  PROVE  LineTypes'
<1>1. CASE Boot
  <2>1. PICK x \in Shifts : wire' = Append(wire, Message("ready", x))
    BY <1>1, Numbers DEF Boot
  <2>2. wire' \in Seq(Messages)
    BY <2>1, Messages1, Appended DEF LineTypes
  <2>3. QED BY <1>1, <2>2 DEF Boot, LineTypes, driver
<1>2. CASE Answer
  <2> DEFINE m == Head(cmds)
  <2>1. m \in Commands /\ cmds' \in Seq(Commands)
    BY <1>2, Taken DEF Answer, LineTypes
  <2>2. /\ m.cmd \in Settings => cam' = [cam EXCEPT !.set[m.cmd] = m.val]
        /\ m.cmd = "move" => cam' = [cam EXCEPT !.shift = 1 - @]
        /\ m.cmd \notin Settings \cup {"move"} => cam' = cam
    BY <1>2, NoSettings DEF Answer, Orders
  <2>3. wire' = Append(wire, IF m.cmd = "move" THEN Message("move", cam'.shift) ELSE m)
    BY <1>2 DEF Answer
  <2> HIDE DEF m
  <2>4. cam' \in [on : BOOLEAN, booted : BOOLEAN, set : [Settings -> Values], shift : Shifts]
    <3>1. CASE m.cmd \in Settings
      <4>1. m.val \in Values
        BY <2>1, <3>1, Messages1
      <4>2. cam' = [cam EXCEPT !.set[m.cmd] = m.val]
        BY <2>2, <3>1
      <4>3. QED BY <3>1, <4>1, <4>2 DEF LineTypes
    <3>2. CASE m.cmd = "move"
      <4>1. 1 - cam.shift \in Shifts
        BY Numbers DEF LineTypes
      <4>2. cam' = [cam EXCEPT !.shift = 1 - cam.shift]
        BY <2>2, <3>2 DEF LineTypes
      <4>3. QED BY <4>1, <4>2 DEF LineTypes
    <3>3. CASE m.cmd \notin Settings \cup {"move"}
      BY <2>2, <3>3 DEF LineTypes
    <3>4. QED BY <3>1, <3>2, <3>3
  <2>5. wire' \in Seq(Messages)
    <3>1. cam'.shift \in Shifts
      BY <2>4
    <3>2. (IF m.cmd = "move" THEN Message("move", cam'.shift) ELSE m) \in Messages
      BY <2>1, <3>1, Messages1
    <3>3. QED BY <2>3, <3>2 DEF LineTypes
  <2>6. QED BY <1>2, <2>1, <2>4, <2>5 DEF Answer, LineTypes, driver
<1>3. CASE Ignore \/ LoseCommand
  <2>1. cmds' \in Seq(Commands) /\ doubt' = TRUE
    BY <1>3, Taken DEF Ignore, LoseCommand, LineTypes
  <2>2. QED BY <1>3, <2>1 DEF Ignore, LoseCommand, LineTypes, driver
<1>4. CASE LoseAnswer
  <2>1. wire' \in Seq(Messages) /\ doubt' = TRUE
    BY <1>4, Taken DEF LoseAnswer, LineTypes
  <2>2. QED BY <1>4, <2>1 DEF LoseAnswer, LineTypes, driver, camera
<1>5. QED BY <1>1, <1>2, <1>3, <1>4

(* The camera's power, and a command's end. *)
LEMMA PowerTypes ==
  ASSUME LineTypes, PowerOn \/ BootTimeout \/ PowerOff \/ SetWait \/ Woken
  PROVE  LineTypes'
<1>1. CASE PowerOn
  <2>1. cam' \in [on : BOOLEAN, booted : BOOLEAN, set : [Settings -> Values], shift : Shifts]
    BY <1>1 DEF PowerOn, LineTypes
  <2>2. QED BY <1>1, <2>1 DEF PowerOn, LineTypes, Powers
<1>2. CASE BootTimeout \/ PowerOff
  BY <1>2, CutTypes DEF BootTimeout, PowerOff, Errors, LineTypes
<1>3. CASE SetWait \/ Woken
  BY <1>3 DEF SetWait, Woken, LineTypes, camera
<1>4. QED BY <1>1, <1>2, <1>3

-----------------------------------------------------------------------------
(* What is still to be done of a change, by its next step. *)

Begins(t, step) == t # <<>> /\ Head(t) = step

Holding(t, x) == \E i \in 1..Len(t) : t[i] = x

Settling(t) == t \in Seq(Settings \cup {"tec", "nuc", "array"})
Complete(t) == Settling(t) /\ \A s \in Settings : Holding(t, s)

Running(t)      == Begins(t, "run")   /\ Complete(Tail(t))
Correcting(t)   == Begins(t, "nuc")   /\ Running(Tail(t))
Initialising(t) == Begins(t, "init")  /\ Correcting(Tail(t))
Closing(t)      == Begins(t, "close") /\ Initialising(Tail(t))
Booting(t)      == Begins(t, "boot")  /\ Closing(Tail(t))
Starting(t)     == Begins(t, "on")    /\ Closing(Tail(t))

Opening(t) == t = <<"open">>
Offing(t)  == Begins(t, "off")    /\ Opening(Tail(t))
Saving(t)  == Begins(t, "save")   /\ Offing(Tail(t))
Joining(t) == Begins(t, "join")   /\ (Saving(Tail(t)) \/ Offing(Tail(t)))
Leaving(t) == Begins(t, "deinit") /\ (Saving(Tail(t)) \/ Offing(Tail(t)))

At(t) == IF Settling(t) THEN "settling" ELSE Head(t)

(* A change is one of the two that are defined, in order; a command is waited for
   where it is the next step, or between changes. *)
Plan ==
  /\ \/ Settling(todo) \/ Running(todo) \/ Correcting(todo) \/ Initialising(todo)
     \/ Closing(todo) \/ Booting(todo) \/ Starting(todo)
     \/ Opening(todo) \/ Offing(todo) \/ Saving(todo) \/ Joining(todo) \/ Leaving(todo)
  /\ call # "none" => At(todo) \in {"settling", "nuc", "save"}

LEMMA Ats ==
  ASSUME NEW t \in Seq(Steps)
  PROVE  /\ Settling(t) => At(t) = "settling"
         /\ Running(t) => At(t) = "run"
         /\ Correcting(t) => At(t) = "nuc"
         /\ Initialising(t) => At(t) = "init"
         /\ Closing(t) => At(t) = "close"
         /\ Booting(t) => At(t) = "boot"
         /\ Starting(t) => At(t) = "on"
         /\ Opening(t) => At(t) = "open" /\ t # <<>> /\ Head(t) = "open" /\ Tail(t) = <<>>
         /\ Offing(t) => At(t) = "off"
         /\ Saving(t) => At(t) = "save"
         /\ Joining(t) => At(t) = "join"
         /\ Leaving(t) => At(t) = "deinit"
<1> DEFINE Late == Settings \cup {"tec", "nuc", "array"}
<1>1. ASSUME Settling(t), t # <<>> PROVE Head(t) \in Late /\ Settling(Tail(t))
  BY <1>1, Taken DEF Settling
<1>2. \A x \in {"run", "init", "close", "boot", "on", "open", "off", "save", "join", "deinit"} :
        x \notin Late
  BY NoSettings DEF Orders
<1>3. ASSUME NEW x \in {"run", "init", "close", "boot", "on", "open", "off", "save", "join",
                        "deinit"}, Begins(t, x)
      PROVE  At(t) = x
  BY <1>1, <1>2, <1>3 DEF Begins, At
<1>4. ASSUME Correcting(t) PROVE At(t) = "nuc"
  <2>1. t # <<>> /\ Head(t) = "nuc" /\ Tail(t) # <<>> /\ Head(Tail(t)) = "run"
    BY <1>4 DEF Correcting, Running, Begins
  <2>2. ~Settling(t)
    <3> SUFFICES ASSUME Settling(t) PROVE FALSE
      OBVIOUS
    <3>1. Settling(Tail(t))
      BY <1>1, <2>1
    <3>2. Head(Tail(t)) \in Late
      BY <2>1, <3>1, Taken DEF Settling
    <3>3. QED BY <1>2, <2>1, <3>2
  <2>3. QED BY <2>1, <2>2 DEF At
<1>5. ASSUME Opening(t) PROVE t # <<>> /\ Head(t) = "open" /\ Tail(t) = <<>>
  BY <1>5 DEF Opening
<1>6. QED
  BY <1>3, <1>4, <1>5 DEF At, Running, Initialising, Closing, Booting, Starting, Offing, Saving,
                          Joining, Leaving, Begins

(* What a step is followed by. *)
LEMMA Follows ==
  ASSUME TypeInv, Plan, todo # <<>>
  PROVE  /\ Tail(todo) \in Seq(Steps)
         /\ Head(todo) = "on" => Starting(todo) /\ Closing(Tail(todo))
         /\ Head(todo) = "boot" => Booting(todo) /\ Closing(Tail(todo))
         /\ Head(todo) = "close" => Closing(todo) /\ Initialising(Tail(todo))
         /\ Head(todo) = "init" => Initialising(todo) /\ Correcting(Tail(todo))
         /\ Head(todo) = "run" => Running(todo) /\ Complete(Tail(todo))
         /\ Head(todo) = "open" => Opening(todo) /\ Tail(todo) = <<>>
         /\ Head(todo) = "off" => Offing(todo) /\ Opening(Tail(todo))
         /\ Head(todo) = "save" => Saving(todo) /\ Offing(Tail(todo))
         /\ Head(todo) = "join" => Joining(todo) /\ (Saving(Tail(todo)) \/ Offing(Tail(todo)))
         /\ Head(todo) = "deinit" => Leaving(todo) /\ (Saving(Tail(todo)) \/ Offing(Tail(todo)))
         /\ Settling(todo) => Settling(Tail(todo))
         /\ Correcting(todo) => Running(Tail(todo))
         /\ Head(todo) \in Settings \cup Orders =>
              Settling(todo) \/ Correcting(todo) \/ Saving(todo)
<1>1. todo \in Seq(Steps) /\ Tail(todo) \in Seq(Steps)
  BY Taken DEF TypeInv, ModeTypes
<1>2. Settling(todo) => /\ Settling(Tail(todo))
                        /\ Head(todo) \in Settings \cup {"tec", "nuc", "array"}
  BY Taken DEF Settling
<1>3. Opening(todo) => Head(todo) = "open" /\ Tail(todo) = <<>>
  BY DEF Opening
<1>4. \A x \in {"run", "init", "close", "boot", "on", "open", "off", "save", "join", "deinit"} :
        x \notin Settings \cup {"tec", "nuc", "array"}
  BY NoSettings DEF Orders
<1>5. \A x \in {"run", "init", "close", "boot", "on", "open", "off", "join", "deinit"} :
        x \notin Settings \cup Orders
  BY NoSettings DEF Orders
<1>6. QED
  BY <1>1, <1>2, <1>3, <1>4, <1>5
     DEF Plan, Running, Correcting, Initialising, Closing, Booting, Starting, Offing, Saving,
         Joining, Leaving, Begins

-----------------------------------------------------------------------------
(* The two changes are such plans. *)

LEMMA Joined ==
  ASSUME NEW S, NEW s \in Seq(S), NEW t \in Seq(S), NEW x, Holding(s, x) \/ Holding(t, x)
  PROVE  Holding(s \o t, x)
<1>1. /\ Len(s \o t) = Len(s) + Len(t) /\ Len(s) \in Nat /\ Len(t) \in Nat
      /\ \A i \in 1..Len(s) + Len(t) :
           (s \o t)[i] = IF i <= Len(s) THEN s[i] ELSE t[i - Len(s)]
  BY ConcatProperties, LenProperties
<1>2. CASE Holding(s, x)
  <2>1. PICK i \in 1..Len(s) : s[i] = x
    BY <1>2 DEF Holding
  <2>2. i \in 1..Len(s \o t) /\ (s \o t)[i] = x
    BY <1>1, <2>1
  <2>3. QED BY <2>2 DEF Holding
<1>3. CASE Holding(t, x)
  <2>1. PICK i \in 1..Len(t) : t[i] = x
    BY <1>3 DEF Holding
  <2>2. i + Len(s) \in 1..Len(s \o t) /\ ~(i + Len(s) <= Len(s)) /\ (i + Len(s)) - Len(s) = i
    BY <1>1, <2>1
  <2>3. (s \o t)[i + Len(s)] = x
    BY <1>1, <2>1, <2>2
  <2>4. QED BY <2>2, <2>3 DEF Holding
<1>4. QED BY <1>2, <1>3

LEMMA ChosenOnes ==
  \A x : Chosen(x) \in Seq(Settings) /\ (x \in Settings => Holding(Chosen(x), x))
<1> SUFFICES ASSUME NEW x
             PROVE  Chosen(x) \in Seq(Settings) /\ (x \in Settings => Holding(Chosen(x), x))
  OBVIOUS
<1>1. CASE x \in Settings
  <2>1. Chosen(x) = <<x>>
    BY <1>1 DEF Chosen
  <2>2. QED BY <1>1, <2>1 DEF Holding
<1>2. CASE x \notin Settings
  BY <1>2 DEF Chosen
<1>3. QED BY <1>1, <1>2

(* Every setting is restored. *)
LEMMA RestoredOnes ==
  Restored \in Seq(Settings) /\ \A s \in Settings : Holding(Restored, s)
<1> DEFINE a == Chosen("histeq")  b == a \o Chosen("irpol")   c == b \o Chosen("color")
           d == c \o Chosen("contrast")  e == d \o Chosen("bright")
           f == e \o Chosen("edge")      g == f \o Chosen("gain")
           h == g \o Chosen("level")
<1>1. Restored = h
  BY DEF Restored
<1>2. a \in Seq(Settings) /\ ("histeq" \in Settings => Holding(a, "histeq"))
  BY ChosenOnes
<1> HIDE DEF a
<1>3. b \in Seq(Settings) /\ \A s \in Settings : Holding(a, s) \/ s = "irpol" => Holding(b, s)
  BY <1>2, ChosenOnes, Joined, ConcatProperties DEF b
<1> HIDE DEF b
<1>4. c \in Seq(Settings) /\ \A s \in Settings : Holding(b, s) \/ s = "color" => Holding(c, s)
  BY <1>3, ChosenOnes, Joined, ConcatProperties DEF c
<1> HIDE DEF c
<1>5. d \in Seq(Settings) /\ \A s \in Settings : Holding(c, s) \/ s = "contrast" => Holding(d, s)
  BY <1>4, ChosenOnes, Joined, ConcatProperties DEF d
<1> HIDE DEF d
<1>6. e \in Seq(Settings) /\ \A s \in Settings : Holding(d, s) \/ s = "bright" => Holding(e, s)
  BY <1>5, ChosenOnes, Joined, ConcatProperties DEF e
<1> HIDE DEF e
<1>7. f \in Seq(Settings) /\ \A s \in Settings : Holding(e, s) \/ s = "edge" => Holding(f, s)
  BY <1>6, ChosenOnes, Joined, ConcatProperties DEF f
<1> HIDE DEF f
<1>8. g \in Seq(Settings) /\ \A s \in Settings : Holding(f, s) \/ s = "gain" => Holding(g, s)
  BY <1>7, ChosenOnes, Joined, ConcatProperties DEF g
<1> HIDE DEF g
<1>9. h \in Seq(Settings) /\ \A s \in Settings : Holding(g, s) \/ s = "level" => Holding(h, s)
  BY <1>8, ChosenOnes, Joined, ConcatProperties DEF h
<1>10. QED BY <1>1, <1>2, <1>3, <1>4, <1>5, <1>6, <1>7, <1>8, <1>9, IrcamAssumption
         DEF IrcamAssumption, Names

LEMMA InfraredPlan ==
  ShowInfrared \in Seq(Steps) /\ Starting(ShowInfrared)
<1> DEFINE Late == Settings \cup {"tec", "nuc", "array"}
           R == Restored \o <<"array">>
           p == <<"tec", "nuc">> \o R
<1>1. R \in Seq(Late) /\ \A s \in Settings : Holding(R, s)
  <2>1. <<"array">> \in Seq(Late) /\ Restored \in Seq(Late)
    BY RestoredOnes
  <2>2. QED BY <2>1, RestoredOnes, Joined, ConcatProperties
<1>2. p \in Seq(Late) /\ \A s \in Settings : Holding(p, s)
  <2>1. <<"tec", "nuc">> \in Seq(Late)
    OBVIOUS
  <2>2. QED BY <1>1, <2>1, Joined, ConcatProperties
<1>3. /\ "on" \in Steps /\ "close" \in Steps /\ "init" \in Steps /\ "nuc" \in Steps
      /\ "run" \in Steps /\ "tec" \in Steps /\ "array" \in Steps
  BY DEF Steps, Orders
<1>4. R \in Seq(Steps) /\ Restored \in Seq(Steps) /\ <<"array">> \in Seq(Steps)
  <2>1. Late \subseteq Steps /\ Settings \subseteq Steps
    BY DEF Steps, Orders
  <2>2. QED BY <1>1, <1>3, <2>1, RestoredOnes, SeqMonotonic
<1>5. ShowInfrared = <<"on", "close", "init", "nuc", "run", "tec", "nuc">> \o R
  <2> DEFINE q == <<"on", "close", "init", "nuc", "run", "tec", "nuc">>
  <2>1. q \in Seq(Steps)
    BY <1>3, <1>4
  <2>2. ShowInfrared = q \o Restored \o <<"array">>
    BY DEF ShowInfrared
  <2> HIDE DEF q
  <2>3. ShowInfrared = q \o R
    BY <1>4, <2>1, <2>2, ConcatAssociative
  <2>4. QED BY <2>3 DEF q
<1> HIDE DEF R
<1>6. Complete(p)
  BY <1>2 DEF Complete, Settling
<1>7. /\ <<"run", "tec", "nuc">> \o R # <<>>
      /\ Head(<<"run", "tec", "nuc">> \o R) = "run"
      /\ Tail(<<"run", "tec", "nuc">> \o R) =
           <<"tec", "nuc">> \o R
  BY <1>3, <1>4
<1>8. /\ <<"nuc", "run", "tec", "nuc">> \o R # <<>>
      /\ Head(<<"nuc", "run", "tec", "nuc">> \o R) = "nuc"
      /\ Tail(<<"nuc", "run", "tec", "nuc">> \o R) =
           <<"run", "tec", "nuc">> \o R
  BY <1>3, <1>4
<1>9. /\ <<"init", "nuc", "run", "tec", "nuc">> \o R # <<>>
      /\ Head(<<"init", "nuc", "run", "tec", "nuc">> \o R) = "init"
      /\ Tail(<<"init", "nuc", "run", "tec", "nuc">> \o R) =
           <<"nuc", "run", "tec", "nuc">> \o R
  BY <1>3, <1>4
<1>10. /\ <<"close", "init", "nuc", "run", "tec", "nuc">> \o R # <<>>
      /\ Head(<<"close", "init", "nuc", "run", "tec", "nuc">> \o R) = "close"
      /\ Tail(<<"close", "init", "nuc", "run", "tec", "nuc">> \o R) =
           <<"init", "nuc", "run", "tec", "nuc">> \o R
  BY <1>3, <1>4
<1>11. /\ <<"on", "close", "init", "nuc", "run", "tec", "nuc">> \o R # <<>>
      /\ Head(<<"on", "close", "init", "nuc", "run", "tec", "nuc">> \o R) = "on"
      /\ Tail(<<"on", "close", "init", "nuc", "run", "tec", "nuc">> \o R) =
           <<"close", "init", "nuc", "run", "tec", "nuc">> \o R
  BY <1>3, <1>4
<1>12. <<"on", "close", "init", "nuc", "run", "tec", "nuc">> \o R \in Seq(Steps)
  BY <1>3, <1>4
<1> DEFINE p2 == <<"run", "tec", "nuc">> \o R
           p3 == <<"nuc", "run", "tec", "nuc">> \o R
           p4 == <<"init", "nuc", "run", "tec", "nuc">> \o R
           p5 == <<"close", "init", "nuc", "run", "tec", "nuc">> \o R
           p6 == <<"on", "close", "init", "nuc", "run", "tec", "nuc">> \o R
<1>13. p2 # <<>> /\ Head(p2) = "run" /\ Tail(p2) = p
  BY <1>7
<1>14. p3 # <<>> /\ Head(p3) = "nuc" /\ Tail(p3) = p2
  BY <1>8
<1>15. p4 # <<>> /\ Head(p4) = "init" /\ Tail(p4) = p3
  BY <1>9
<1>16. p5 # <<>> /\ Head(p5) = "close" /\ Tail(p5) = p4
  BY <1>10
<1>17. p6 # <<>> /\ Head(p6) = "on" /\ Tail(p6) = p5 /\ p6 \in Seq(Steps) /\ ShowInfrared = p6
  BY <1>5, <1>11, <1>12
<1> HIDE DEF p, p2, p3, p4, p5, p6
<1>18. Running(p2) /\ Correcting(p3)
  BY <1>6, <1>13, <1>14 DEF Running, Correcting, Begins
<1>19. Starting(p6)
  BY <1>15, <1>16, <1>17, <1>18 DEF Initialising, Closing, Starting, Begins
<1>20. QED BY <1>17, <1>19

LEMMA DayPlans ==
  ASSUME NEW save \in BOOLEAN
  PROVE  ShowDay(save) \in Seq(Steps) /\ Leaving(ShowDay(save))
<1> DEFINE p1 == <<"open">>
           p2 == <<"off">> \o p1
           p3 == <<"save">> \o p2
           p4 == <<"deinit">> \o p2
           p5 == <<"deinit">> \o p3
<1>1. ShowDay(TRUE) = p5 /\ ShowDay(FALSE) = p4
  BY DEF ShowDay
<1>2. ASSUME NEW x \in Steps, NEW s \in Seq(Steps)
      PROVE  <<x>> \o s \in Seq(Steps) /\ Begins(<<x>> \o s, x) /\ Tail(<<x>> \o s) = s
  BY Led DEF Begins
<1>3. {"open", "off", "save", "deinit"} \subseteq Steps
  BY DEF Steps, Orders
<1>4. p1 \in Seq(Steps) /\ Opening(p1)
  BY <1>3 DEF Opening
<1> HIDE DEF p1
<1>5. p2 \in Seq(Steps) /\ Offing(p2)
  BY <1>2, <1>3, <1>4 DEF Offing
<1> HIDE DEF p2
<1>6. p3 \in Seq(Steps) /\ Saving(p3)
  BY <1>2, <1>3, <1>5 DEF Saving
<1>7. p4 \in Seq(Steps) /\ Leaving(p4)
  BY <1>2, <1>3, <1>5 DEF Leaving
<1> HIDE DEF p3
<1>8. p5 \in Seq(Steps) /\ Leaving(p5)
  BY <1>2, <1>3, <1>6 DEF Leaving
<1>9. QED BY <1>1, <1>7, <1>8

-----------------------------------------------------------------------------
(* The steps of a change follow one another as they are planned. *)

AtNames == {"settling", "run", "nuc", "init", "close", "boot", "on", "open", "off", "save",
            "join", "deinit"}

LEMMA NothingLeft ==
  <<>> \in Seq(Steps) /\ Settling(<<>>) /\ At(<<>>) = "settling"
BY Ats DEF Settling, At

LEMMA Heads ==
  ASSUME TypeInv, Plan
  PROVE  /\ At(todo) \in AtNames
         /\ todo = <<>> => At(todo) = "settling"
         /\ At(todo) = "settling" => Settling(todo)
         /\ todo # <<>> =>
              /\ \A x \in {"run", "init", "close", "boot", "on", "open", "off", "join",
                           "deinit"} : Head(todo) = x => At(todo) = x
              /\ Head(todo) \in Settings \cup Orders => At(todo) \in {"settling", "nuc", "save"}
<1>1. todo \in Seq(Steps)
  BY DEF TypeInv, ModeTypes
<1>2. At(todo) \in AtNames /\ (At(todo) = "settling" => Settling(todo))
  BY <1>1, Ats DEF Plan, AtNames
<1>3. todo = <<>> => At(todo) = "settling"
  BY NothingLeft
<1>4. ASSUME todo # <<>>, NEW x \in {"run", "init", "close", "boot", "on", "open", "off", "join",
                                   "deinit"}, Head(todo) = x
      PROVE  At(todo) = x
  BY <1>1, <1>4, Ats, Follows
<1>5. ASSUME todo # <<>>, Head(todo) \in Settings \cup Orders
      PROVE  At(todo) \in {"settling", "nuc", "save"}
  BY <1>1, <1>5, Ats, Follows
<1>6. QED BY <1>2, <1>3, <1>4, <1>5

LEMMA NextStep ==
  ASSUME TypeInv, Plan, todo # <<>>, todo' = Tail(todo), call' = "none"
  PROVE  /\ todo' \in Seq(Steps) /\ Plan'
         /\ At(todo) = "boot" => At(todo') = "close"
         /\ At(todo) = "close" => At(todo') = "init"
         /\ At(todo) = "init" => At(todo') = "nuc"
         /\ At(todo) = "nuc" => At(todo') = "run"
         /\ At(todo) = "run" => At(todo') = "settling" /\ Complete(todo')
         /\ At(todo) = "settling" => At(todo') = "settling"
         /\ At(todo) \in {"join", "deinit"} => At(todo') \in {"save", "off"}
         /\ At(todo) = "save" => At(todo') = "off"
         /\ At(todo) = "off" => At(todo') = "open"
         /\ At(todo) = "open" => At(todo') = "settling" /\ todo' = <<>>
<1>1. todo \in Seq(Steps) /\ todo' \in Seq(Steps)
  BY Taken DEF TypeInv, ModeTypes
<1>2. At(todo) = "boot" => Closing(todo')
  BY <1>1, Ats DEF Plan, Booting
<1>3. At(todo) = "close" => Initialising(todo')
  BY <1>1, Ats DEF Plan, Closing
<1>4. At(todo) = "init" => Correcting(todo')
  BY <1>1, Ats DEF Plan, Initialising
<1>5. At(todo) = "nuc" => Running(todo')
  BY <1>1, Ats DEF Plan, Correcting
<1>6. At(todo) = "run" => Complete(todo') /\ Settling(todo')
  BY <1>1, Ats DEF Plan, Running, Complete
<1>7. At(todo) = "settling" => Settling(todo')
  BY <1>1, Ats, Follows DEF Plan
<1>8. At(todo) \in {"join", "deinit"} => Saving(todo') \/ Offing(todo')
  BY <1>1, Ats DEF Plan, Joining, Leaving
<1>9. At(todo) = "save" => Offing(todo')
  BY <1>1, Ats DEF Plan, Saving
<1>10. At(todo) = "off" => Opening(todo')
  BY <1>1, Ats DEF Plan, Offing
<1>11. At(todo) = "open" => todo' = <<>> /\ Settling(todo')
  BY <1>1, Ats, NothingLeft DEF Plan
<1>12. At(todo) = "on" => Closing(todo')
  BY <1>1, Ats DEF Plan, Starting
<1>0. At(todo) \in AtNames
  BY Heads
<1>13. Plan'
  BY <1>0, <1>2, <1>3, <1>4, <1>5, <1>6, <1>7, <1>8, <1>9, <1>10, <1>11, <1>12
     DEF Plan, AtNames
<1>14. QED
  BY <1>1, <1>2, <1>3, <1>4, <1>5, <1>6, <1>7, <1>8, <1>9, <1>10, <1>11, <1>13, Ats

LEMMA Empties ==
  ASSUME todo' = <<>>
  PROVE  Plan' /\ At(todo') = "settling" /\ todo' \in Seq(Steps)
BY NothingLeft DEF Plan

(* Steps that leave the line's types as they are. *)
LEMMA OffLine ==
  ASSUME LineTypes, LineAlone \/ UNCHANGED ircamVars
  PROVE  LineTypes'
BY DEF LineTypes, LineAlone, ircamVars, camera, driver

LEMMA Thens ==
  ASSUME TypeInv, todo # <<>>, Then(<<>>)
  PROVE  todo' = Tail(todo)
<1>1. Tail(todo) \in Seq(Steps)
  BY Taken DEF TypeInv, ModeTypes
<1>2. QED BY <1>1, ConcatEmptySeq DEF Then

-----------------------------------------------------------------------------
(* Each action keeps the types and the plan. *)

LEMMA TurnOnPlan ==
  ASSUME TypeInv, Plan, TurnOn
  PROVE  /\ TypeInv' /\ Plan' /\ At(todo) = "on"
         /\ \/ PowerOn /\ At(todo') = "boot"
            \/ power = "enable" /\ todo' = <<>> /\ At(todo') = "settling" /\ UNCHANGED ircamVars
<1>1. call = "none" /\ todo # <<>> /\ Head(todo) = "on" /\ At(todo) = "on"
  BY Heads DEF TurnOn, AtStep
<1>2. CASE PowerOn /\ Then(<<"boot">>)
  <2>1. Tail(todo) \in Seq(Steps) /\ Closing(Tail(todo))
    BY <1>1, Follows
  <2>2. "boot" \in Steps
    BY DEF Steps
  <2>3. todo' \in Seq(Steps) /\ Booting(todo')
    BY <1>2, <2>1, <2>2, Led DEF Then, Booting, Begins
  <2>4. At(todo') = "boot" /\ Plan'
    <3>1. call' = "none"
      BY <1>1, <1>2 DEF PowerOn
    <3>2. QED BY <2>3, <3>1, Ats DEF Plan
  <2>5. LineTypes'
    BY <1>2, PowerTypes DEF TypeInv
  <2>6. QED BY <1>1, <1>2, <2>3, <2>4, <2>5 DEF TurnOn, TypeInv, ModeTypes, shutterVars
<1>3. CASE power = "enable" /\ GiveUp /\ UNCHANGED ircamVars
  <2>1. Plan' /\ At(todo') = "settling" /\ todo' \in Seq(Steps) /\ todo' = <<>>
    BY <1>3, Empties DEF GiveUp
  <2>2. QED BY <1>1, <1>3, <2>1, OffLine DEF TurnOn, TypeInv, ModeTypes, shutterVars
<1>4. QED BY <1>2, <1>3 DEF TurnOn

LEMMA BootedPlan ==
  ASSUME TypeInv, Plan, Booted
  PROVE  TypeInv' /\ Plan' /\ At(todo) = "boot" /\ At(todo') = "close"
<1>1. call = "none" /\ todo # <<>> /\ Head(todo) = "boot" /\ At(todo) = "boot"
  BY Heads DEF Booted, AtStep
<1>2. todo' = Tail(todo)
  BY <1>1, Thens DEF Booted
<1>3. LineTypes' /\ call' = "none"
  BY <1>1, PowerTypes, OffLine DEF Booted, TypeInv, ircamVars, driver, BootTimeout, CutPower
<1>4. QED BY <1>1, <1>2, <1>3, NextStep DEF Booted, TypeInv, ModeTypes, shutterVars

LEMMA TurnOffPlan ==
  ASSUME TypeInv, Plan, TurnOff
  PROVE  TypeInv' /\ Plan' /\ At(todo) = "off" /\ At(todo') = "open"
<1>1. call = "none" /\ todo # <<>> /\ Head(todo) = "off" /\ At(todo) = "off"
  BY Heads DEF TurnOff, AtStep
<1>2. todo' = Tail(todo)
  BY <1>1, Thens DEF TurnOff
<1>3. LineTypes' /\ call' = "none"
  BY <1>1, PowerTypes DEF TurnOff, TypeInv, PowerOff, CutPower
<1>4. QED BY <1>1, <1>2, <1>3, NextStep DEF TurnOff, TypeInv, ModeTypes, shutterVars

(* The driver knows where the shutter is, unless a move went astray. *)
Known ==
  (closed /\ shutter = "open") \/ (~closed /\ shutter = "closed") \/ due # <<>> =>
    "astray" \in bad

LEMMA ReportTypes ==
  ASSUME NEW p \in Places, Reported(p)
  PROVE  /\ shutter' = p /\ shutter' \in Places /\ closed' \in BOOLEAN
         /\ closed' <=> p = "closed"
BY DEF Reported

(* A move puts the shutter where it should be, or tells what went wrong. *)
LEMMA Moves ==
  ASSUME ModeTypes, NEW p \in Places, MoveTo(p)
  PROVE  /\ shutter' \in Places /\ closed' \in BOOLEAN /\ due' \in Seq(Places)
         /\ bad \subseteq bad'
         /\ Known => /\ Known'
                     /\ (shutter' = p /\ (closed' <=> p = "closed")) \/ "astray" \in bad'
<1>0. due \in Seq(Places) /\ shutter \in Places /\ closed \in BOOLEAN
  BY DEF ModeTypes
<1>1. CASE Moved(p) /\ due = <<>>
  <2>1. Reported(p) /\ due' = due /\ bad' = bad
    BY <1>1 DEF Moved
  <2>2. QED BY <1>0, <1>1, <2>1, ReportTypes DEF Known, Places
<1>2. CASE Moved(p) /\ due # <<>>
  <2>1. Reported(Head(due)) /\ due' = Append(Tail(due), p) /\ bad' = bad
    BY <1>2 DEF Moved
  <2>2. Head(due) \in Places /\ Tail(due) \in Seq(Places)
    BY <1>0, <1>2, Taken
  <2>3. due' \in Seq(Places)
    BY <2>1, <2>2
  <2>4. QED BY <1>2, <2>1, <2>2, <2>3, ReportTypes DEF Known
<1>3. CASE Astray(p)
  <2>1. bad' = bad \cup {"astray"}
    BY <1>3 DEF Astray, Failing
  <2>2. shutter' \in Places /\ closed' \in BOOLEAN /\ due' \in Seq(Places)
    BY <1>0, <1>3 DEF Astray, shutterVars
  <2>3. QED BY <2>1, <2>2 DEF Known
<1>4. QED BY <1>1, <1>2, <1>3 DEF MoveTo

LEMMA NoMoves ==
  ASSUME ModeTypes, NEW p, MoveFails(p)
  PROVE  /\ shutter' \in Places /\ closed' \in BOOLEAN /\ due' \in Seq(Places)
         /\ bad' = bad \cup {"shutter"}
         /\ Known => Known'
BY DEF ModeTypes, MoveFails, shutterVars, Known

LEMMA ClosePlan ==
  ASSUME TypeInv, Plan, CloseShutter
  PROVE  /\ TypeInv' /\ Plan' /\ At(todo) = "close" /\ power' = power
         /\ bad \subseteq bad' /\ view' = view
         /\ Known => Known'
         /\ \/ /\ At(todo') = "init"
               /\ Known => closed' \/ "astray" \in bad'
            \/ todo' = <<>> /\ At(todo') = "settling" /\ "shutter" \in bad'
<1>1. call = "none" /\ todo # <<>> /\ Head(todo) = "close" /\ At(todo) = "close"
  BY Heads DEF CloseShutter, AtStep
<1>2. LineTypes' /\ call' = "none" /\ power' = power
  BY <1>1, OffLine DEF CloseShutter, TypeInv, LineAlone, driver
<1>3. ModeTypes /\ "closed" \in Places /\ view' = view /\ saved' = saved
  BY DEF CloseShutter, TypeInv, Places
<1>4. CASE MoveTo("closed") /\ Then(<<>>)
  <2>1. todo' = Tail(todo)
    BY <1>1, <1>4, Thens
  <2>2. QED BY <1>1, <1>2, <1>3, <1>4, <2>1, Moves, NextStep DEF TypeInv, ModeTypes
<1>5. CASE MoveFails("closed") /\ GiveUp
  BY <1>1, <1>2, <1>3, <1>5, NoMoves, Empties DEF GiveUp, TypeInv, ModeTypes
<1>6. QED BY <1>4, <1>5 DEF CloseShutter

LEMMA OpenPlan ==
  ASSUME TypeInv, Plan, OpenShutter
  PROVE  /\ TypeInv' /\ Plan' /\ At(todo) = "open" /\ power' = power
         /\ todo' = <<>> /\ At(todo') = "settling"
         /\ bad \subseteq bad' /\ view' = view
         /\ Known => Known' /\ (shutter' = "open" \/ bad' \cap {"astray", "shutter"} # {})
<1>1. call = "none" /\ todo # <<>> /\ Head(todo) = "open" /\ At(todo) = "open"
  BY Heads DEF OpenShutter, AtStep
<1>2. todo' = Tail(todo)
  BY <1>1, Thens DEF OpenShutter
<1>3. LineTypes' /\ call' = "none" /\ power' = power
  BY <1>1, OffLine DEF OpenShutter, TypeInv, LineAlone, driver
<1>4. ModeTypes /\ "open" \in Places /\ view' = view /\ saved' = saved
  BY DEF OpenShutter, TypeInv, Places
<1>5. /\ shutter' \in Places /\ closed' \in BOOLEAN /\ due' \in Seq(Places)
      /\ bad \subseteq bad'
      /\ Known => Known' /\ (shutter' = "open" \/ bad' \cap {"astray", "shutter"} # {})
  <2>1. CASE MoveTo("open")
    BY <1>4, <2>1, Moves
  <2>2. CASE MoveFails("open")
    BY <1>4, <2>2, NoMoves
  <2>3. QED BY <2>1, <2>2 DEF OpenShutter
<1>6. QED BY <1>1, <1>2, <1>3, <1>4, <1>5, NextStep DEF TypeInv, ModeTypes

(* The preview's steps. *)
LEMMA PreviewPlan ==
  ASSUME TypeInv, Plan, Initialise \/ Run \/ Join
  PROVE  /\ TypeInv' /\ Plan' /\ power' = power
         /\ Initialise => At(todo) = "init" /\ At(todo') = "nuc"
         /\ Run => At(todo) = "run" /\ At(todo') = "settling" /\ Complete(todo')
         /\ Join => At(todo) = "join" /\ At(todo') \in {"save", "off"}
<1>1. /\ call = "none" /\ todo # <<>> /\ Then(<<>>)
      /\ Initialise => At(todo) = "init"
      /\ Run => At(todo) = "run"
      /\ Join => At(todo) = "join"
      /\ At(todo) \in {"init", "run", "join"}
  BY Heads DEF Initialise, Run, Join, AtStep
<1>2. todo' = Tail(todo)
  BY <1>1, Thens
<1>3. LineTypes' /\ call' = "none" /\ power' = power
  <2>1. LineAlone \/ UNCHANGED ircamVars
    BY DEF Initialise, Run, Join
  <2>2. QED BY <1>1, <2>1, OffLine DEF TypeInv, LineAlone, driver, ircamVars
<1>4. view' \in Views /\ UNCHANGED shutterVars /\ saved' = saved
  BY ViewTypes DEF Initialise, Run, Join, TypeInv, ModeTypes
<1>5. QED BY <1>1, <1>2, <1>3, <1>4, NextStep DEF TypeInv, ModeTypes, shutterVars

LEMMA LeavePlan ==
  ASSUME TypeInv, Plan, Deinitialise
  PROVE  /\ TypeInv' /\ Plan' /\ At(todo) = "deinit"
         /\ \/ view.state = "stop" /\ At(todo') \in {"save", "off"}
            \/ view.state # "stop" /\ At(todo') = "join"
<1>1. call = "none" /\ todo # <<>> /\ Head(todo) = "deinit" /\ At(todo) = "deinit"
  BY Heads DEF Deinitialise, AtStep
<1>2. LineTypes' /\ call' = "none"
  BY <1>1, OffLine DEF Deinitialise, TypeInv, ircamVars, driver
<1>3. view' \in Views
  BY ViewTypes DEF Deinitialise, TypeInv, ModeTypes
<1>4. CASE view.state = "stop"
  <2>1. todo' = Tail(todo)
    BY <1>1, <1>4, Thens DEF Deinitialise, Then
  <2>2. QED BY <1>1, <1>2, <1>3, <1>4, <2>1, NextStep DEF Deinitialise, TypeInv, ModeTypes, shutterVars
<1>5. CASE view.state # "stop"
  <2>1. Tail(todo) \in Seq(Steps) /\ (Saving(Tail(todo)) \/ Offing(Tail(todo)))
    BY <1>1, Follows
  <2>2. "join" \in Steps
    BY DEF Steps
  <2>3. todo' = <<"join">> \o Tail(todo)
    BY <1>5 DEF Deinitialise, Then
  <2>4. todo' \in Seq(Steps) /\ Joining(todo')
    BY <2>1, <2>2, <2>3, Led DEF Joining, Begins
  <2>5. At(todo') = "join" /\ Plan'
    BY <1>2, <2>4, Ats DEF Plan
  <2>6. QED BY <1>1, <1>2, <1>3, <1>5, <2>4, <2>5 DEF Deinitialise, TypeInv, ModeTypes, shutterVars
<1>6. QED BY <1>4, <1>5

(* The command that the next step is. *)
Step == Message(Head(todo), IF Head(todo) \in Settings THEN cache[Head(todo)] ELSE 0)

LEMMA CommandPlan ==
  ASSUME TypeInv, Plan, Command
  PROVE  /\ TypeInv' /\ Plan' /\ power' = power
         /\ call = "none" /\ todo # <<>> /\ Step \in Commands
         /\ At(todo) \in {"settling", "nuc", "save"}
         /\ \/ Write(Step) /\ todo' = todo /\ At(todo') = At(todo)
            \/ /\ WriteFails(Step) /\ todo' = Tail(todo)
               /\ At(todo) = "settling" => At(todo') = "settling"
               /\ At(todo) = "nuc" => At(todo') = "run"
               /\ At(todo) = "save" => At(todo') = "off"
<1>1. /\ call = "none" /\ todo # <<>> /\ Head(todo) \in Settings \cup Orders
      /\ At(todo) \in {"settling", "nuc", "save"}
  BY Heads DEF Command
<1>2. Step \in Commands
  <2>1. CASE Head(todo) \in Settings
    BY <2>1, Messages1 DEF Step, TypeInv, LineTypes
  <2>2. CASE Head(todo) \notin Settings
    BY <1>1, <2>2, Messages1 DEF Step
  <2>3. QED BY <2>1, <2>2
<1>3. (Write(Step) /\ todo' = todo) \/ (WriteFails(Step) /\ Then(<<>>))
  BY Zenon DEF Command, Step
<1>4. LineTypes' /\ power' = power
  BY <1>2, <1>3, CallTypes DEF TypeInv, Write, WriteFails
<1>5. CASE Write(Step) /\ todo' = todo
  <2>1. Plan' /\ At(todo') = At(todo)
    BY <1>1, <1>5 DEF Plan
  <2>2. QED BY <1>1, <1>2, <1>4, <1>5, <2>1 DEF Command, TypeInv, ModeTypes, shutterVars
<1>6. CASE WriteFails(Step) /\ Then(<<>>)
  <2>1. todo' = Tail(todo) /\ call' = "none"
    BY <1>1, <1>6, Thens DEF WriteFails
  <2>2. QED BY <1>1, <1>2, <1>4, <1>6, <2>1, NextStep DEF Command, TypeInv, ModeTypes, shutterVars
<1>7. QED BY <1>3, <1>5, <1>6

LEMMA AnsweredPlan ==
  ASSUME TypeInv, Plan, Answered
  PROVE  /\ TypeInv' /\ Plan' /\ At(todo) \in {"settling", "nuc", "save"}
         /\ todo # <<>> => todo' = Tail(todo)
         /\ todo = <<>> => todo' = <<>>
         /\ At(todo) = "settling" => At(todo') = "settling"
         /\ At(todo) = "nuc" => At(todo') = "run"
         /\ At(todo) = "save" => At(todo') = "off"
<1>1. /\ call = "asleep" /\ ~waitAck /\ call' = "none"
      /\ At(todo) \in {"settling", "nuc", "save"}
  BY DEF Answered, Woken, Plan
<1>2. LineTypes' /\ saved' \in Shifts \cup {Unmoved}
  BY PowerTypes DEF Answered, TypeInv, ModeTypes, LineTypes
<1>3. CASE todo = <<>>
  BY <1>1, <1>2, <1>3, Empties, NothingLeft DEF Answered, TypeInv, ModeTypes, shutterVars
<1>4. CASE todo # <<>>
  <2>1. todo' = Tail(todo)
    BY <1>4 DEF Answered
  <2>2. QED BY <1>1, <1>2, <1>4, <2>1, NextStep DEF Answered, TypeInv, ModeTypes, shutterVars
<1>5. QED BY <1>3, <1>4

LEMMA TogglePlan ==
  ASSUME TypeInv, Plan, ToggleOn \/ ToggleOff
  PROVE  /\ TypeInv' /\ Plan' /\ todo = <<>> /\ At(todo) = "settling"
         /\ ToggleOn => At(todo') = "on"
         /\ ToggleOff => At(todo') = "deinit"
<1>1. todo = <<>> /\ call = "none" /\ At(todo) = "settling"
  BY NothingLeft DEF ToggleOn, ToggleOff, Idle, Change
<1>2. LineTypes' /\ call' = "none"
  BY <1>1, OffLine DEF ToggleOn, ToggleOff, TypeInv, ircamVars, driver, Change
<1>3. CASE ToggleOn
  <2>1. todo' \in Seq(Steps) /\ Starting(todo')
    BY <1>3, InfraredPlan DEF ToggleOn, Change
  <2>2. Plan' /\ At(todo') = "on"
    BY <1>2, <2>1, Ats DEF Plan
  <2>3. ~ToggleOff
    BY <1>3 DEF ToggleOn, ToggleOff
  <2>4. QED BY <1>1, <1>2, <1>3, <2>1, <2>2, <2>3 DEF ToggleOn, TypeInv, ModeTypes, Change, shutterVars
<1>4. CASE ToggleOff
  <2>1. todo' \in Seq(Steps) /\ Leaving(todo')
    BY <1>4, DayPlans DEF ToggleOff, Change
  <2>2. Plan' /\ At(todo') = "deinit"
    BY <1>2, <2>1, Ats DEF Plan
  <2>3. ~ToggleOn
    BY <1>4 DEF ToggleOn, ToggleOff
  <2>4. QED BY <1>1, <1>2, <1>4, <2>1, <2>2, <2>3 DEF ToggleOff, TypeInv, ModeTypes, Change, shutterVars
<1>5. QED BY <1>3, <1>4

LEMMA Toggles ==
  ASSUME ToggleOn \/ ToggleOff
  PROVE  /\ UNCHANGED <<ircamVars, view, shutterVars, saved>>
         /\ (InOrder /\ bad' = {}) \/ (~InOrder /\ bad' = bad)
         /\ ToggleOn => view.state = "stop"
         /\ ToggleOff => view.state = "run"
<1>1. /\ ToggleOn => view.state = "stop"
      /\ ToggleOff => view.state = "run"
  BY DEF ToggleOn, ToggleOff
<1>2. PICK steps : Change(steps)
  BY DEF ToggleOn, ToggleOff
<1>3. UNCHANGED <<ircamVars, view, shutterVars, saved>>
  BY <1>2 DEF Change
<1>4. bad' = IF InOrder THEN {} ELSE bad
  BY <1>2 DEF Change
<1>5. QED BY <1>1, <1>3, <1>4

(* Between changes the user sends a setting or an order. *)
LEMMA UserPlan ==
  ASSUME TypeInv, Plan, Adjust \/ Order
  PROVE  /\ TypeInv' /\ Plan' /\ power' = power /\ todo = <<>> /\ todo' = <<>>
         /\ call = "none" /\ At(todo) = "settling" /\ At(todo') = "settling"
         /\ UNCHANGED <<view, shutterVars, saved, bad>>
         /\ \E m \in Commands : Write(m) \/ WriteFails(m)
<1>1. PICK m \in Commands : Sent(m)
  <2>1. CASE Adjust
    <3>1. PICK s \in Settings : \E v \in {cache[s] + 1, cache[s] - 1} : Sent(Message(s, Clamp(v)))
      BY <2>1 DEF Adjust
    <3>2. PICK v \in {cache[s] + 1, cache[s] - 1} : Sent(Message(s, Clamp(v)))
      BY <3>1
    <3>3. cache[s] \in Values
      BY DEF TypeInv, LineTypes
    <3>4. Clamp(v) \in Values
      BY <3>3, Numbers
    <3>5. QED BY <3>2, <3>4, Messages1
  <2>2. CASE Order
    <3>1. PICK cmd \in {"move", "nuc"} : Sent(Message(cmd, 0))
      BY <2>2 DEF Order
    <3>2. cmd \in Orders
      BY DEF Orders
    <3>3. QED BY <3>1, <3>2, Messages1
  <2>3. QED BY <2>1, <2>2
<1>2. /\ todo = <<>> /\ todo' = <<>> /\ call = "none"
      /\ UNCHANGED <<view, shutterVars, saved, bad>>
  BY <1>1 DEF Adjust, Order, Idle, Sent
<1>3. Write(m) \/ WriteFails(m)
  BY <1>1 DEF Sent
<1>4. LineTypes' /\ power' = power
  BY <1>3, CallTypes DEF TypeInv, Write, WriteFails
<1>5. Plan' /\ At(todo') = "settling" /\ At(todo) = "settling" /\ todo' \in Seq(Steps)
  BY <1>2, Empties, NothingLeft
<1>6. QED BY <1>2, <1>3, <1>4, <1>5 DEF TypeInv, ModeTypes, shutterVars

(* The line, the camera and the preview's thread leave the plan alone. *)
LEMMA OthersPlan ==
  ASSUME TypeInv, Plan, Wait \/ Reader \/ Camera \/ Thread \/ UNCHANGED vars
  PROVE  TypeInv' /\ Plan' /\ todo' = todo /\ At(todo') = At(todo)
<1>1. CASE Wait
  <2>1. LineTypes' /\ call = "sent" /\ UNCHANGED modeVars
    BY <1>1, PowerTypes DEF Wait, SetWait, TypeInv
  <2>2. QED BY <2>1 DEF modeVars, TypeInv, ModeTypes, Plan, shutterVars
<1>2. CASE Reader
  <2>1. LineTypes' /\ call' = call /\ UNCHANGED modeVars
    BY <1>2, ReaderTypes DEF Reader, Read, Expire, TypeInv
  <2>2. QED BY <2>1 DEF modeVars, TypeInv, ModeTypes, Plan, shutterVars
<1>3. CASE Camera
  <2>1. LineTypes' /\ call' = call /\ UNCHANGED modeVars
    BY <1>3, CameraTypes
       DEF Camera, Boot, Answer, Ignore, LoseCommand, LoseAnswer, TypeInv, driver
  <2>2. QED BY <2>1 DEF modeVars, TypeInv, ModeTypes, Plan, shutterVars
<1>4. CASE Thread
  <2>1. LineTypes' /\ call' = call /\ todo' = todo /\ saved' = saved /\ UNCHANGED shutterVars
    BY <1>4, OffLine DEF Thread, ThreadStarts, ThreadFails, ThreadEnds, LineAlone, ircamVars,
                         driver, TypeInv
  <2>2. view' \in Views
    BY <1>4, ViewTypes DEF Thread, ThreadStarts, ThreadFails, ThreadEnds, TypeInv, ModeTypes
  <2>3. QED BY <2>1, <2>2 DEF TypeInv, ModeTypes, Plan, shutterVars
<1>5. CASE UNCHANGED vars
  <2>1. LineTypes' /\ call' = call /\ UNCHANGED modeVars
    BY <1>5, OffLine DEF vars, TypeInv, ircamVars, driver
  <2>2. QED BY <2>1 DEF modeVars, TypeInv, ModeTypes, Plan, shutterVars
<1>6. QED BY <1>1, <1>2, <1>3, <1>4, <1>5

LEMMA LatePlan ==
  ASSUME TypeInv, Plan, LateMove
  PROVE  /\ TypeInv' /\ Plan' /\ At(todo') = At(todo) /\ due # <<>>
         /\ UNCHANGED <<ircamVars, view, todo, bad>>
<1>1. due # <<>> /\ due' = Tail(due) /\ UNCHANGED <<ircamVars, view, todo, saved, bad>>
  BY DEF LateMove
<1>2. shutter' = Head(due) /\ closed' \in {closed, Head(due) = "closed"}
  BY DEF LateMove
<1>3. shutter' \in Places /\ due' \in Seq(Places)
  BY <1>1, <1>2, Taken DEF TypeInv, ModeTypes
<1>4. closed' \in BOOLEAN
  BY <1>2 DEF TypeInv, ModeTypes
<1>5. LineTypes' /\ call' = call
  BY <1>1, OffLine DEF TypeInv, ircamVars, driver
<1>6. QED BY <1>1, <1>3, <1>4, <1>5 DEF TypeInv, ModeTypes, Plan

LEMMA StepPlan ==
  ASSUME TypeInv, Plan, [Next]_vars
  PROVE  TypeInv' /\ Plan'
BY TurnOnPlan, BootedPlan, TurnOffPlan, ClosePlan, OpenPlan, PreviewPlan, LeavePlan,
   CommandPlan, AnsweredPlan, TogglePlan, UserPlan, OthersPlan, LatePlan DEF Next, Main, User

LEMMA InitPlan ==
  ASSUME Init
  PROVE  TypeInv /\ Plan /\ At(todo) = "settling"
<1>1. LineTypes
  <2>1. Factory \in [Settings -> Values] /\ [s \in Settings |-> Top \div 2] \in [Settings -> Values]
    BY Numbers DEF Factory
  <2>2. op \in Commands
    BY Messages1 DEF Init, IrcamInit, Message, Orders
  <2>3. cam \in [on : BOOLEAN, booted : BOOLEAN, set : [Settings -> Values], shift : Shifts]
    BY <2>1, Numbers DEF Init, IrcamInit
  <2>4. cmds \in Seq(Commands) /\ wire \in Seq(Messages)
    BY DEF Init, IrcamInit
  <2>5. cache \in [Settings -> Values] /\ power \in Powers /\ error \subseteq Errors
    BY <2>1 DEF Init, IrcamInit, Powers
  <2>6. /\ waitAck \in BOOLEAN /\ call \in {"none", "sent", "asleep"} /\ doubt \in BOOLEAN
        /\ shift \in Shifts \cup {Unmoved}
    BY DEF Init, IrcamInit
  <2>7. QED BY <2>2, <2>3, <2>4, <2>5, <2>6 DEF LineTypes
<1>2. view \in Views
  BY DEF Init, vgss_create, Views, States, Threads, Objects
<1>3. cam.shift \in Shifts
  BY <1>1 DEF LineTypes
<1>4. shutter \in Places /\ closed \in BOOLEAN /\ due \in Seq(Places)
  <2>1. shutter \in Places /\ closed = FALSE /\ due = <<>>
    BY Zenon DEF Init, Places
  <2>2. <<>> \in Seq(Places)
    BY EmptySeq
  <2>3. QED BY <2>1, <2>2
<1>5. saved \in Shifts /\ todo = <<>> /\ call = "none"
  BY <1>3 DEF Init, IrcamInit
<1>6. QED BY <1>1, <1>2, <1>4, <1>5, NothingLeft DEF TypeInv, ModeTypes, Plan

(* The types of the variables, for any settings and limits. *)
THEOREM Typing == Spec => []TypeOK
<1>1. TypeInv => TypeOK
  BY DEF TypeInv, LineTypes, ModeTypes, TypeOK, Places
<1>2. QED BY <1>1, InitPlan, StepPlan, PTL DEF Spec

-----------------------------------------------------------------------------
(* The power, the preview and the shutter along a change. *)

(* The camera's power boots in its step only, and is on from then till the end of
   the infrared view, unless it did not boot. *)
PowerPlan ==
  /\ power = "booting" => At(todo) = "boot"
  /\ At(todo) \in {"close", "init", "nuc", "run"} \/ Infrared =>
       power = "enable" \/ "boot" \in bad

(* The preview runs from its step on, and has a thread. *)
RunPlan ==
  /\ Infrared => At(todo) \in {"settling", "deinit"}
  /\ At(todo) \in {"nuc", "run"} => view.state = "pause" \/ bad \cap {"init", "stream"} # {}
  /\ At(todo) \in {"nuc", "run"} \/ Infrared =>
       view.thread \in {"begin", "on"} \/ bad \cap {"init", "stream"} # {}

(* Outside the infrared view the power is off and the shutter open, until a change
   comes to them. *)
DayPlan ==
  bad \cap {"shutter", "stream", "belated"} = {} /\ ~Infrared =>
    /\ At(todo) \in {"settling", "on", "open"} => power # "enable"
    /\ At(todo) \in {"settling", "on", "boot", "close"} =>
         shutter = "open" \/ "astray" \in bad

(* The shutter is where the driver takes it to be, and closed from its step on. *)
ShutterPlan ==
  /\ Known
  /\ At(todo) \in {"init", "nuc", "run"} \/ Infrared => closed \/ "astray" \in bad

ChangeInv == TypeInv /\ Plan /\ PowerPlan /\ RunPlan /\ DayPlan /\ ShutterPlan

LineStep == Command \/ Answered \/ Adjust \/ Order \/ Wait \/ Reader \/ Camera \/ UNCHANGED vars

LEMMA Cases ==
  ASSUME [Next]_vars
  PROVE  \/ LineStep \/ ToggleOn \/ ToggleOff
         \/ TurnOn \/ Booted \/ TurnOff \/ CloseShutter \/ OpenShutter
         \/ Initialise \/ Run \/ Deinitialise \/ Join
         \/ ThreadStarts \/ ThreadFails \/ ThreadEnds \/ LateMove
BY DEF Next, Main, User, Thread, LineStep

LEMMA LineMoves ==
  ASSUME TypeInv, Plan, LineStep
  PROVE  /\ UNCHANGED <<view, shutterVars, bad>>
         /\ power' = power \/ (power = "booting" /\ power' = "enable")
         /\ \/ At(todo') = At(todo)
            \/ At(todo) = "nuc" /\ At(todo') = "run"
            \/ At(todo) = "save" /\ At(todo') = "off"
<1>1. CASE Command
  BY <1>1, CommandPlan DEF Command
<1>2. CASE Answered
  BY <1>2, AnsweredPlan DEF Answered, Woken
<1>3. CASE Adjust \/ Order
  BY <1>3, UserPlan
<1>4. CASE Reader
  <2>1. UNCHANGED modeVars /\ At(todo') = At(todo)
    BY <1>4, OthersPlan DEF Reader
  <2>2. power' = power \/ (power = "booting" /\ power' = "enable")
    BY <1>4 DEF Reader, Read, Parse, Expire
  <2>3. QED BY <2>1, <2>2 DEF modeVars
<1>5. CASE Wait \/ Camera \/ UNCHANGED vars
  <2>1. At(todo') = At(todo)
    BY <1>5, OthersPlan
  <2>2. UNCHANGED <<view, shutterVars, bad, power>>
    BY <1>5 DEF Wait, SetWait, Camera, Boot, Answer, Ignore, LoseCommand, LoseAnswer, modeVars,
                driver, vars, ircamVars, shutterVars
  <2>3. QED BY <2>1, <2>2
<1>6. QED BY <1>1, <1>2, <1>3, <1>4, <1>5 DEF LineStep

(* The thread moves the preview only. *)
LEMMA ThreadMoves ==
  ASSUME TypeInv, Plan, ThreadStarts \/ ThreadFails \/ ThreadEnds
  PROVE  /\ At(todo') = At(todo) /\ UNCHANGED <<shutterVars, power>>
         /\ bad \subseteq bad'
         /\ ThreadStarts => /\ view.state = "pause" \/ "belated" \in bad'
                            /\ view'.state = "pause"
                            /\ view'.thread = "on" \/ "stream" \in bad'
         /\ ThreadFails => "stream" \in bad' /\ view'.state = "stop"
         /\ ThreadEnds => view.state = "stop" /\ view'.state = "stop"
<1>1. view \in Views
  BY DEF TypeInv, ModeTypes
<1>2. At(todo') = At(todo)
  BY OthersPlan DEF Thread
<1>3. UNCHANGED <<shutterVars, power>> /\ bad \subseteq bad'
  BY DEF ThreadStarts, ThreadFails, ThreadEnds, Failing, LineAlone, driver, ircamVars
<1>4. ASSUME ThreadStarts
      PROVE  /\ view.state = "pause" \/ "belated" \in bad'
             /\ view'.state = "pause"
             /\ view'.thread = "on" \/ "stream" \in bad'
  BY <1>1, <1>4, ViewFields DEF ThreadStarts
<1>5. ASSUME ThreadFails PROVE "stream" \in bad' /\ view'.state = "stop"
  BY <1>1, <1>5, ViewFields DEF ThreadFails, Failing
<1>6. ASSUME ThreadEnds PROVE view.state = "stop" /\ view'.state = "stop"
  BY <1>1, <1>6, ViewFields DEF ThreadEnds
<1>7. QED BY <1>2, <1>3, <1>4, <1>5, <1>6

LEMMA PowerStep ==
  ASSUME TypeInv, Plan, RunPlan, PowerPlan, [Next]_vars
  PROVE  PowerPlan'
<1> USE DEF PowerPlan, Infrared
<1>1. CASE LineStep
  BY <1>1, LineMoves
<1>2. CASE ToggleOn \/ ToggleOff
  <2>1. UNCHANGED <<power, view>> /\ (bad' = bad \/ InOrder)
    BY <1>2, Toggles DEF ircamVars, driver
  <2>2. At(todo) = "settling" /\ At(todo') \in {"on", "deinit"}
    BY <1>2, TogglePlan
  <2>3. InOrder /\ Infrared => power = "enable"
    BY DEF InOrder
  <2>4. QED BY <2>1, <2>2, <2>3
<1>3. CASE TurnOn
  <2>1. UNCHANGED <<bad, view>>
    BY <1>3 DEF TurnOn
  <2>2. At(todo) = "on" /\ ~Infrared
    BY <1>3, TurnOnPlan DEF RunPlan
  <2>3. QED BY <1>3, <2>1, <2>2, TurnOnPlan DEF PowerOn, ircamVars, driver
<1>4. CASE Booted
  <2>1. At(todo) = "boot" /\ At(todo') = "close" /\ view' = view
    BY <1>4, BootedPlan DEF Booted
  <2>2. \/ power' = "enable" /\ bad' = bad
        \/ power' = "disable" /\ "boot" \in bad'
    BY <1>4 DEF Booted, BootTimeout, CutPower, ircamVars, driver
  <2>3. QED BY <2>1, <2>2
<1>5. CASE TurnOff
  <2>1. At(todo) = "off" /\ At(todo') = "open" /\ ~Infrared
    BY <1>5, TurnOffPlan DEF RunPlan
  <2>2. power' = "disable" /\ view' = view
    BY <1>5 DEF TurnOff, PowerOff, CutPower
  <2>3. QED BY <2>1, <2>2
<1>6. CASE CloseShutter
  BY <1>6, ClosePlan
<1>7. CASE OpenShutter
  BY <1>7, OpenPlan
<1>8. CASE Initialise
  <2>1. bad \subseteq bad' /\ power' = power /\ At(todo) = "init" /\ At(todo') = "nuc"
    BY <1>8, PreviewPlan DEF Initialise, Failing
  <2>2. QED BY <2>1
<1>9. CASE Run
  <2>1. bad' = bad /\ power' = power /\ At(todo) = "run" /\ At(todo') = "settling"
    BY <1>9, PreviewPlan DEF Run
  <2>2. QED BY <2>1
<1>10. CASE Join
  <2>1. bad' = bad /\ power' = power /\ At(todo) = "join" /\ At(todo') \in {"save", "off"}
    BY <1>10, PreviewPlan DEF Join
  <2>2. view'.state = view.state
    BY <1>10, ViewFields DEF Join, TypeInv, ModeTypes
  <2>3. QED BY <2>1, <2>2
<1>11. CASE Deinitialise
  <2>1. bad' = bad /\ power' = power /\ At(todo) = "deinit" /\ At(todo') \in {"save", "off", "join"}
    BY <1>11, LeavePlan DEF Deinitialise, ircamVars, driver
  <2>2. view'.state = "stop"
    BY <1>11, ViewFields DEF Deinitialise, TypeInv, ModeTypes
  <2>3. QED BY <2>1, <2>2
<1>12. CASE ThreadStarts \/ ThreadFails \/ ThreadEnds
  <2>1. ~Infrared'
    BY <1>12, ThreadMoves
  <2>2. QED BY <1>12, <2>1, ThreadMoves
<1>13. CASE LateMove
  BY <1>13, LatePlan DEF ircamVars, driver
<1>14. QED
  BY <1>1, <1>2, <1>3, <1>4, <1>5, <1>6, <1>7, <1>8, <1>9, <1>10, <1>11, <1>12, <1>13, Cases

LEMMA RunStep ==
  ASSUME TypeInv, Plan, RunPlan, [Next]_vars
  PROVE  RunPlan'
<1> USE DEF RunPlan, Infrared
<1>0. view \in Views
  BY DEF TypeInv, ModeTypes
<1>1. CASE LineStep
  BY <1>1, LineMoves
<1>2. CASE ToggleOn \/ ToggleOff
  <2>1. view' = view /\ (bad' = bad \/ InOrder)
    BY <1>2, Toggles
  <2>2. /\ At(todo) = "settling"
        /\ (ToggleOn => At(todo') = "on") /\ (ToggleOff => At(todo') = "deinit")
    BY <1>2, TogglePlan
  <2>3. ToggleOn => view.state = "stop"
    BY DEF ToggleOn
  <2>4. InOrder /\ Infrared => view.thread \in {"begin", "on"}
    BY DEF InOrder, Whole
  <2>5. QED BY <1>2, <2>1, <2>2, <2>3, <2>4
<1>3. CASE TurnOn \/ Booted \/ TurnOff \/ CloseShutter \/ OpenShutter
  <2>1. view' = view
    BY <1>3 DEF TurnOn, Booted, TurnOff, CloseShutter, OpenShutter
  <2>2. At(todo) \in {"on", "boot", "off", "close", "open"} /\ At(todo') \notin {"nuc", "run"}
    BY <1>3, TurnOnPlan, BootedPlan, TurnOffPlan, ClosePlan, OpenPlan
  <2>3. QED BY <2>1, <2>2
<1>4. CASE Initialise
  <2>1. At(todo) = "init" /\ At(todo') = "nuc"
    BY <1>4, PreviewPlan
  <2>2. CASE view' = InitPreview(view)
    BY <1>0, <2>1, <2>2, ViewFields
  <2>3. CASE view' \in InitFails(view) /\ "init" \in bad'
    BY <1>0, <2>1, <2>3, ViewFields
  <2>4. QED BY <1>4, <2>2, <2>3 DEF Initialise, Failing
<1>5. CASE Run
  <2>1. At(todo) = "run" /\ At(todo') = "settling" /\ view' = RunPreview(view) /\ bad' = bad
    BY <1>5, PreviewPlan DEF Run
  <2>2. view'.thread = view.thread
    BY <1>0, <2>1, ViewFields
  <2>3. QED BY <2>1, <2>2
<1>6. CASE Join
  <2>1. At(todo) = "join" /\ At(todo') \in {"save", "off"} /\ view' = JoinPreview(view)
    BY <1>6, PreviewPlan DEF Join
  <2>2. view'.state = view.state
    BY <1>0, <2>1, ViewFields
  <2>3. QED BY <2>1, <2>2
<1>7. CASE Deinitialise
  <2>1. At(todo') \in {"save", "off", "join"} /\ view' = StopPreview(view)
    BY <1>7, LeavePlan DEF Deinitialise
  <2>2. view'.state = "stop"
    BY <1>0, <2>1, ViewFields
  <2>3. QED BY <2>1, <2>2
<1>8. CASE ThreadStarts
  <2>1. /\ view'.state = "pause" /\ At(todo') = At(todo) /\ bad \subseteq bad'
        /\ view'.thread = "on" \/ "stream" \in bad'
    BY <1>8, ThreadMoves
  <2>2. QED BY <2>1
<1>9. CASE ThreadFails
  <2>1. "stream" \in bad' /\ view'.state = "stop"
    BY <1>9, ThreadMoves
  <2>2. QED BY <2>1
<1>10. CASE ThreadEnds
  <2>1. /\ view.state = "stop" /\ view'.state = "stop" /\ At(todo') = At(todo)
        /\ bad \subseteq bad'
    BY <1>10, ThreadMoves
  <2>2. QED BY <2>1
<1>11. CASE LateMove
  BY <1>11, LatePlan
<1>12. QED
  BY <1>11, <1>1, <1>2, <1>3, <1>4, <1>5, <1>6, <1>7, <1>8, <1>9, <1>10, Cases

LEMMA DayStep ==
  ASSUME TypeInv, Plan, PowerPlan, RunPlan, DayPlan, ShutterPlan, [Next]_vars
  PROVE  DayPlan'
<1> USE DEF DayPlan, Infrared
<1>0. view \in Views
  BY DEF TypeInv, ModeTypes
<1>1. CASE LineStep
  BY <1>1, LineMoves DEF PowerPlan, shutterVars
<1>2. CASE ToggleOn \/ ToggleOff
  <2>1. UNCHANGED <<view, power, shutter>> /\ (bad' = bad \/ InOrder)
    BY <1>2, Toggles DEF ircamVars, driver, shutterVars
  <2>2. At(todo) = "settling" /\ At(todo') \in {"on", "deinit"}
    BY <1>2, TogglePlan
  <2>3. InOrder /\ ~Infrared => power # "enable" /\ shutter = "open"
    BY DEF InOrder, TypeInv, ModeTypes, Places
  <2>4. QED BY <2>1, <2>2, <2>3
<1>3. CASE TurnOn
  <2>1. UNCHANGED <<bad, view, shutter>> /\ At(todo) = "on"
    BY <1>3, TurnOnPlan DEF TurnOn, shutterVars
  <2>2. At(todo') = "boot" \/ (power = "enable" /\ At(todo') = "settling" /\ power' = power)
    BY <1>3, TurnOnPlan DEF ircamVars, driver
  <2>3. QED BY <2>1, <2>2
<1>4. CASE Booted
  <2>1. At(todo) = "boot" /\ At(todo') = "close" /\ view' = view /\ shutter' = shutter
    BY <1>4, BootedPlan DEF Booted, shutterVars
  <2>2. bad \subseteq bad'
    BY <1>4 DEF Booted
  <2>3. QED BY <2>1, <2>2
<1>5. CASE TurnOff
  BY <1>5, TurnOffPlan DEF TurnOff, PowerOff, CutPower
<1>6. CASE CloseShutter
  <2>1. At(todo') = "init" \/ "shutter" \in bad'
    BY <1>6, ClosePlan
  <2>2. QED BY <2>1
<1>7. CASE OpenShutter
  <2>1. /\ At(todo) = "open" /\ At(todo') = "settling" /\ power' = power /\ view' = view
        /\ bad \subseteq bad'
    BY <1>7, OpenPlan
  <2>2. shutter' = "open" \/ bad' \cap {"astray", "shutter"} # {}
    BY <1>7, OpenPlan DEF ShutterPlan
  <2>3. QED BY <2>1, <2>2
<1>8. CASE Initialise
  BY <1>8, PreviewPlan
<1>9. CASE Run
  <2>1. view'.state = "run"
    BY <1>0, <1>9, ViewFields DEF Run
  <2>2. QED BY <2>1
<1>10. CASE Join \/ Deinitialise
  <2>1. At(todo') \in {"save", "off", "join"}
    BY <1>10, PreviewPlan, LeavePlan
  <2>2. QED BY <2>1
<1>11. CASE ThreadStarts \/ ThreadFails \/ ThreadEnds
  <2>1. \/ view.state # "run"
        \/ bad' \cap {"shutter", "stream", "belated"} # {}
    BY <1>11, ThreadMoves
  <2>2. /\ At(todo') = At(todo) /\ UNCHANGED <<shutter, power>>
        /\ bad \subseteq bad'
    BY <1>11, ThreadMoves DEF shutterVars
  <2>3. QED BY <2>1, <2>2
<1>12. CASE LateMove
  <2>1. "astray" \in bad' /\ UNCHANGED <<view, power, bad>> /\ At(todo') = At(todo)
    BY <1>12, LatePlan DEF ShutterPlan, Known, ircamVars, driver
  <2>2. QED BY <2>1
<1>13. QED
  BY <1>12, <1>1, <1>2, <1>3, <1>4, <1>5, <1>6, <1>7, <1>8, <1>9, <1>10, <1>11, Cases

LEMMA ShutterStep ==
  ASSUME TypeInv, Plan, RunPlan, ShutterPlan, [Next]_vars
  PROVE  ShutterPlan'
<1> USE DEF ShutterPlan, Infrared
<1>0. view \in Views
  BY DEF TypeInv, ModeTypes
<1>1. CASE LineStep
  BY <1>1, LineMoves DEF Known, shutterVars
<1>2. CASE ToggleOn \/ ToggleOff
  <2>1. UNCHANGED <<view, shutterVars>> /\ (bad' = bad \/ InOrder)
    BY <1>2, Toggles
  <2>2. At(todo') \in {"on", "deinit"}
    BY <1>2, TogglePlan
  <2>3. InOrder => /\ due = <<>> /\ (shutter = "closed" <=> closed)
                   /\ Infrared => closed
    BY DEF InOrder
  <2>4. shutter \in {"open", "closed"}
    BY DEF TypeInv, ModeTypes, Places
  <2>5. QED BY <2>1, <2>2, <2>3, <2>4 DEF Known, shutterVars
<1>3. CASE TurnOn \/ Booted \/ TurnOff
  <2>1. UNCHANGED <<view, shutterVars>> /\ bad \subseteq bad'
    BY <1>3 DEF TurnOn, Booted, TurnOff
  <2>2. At(todo') \notin {"init", "nuc", "run"}
    BY <1>3, TurnOnPlan, BootedPlan, TurnOffPlan
  <2>3. QED BY <2>1, <2>2 DEF Known, shutterVars
<1>4. CASE CloseShutter
  <2>1. ~Infrared'
    BY <1>4, ClosePlan DEF RunPlan
  <2>2. QED BY <1>4, <2>1, ClosePlan
<1>5. CASE OpenShutter
  <2>1. ~Infrared'
    BY <1>5, OpenPlan DEF RunPlan
  <2>2. QED BY <1>5, <2>1, OpenPlan
<1>6. CASE Initialise \/ Run \/ Join
  <2>1. UNCHANGED shutterVars /\ bad \subseteq bad'
    BY <1>6 DEF Initialise, Run, Join, Failing
  <2>2. /\ Initialise \/ Run => At(todo) \in {"init", "run"}
        /\ Join => At(todo') \in {"save", "off"} /\ view'.state = view.state
    BY <1>0, PreviewPlan, ViewFields DEF Join
  <2>3. QED BY <1>6, <2>1, <2>2 DEF Known, shutterVars
<1>7. CASE Deinitialise
  <2>1. UNCHANGED shutterVars /\ bad' = bad /\ view'.state = "stop"
    BY <1>0, <1>7, ViewFields DEF Deinitialise
  <2>2. At(todo') \in {"save", "off", "join"}
    BY <1>7, LeavePlan
  <2>3. QED BY <2>1, <2>2 DEF Known, shutterVars
<1>8. CASE ThreadStarts \/ ThreadFails \/ ThreadEnds
  <2>1. /\ At(todo') = At(todo) /\ UNCHANGED shutterVars /\ bad \subseteq bad'
        /\ ~Infrared'
    BY <1>8, ThreadMoves
  <2>2. QED BY <2>1 DEF Known, shutterVars
<1>9. CASE LateMove
  <2>1. "astray" \in bad'
    BY <1>9, LatePlan DEF Known
  <2>2. QED BY <2>1 DEF Known
<1>10. QED
  BY <1>1, <1>2, <1>3, <1>4, <1>5, <1>6, <1>7, <1>8, <1>9, Cases

LEMMA Changes == Spec => []ChangeInv
<1>1. ASSUME Init PROVE ChangeInv
  <2>1. TypeInv /\ Plan /\ At(todo) = "settling"
    BY <1>1, InitPlan
  <2>2. /\ view.state = "stop" /\ power = "disable" /\ ~closed /\ due = <<>>
        /\ shutter = "open" \/ "astray" \in bad
    BY <1>1 DEF Init, IrcamInit, vgss_create
  <2>3. QED BY <2>1, <2>2
        DEF ChangeInv, PowerPlan, RunPlan, DayPlan, ShutterPlan, Known, Infrared
<1>2. ChangeInv /\ [Next]_vars => ChangeInv'
  BY StepPlan, PowerStep, RunStep, DayStep, ShutterStep DEF ChangeInv
<1>3. QED BY <1>1, <1>2, PTL DEF Spec

(* Between changes the power, the shutter, the preview and its thread tell the same
   view and the driver knows where the shutter is; what disagrees tells what failed
   since a change began with all of them in order.  This is so for any number of
   changes and failures, moves that are done later or never, and whenever the
   preview's thread runs. *)
THEOREM Agreement == Spec => []PartsAgree
<1>1. ChangeInv => PartsAgree
  <2> SUFFICES ASSUME ChangeInv, Idle PROVE PartsAgree
    BY DEF PartsAgree
  <2>1. At(todo) = "settling"
    BY NothingLeft DEF Idle
  <2>2. view.thread \in {"none", "ended", "begin", "on"} /\ shutter \in {"open", "closed"}
    BY DEF ChangeInv, TypeInv, ModeTypes, Views, Threads, Places
  <2>3. QED BY <2>1, <2>2
        DEF ChangeInv, PowerPlan, RunPlan, DayPlan, ShutterPlan, Known, PartsAgree
<1>2. QED BY <1>1, Changes, PTL

-----------------------------------------------------------------------------
(* What a change joins and frees. *)

There(v) == v.thread # "none" /\ v.camif = "live" /\ v.ipu = "live"

(* A preview that is to be joined is there. *)
LivePlan ==
  "init" \notin bad =>
    /\ view.sane
    /\ Infrared \/ At(todo) \in {"deinit", "join", "nuc", "run"} => There(view)

LEMMA ToggleSane ==
  ASSUME [Next]_vars, ToggleOn \/ ToggleOff
  PROVE  view.sane
<1>1. CASE Next
  BY <1>1 DEF Next
<1>2. CASE UNCHANGED vars
  <2>1. todo = <<>> /\ todo' = todo
    BY <1>2 DEF ToggleOn, ToggleOff, Change, Idle, vars, modeVars
  <2>2. todo' # <<>>
    <3>1. CASE ToggleOn
      BY <3>1, InfraredPlan DEF ToggleOn, Change, Starting, Begins
    <3>2. CASE ToggleOff
      BY <3>2, DayPlans DEF ToggleOff, Change, Leaving, Begins
    <3>3. QED BY <3>1, <3>2
  <2>3. QED BY <2>1, <2>2
<1>3. QED BY <1>1, <1>2

LEMMA LiveStep ==
  ASSUME TypeInv, Plan, RunPlan, LivePlan, [Next]_vars
  PROVE  LivePlan'
<1> USE DEF LivePlan, Infrared
<1>0. view \in Views
  BY DEF TypeInv, ModeTypes
<1>1. CASE LineStep
  BY <1>1, LineMoves DEF There
<1>2. CASE ToggleOn \/ ToggleOff
  <2>1. view' = view /\ (bad' = bad \/ InOrder)
    BY <1>2, Toggles
  <2>2. (ToggleOn => At(todo') = "on") /\ (ToggleOff => At(todo') = "deinit")
    BY <1>2, TogglePlan
  <2>3. /\ ToggleOff => view.state = "run"
        /\ ToggleOn => view.state = "stop"
    BY Toggles
  <2>4. InOrder /\ Infrared => There(view)
    BY DEF InOrder, Whole, There
  <2>5. CASE bad' = bad
    BY <1>2, <2>1, <2>2, <2>3, <2>5
  <2>6. CASE InOrder
    <3>1. view.sane
      BY <1>2, ToggleSane
    <3>2. QED BY <1>2, <2>1, <2>2, <2>3, <2>4, <2>6, <3>1
  <2>7. QED BY <2>1, <2>5, <2>6
<1>3. CASE TurnOn \/ Booted \/ TurnOff \/ CloseShutter \/ OpenShutter
  <2>1. view' = view /\ bad \subseteq bad'
    BY <1>3, ClosePlan, OpenPlan DEF TurnOn, Booted, TurnOff
  <2>2. At(todo') \notin {"deinit", "join", "nuc", "run"}
    BY <1>3, TurnOnPlan, BootedPlan, TurnOffPlan, ClosePlan, OpenPlan
  <2>3. QED BY <2>1, <2>2
<1>4. CASE Initialise
  <2>1. CASE view' = InitPreview(view) /\ bad' = bad
    BY <1>0, <2>1, ViewFields DEF There
  <2>2. CASE "init" \in bad'
    BY <2>2
  <2>3. QED BY <1>4, <2>1, <2>2 DEF Initialise, Failing
<1>5. CASE Run
  <2>1. At(todo) = "run" /\ view' = RunPreview(view) /\ bad' = bad
    BY <1>5, PreviewPlan DEF Run
  <2>2. /\ view'.thread = view.thread /\ view'.camif = view.camif /\ view'.ipu = view.ipu
        /\ view'.sane = view.sane
    BY <1>0, <2>1, ViewFields
  <2>3. QED BY <2>1, <2>2 DEF There
<1>6. CASE Deinitialise
  <2>1. At(todo) = "deinit" /\ view' = StopPreview(view) /\ bad' = bad
    BY <1>6, LeavePlan DEF Deinitialise
  <2>2. /\ view'.thread = view.thread /\ view'.camif = view.camif /\ view'.ipu = view.ipu
        /\ view'.sane = view.sane
    BY <1>0, <2>1, ViewFields
  <2>3. QED BY <2>1, <2>2 DEF There
<1>7. CASE Join
  <2>1. /\ At(todo) = "join" /\ At(todo') \in {"save", "off"} /\ view' = JoinPreview(view)
        /\ bad' = bad /\ CanJoin(view)
    BY <1>7, PreviewPlan DEF Join
  <2>2. SUFFICES ASSUME "init" \notin bad PROVE LivePlan'
    BY <2>1
  <2>3. view.sane /\ There(view)
    BY <2>1, <2>2
  <2>4. view.thread = "ended"
    BY <2>1, <2>3 DEF CanJoin, There
  <2>5. view'.sane /\ view'.state = view.state
    BY <1>0, <2>1, <2>3, <2>4, ViewFields DEF There
  <2>6. view'.state # "run"
    BY <2>1, <2>5 DEF RunPlan
  <2>7. QED BY <2>1, <2>5, <2>6
<1>8. CASE ThreadStarts
  <2>1. At(todo') = At(todo) /\ bad \subseteq bad' /\ view'.state = "pause"
    BY <1>8, ThreadMoves
  <2>2. /\ view'.thread # "none" /\ view'.camif = view.camif /\ view'.ipu = view.ipu
        /\ view'.sane = view.sane
    BY <1>0, <1>8, ViewFields DEF ThreadStarts
  <2>3. QED BY <2>1, <2>2 DEF There
<1>9. CASE ThreadFails \/ ThreadEnds
  <2>1. At(todo') = At(todo) /\ bad \subseteq bad' /\ view'.state = "stop"
    BY <1>9, ThreadMoves
  <2>2. /\ view'.thread # "none" /\ view'.camif = view.camif /\ view'.ipu = view.ipu
        /\ view'.sane = view.sane
    BY <1>0, <1>9, ViewFields DEF ThreadFails, ThreadEnds
  <2>3. QED BY <2>1, <2>2 DEF There
<1>10. CASE LateMove
  BY <1>10, LatePlan
<1>11. QED
  BY <1>10, <1>1, <1>2, <1>3, <1>4, <1>5, <1>6, <1>7, <1>8, <1>9, Cases

(* No thread is joined twice and nothing is freed twice unless a preview could not
   be created, in any number of changes. *)
THEOREM FreedAtMostOnce == Spec => []FreedOnce
<1>1. ASSUME Init PROVE LivePlan
  <2>1. view.sane /\ ~Infrared
    BY <1>1 DEF Init, vgss_create, Infrared
  <2>2. At(todo) = "settling"
    BY <1>1, InitPlan
  <2>3. QED BY <2>1, <2>2 DEF LivePlan
<1>2. ChangeInv /\ LivePlan /\ [Next]_vars => LivePlan'
  BY LiveStep DEF ChangeInv
<1>3. LivePlan => FreedOnce
  BY DEF LivePlan, FreedOnce
<1>4. QED BY <1>1, <1>2, <1>3, Changes, PTL DEF Spec

-----------------------------------------------------------------------------
(* A command and its answer. *)

Answers(i) == wire[i].cmd # "ready"
NoAnswer == \A i \in 1..Len(wire) : ~Answers(i)
OneAnswer == \A i, j \in 1..Len(wire) : Answers(i) /\ Answers(j) => i = j

(* A frame that answers tells what was asked. *)
ToTheLast == \A i \in 1..Len(wire) : Answers(i) =>
               wire[i].cmd = op.cmd /\ (op.cmd \in Settings => wire[i].val = op.val)

(* The line holds the command that is waited for or its answer, once; when it holds
   neither the driver has the value. *)
Clear ==
  /\ cmds # <<>> => cmds = <<op>> /\ call # "none" /\ NoAnswer
  /\ ToTheLast /\ OneAnswer
  /\ ~NoAnswer => call # "none"
  /\ call = "asleep" /\ ~waitAck => cmds = <<>> /\ NoAnswer
  /\ (call # "none" \/ ok) /\ cmds = <<>> /\ NoAnswer /\ op.cmd \in Settings =>
       cache[op.cmd] = op.val

Dialogue ==
  /\ waitAck => call = "asleep"
  /\ ~doubt => Clear

LEMMA WriteDialogue ==
  ASSUME LineTypes, Dialogue, NEW m \in Commands, call = "none", Write(m) \/ WriteFails(m)
  PROVE  Dialogue'
<1>1. CASE Write(m)
  <2>1. call' = "sent" /\ waitAck' = FALSE /\ op' = m /\ ok' = FALSE /\ wire' = wire
    BY <1>1 DEF Write, Dialogue, LineTypes
  <2>2. ASSUME ~doubt' PROVE Clear'
    <3>1. cmds = <<>> /\ NoAnswer
      BY <1>1, <2>2 DEF Write, Dialogue, Clear, Quiet, NoAnswer, LineTypes
    <3>2. cmds' = <<m>>
      BY <1>1, <3>1 DEF Write
    <3>3. NoAnswer'
      BY <2>1, <3>1 DEF NoAnswer, Answers
    <3>4. QED BY <2>1, <3>2, <3>3 DEF Clear, NoAnswer, OneAnswer, ToTheLast
  <2>3. QED BY <2>1, <2>2 DEF Dialogue
<1>2. CASE WriteFails(m)
  <2>1. /\ UNCHANGED <<cmds, wire, waitAck, call, doubt, cache>> /\ ok' = FALSE /\ op' = m
    BY <1>2 DEF WriteFails, camera
  <2>2. ASSUME ~doubt' PROVE Clear'
    <3>1. cmds = <<>> /\ NoAnswer
      BY <2>1, <2>2 DEF Dialogue, Clear
    <3>2. cmds' = <<>> /\ NoAnswer'
      BY <2>1, <3>1 DEF NoAnswer, Answers
    <3>3. QED BY <2>1, <3>2 DEF Clear, NoAnswer, OneAnswer, ToTheLast
  <2>3. QED BY <2>1, <2>2 DEF Dialogue
<1>3. QED BY <1>1, <1>2

LEMMA WaitDialogue ==
  ASSUME Dialogue, SetWait \/ Woken
  PROVE  Dialogue'
<1>1. CASE SetWait
  <2>1. UNCHANGED <<cmds, wire, op, ok, doubt, cache>> /\ waitAck' = TRUE /\ call' = "asleep"
        /\ call = "sent"
    BY <1>1 DEF SetWait, camera
  <2>2. Clear => Clear'
    BY <2>1 DEF Clear, NoAnswer, OneAnswer, ToTheLast, Answers
  <2>3. QED BY <2>1, <2>2 DEF Dialogue
<1>2. CASE Woken
  <2>1. UNCHANGED <<cmds, wire, op, doubt, cache, waitAck>> /\ call' = "none" /\ call = "asleep"
        /\ ~waitAck
    BY <1>2 DEF Woken, camera
  <2>2. Clear => Clear'
    BY <2>1 DEF Clear, NoAnswer, OneAnswer, ToTheLast, Answers
  <2>3. QED BY <2>1, <2>2 DEF Dialogue
<1>3. QED BY <1>1, <1>2

LEMMA ReaderDialogue ==
  ASSUME LineTypes, Dialogue, Read \/ Expire
  PROVE  Dialogue'
<1>1. CASE Read
  <2> DEFINE m == Head(wire)
  <2>1. /\ wire # <<>> /\ wire' = Tail(wire) /\ waitAck' = FALSE
        /\ UNCHANGED <<cmds, call, op, ok>>
        /\ doubt' = (doubt \/ (call # "none" /\ m.cmd # op.cmd))
        /\ cache' = IF m.cmd \in Settings THEN [cache EXCEPT ![m.cmd] = m.val] ELSE cache
    BY <1>1 DEF Read, Parse, camera
  <2>2. /\ Len(wire) \in Nat /\ Len(wire) > 0 /\ Len(wire') = Len(wire) - 1 /\ m = wire[1]
        /\ \A i \in 1..Len(wire') : wire'[i] = wire[i + 1]
    BY <2>1, Taken DEF LineTypes
  <2> HIDE DEF m
  <2>3. ASSUME ~doubt' PROVE Clear'
    <3>1. ~doubt /\ Clear /\ (call # "none" => m.cmd = op.cmd)
      BY <2>1, <2>3 DEF Dialogue
    <3>2. \A i \in 1..Len(wire') : /\ i + 1 \in 1..Len(wire) /\ i + 1 # 1
                                   /\ Answers(i)' <=> Answers(i + 1)
      BY <2>2 DEF Answers
    <3>3. ToTheLast' /\ OneAnswer'
      <4>1. ToTheLast'
        <5>1. ToTheLast /\ op' = op
          BY <2>1, <3>1 DEF Clear
        <5>2. QED BY <2>2, <3>2, <5>1 DEF ToTheLast
      <4>2. OneAnswer'
        <5>1. OneAnswer
          BY <3>1 DEF Clear
        <5> SUFFICES ASSUME NEW i \in 1..Len(wire'), NEW j \in 1..Len(wire'),
                            Answers(i)', Answers(j)'
                     PROVE  i = j
          BY DEF OneAnswer
        <5>2. i + 1 = j + 1
          BY <3>2, <5>1 DEF OneAnswer
        <5>3. QED BY <2>2, <5>2
      <4>3. QED BY <4>1, <4>2
    <3>4. CASE m.cmd = "ready"
      <4>1. op.cmd # "ready" /\ call = "none" /\ cache' = cache
        BY <2>1, <3>1, <3>4, NoSettings DEF LineTypes, Commands
      <4>2. NoAnswer' <=> NoAnswer
        <5>1. \A i \in 1..Len(wire) : i # 1 => i - 1 \in 1..Len(wire') /\ (i - 1) + 1 = i
          BY <2>2
        <5>2. ~Answers(1)
          BY <2>2, <3>4 DEF Answers
        <5>3. NoAnswer => NoAnswer'
          BY <3>2 DEF NoAnswer
        <5>4. ASSUME NoAnswer' PROVE NoAnswer
          <6> SUFFICES ASSUME NEW i \in 1..Len(wire), i # 1 PROVE ~Answers(i)
            BY <5>2 DEF NoAnswer
          <6>1. PICK k \in 1..Len(wire') : k + 1 = i
            BY <5>1
          <6>2. ~Answers(k)'
            BY <5>4 DEF NoAnswer
          <6>3. QED BY <3>2, <6>1, <6>2
        <5>5. QED BY <5>3, <5>4
      <4>3. QED BY <2>1, <3>1, <3>3, <4>1, <4>2 DEF Clear
    <3>5. CASE m.cmd # "ready"
      <4>1. Answers(1) /\ ~NoAnswer /\ 1 \in 1..Len(wire)
        BY <2>2, <3>5 DEF Answers, NoAnswer
      <4>2. /\ cmds = <<>> /\ call # "none" /\ m.cmd = op.cmd
            /\ op.cmd \in Settings => m.val = op.val
        BY <2>2, <3>1, <4>1 DEF Clear, ToTheLast
      <4>3. NoAnswer'
        BY <3>1, <3>2, <4>1 DEF NoAnswer, Clear, OneAnswer
      <4>4. op.cmd \in Settings => cache'[op.cmd] = op.val
        BY <2>1, <4>2 DEF LineTypes
      <4>5. QED BY <2>1, <3>3, <4>2, <4>3, <4>4 DEF Clear
    <3>6. QED BY <3>4, <3>5
  <2>4. QED BY <2>1, <2>3 DEF Dialogue
<1>2. CASE Expire
  <2>1. /\ wire = <<>> /\ waitAck' = FALSE /\ UNCHANGED <<cmds, wire, call, op, ok, cache>>
        /\ (cmds = <<>> /\ doubt' = doubt) \/ doubt' = TRUE
    BY <1>2 DEF Expire, camera
  <2>2. NoAnswer
    BY <2>1 DEF NoAnswer
  <2>3. ASSUME ~doubt' PROVE Clear'
    <3>1. Clear /\ cmds = <<>>
      BY <2>1, <2>3 DEF Dialogue
    <3>2. QED BY <2>1, <2>2, <3>1 DEF Clear, NoAnswer, OneAnswer, ToTheLast, Answers
  <2>4. QED BY <2>1, <2>3 DEF Dialogue
<1>3. QED BY <1>1, <1>2

LEMMA CameraDialogue ==
  ASSUME LineTypes, Dialogue, Boot \/ Answer \/ Ignore \/ LoseCommand \/ LoseAnswer
  PROVE  Dialogue'
<1>1. CASE Boot
  <2>1. PICK x \in Shifts : wire' = Append(wire, Message("ready", x))
    BY <1>1, Numbers DEF Boot
  <2>2. UNCHANGED <<cmds, waitAck, call, op, ok, doubt, cache>>
    BY <1>1 DEF Boot, driver
  <2>3. /\ Len(wire) \in Nat /\ Len(wire') = Len(wire) + 1
        /\ wire'[Len(wire')].cmd = "ready" /\ \A i \in 1..Len(wire) : wire'[i] = wire[i]
    BY <2>1, Messages1, Appended DEF LineTypes, Message
  <2>4. \A i \in 1..Len(wire') :
          Answers(i)' => i \in 1..Len(wire) /\ Answers(i) /\ wire'[i] = wire[i]
    BY <2>3 DEF Answers
  <2>5. NoAnswer' <=> NoAnswer
    BY <2>3, <2>4 DEF NoAnswer, Answers
  <2>6. Clear => ToTheLast' /\ OneAnswer'
    <3>1. Clear => ToTheLast'
      BY <2>2, <2>4 DEF ToTheLast, Clear
    <3>2. Clear => OneAnswer'
      BY <2>4 DEF OneAnswer, Clear
    <3>3. QED BY <3>1, <3>2
  <2>7. Clear => Clear'
    BY <2>2, <2>5, <2>6 DEF Clear
  <2>8. QED BY <2>2, <2>7 DEF Dialogue
<1>2. CASE Answer
  <2> DEFINE a == IF Head(cmds).cmd = "move" THEN Message("move", cam'.shift) ELSE Head(cmds)
  <2>1. /\ cmds # <<>> /\ cmds' = Tail(cmds) /\ wire' = Append(wire, a)
        /\ UNCHANGED <<waitAck, call, op, ok, doubt, cache>>
    BY <1>2 DEF Answer, driver
  <2>2. ASSUME ~doubt' PROVE Clear'
    <3>1. Clear /\ cmds = <<op>> /\ call # "none" /\ NoAnswer
      BY <2>1, <2>2 DEF Dialogue, Clear
    <3>2. cmds' = <<>> /\ Head(cmds) = op
      BY <2>1, <3>1
    <3>3. a \in Messages /\ a.cmd = op.cmd /\ (op.cmd \in Settings => a.val = op.val)
      <4>1. op \in Commands /\ cam'.shift \in Shifts
        BY <1>2, CameraTypes DEF LineTypes
      <4>2. "move" \notin Settings
        BY NoSettings DEF Orders
      <4>3. CASE op.cmd = "move"
        <5>1. a = Message("move", cam'.shift)
          BY <3>2, <4>3
        <5>2. QED BY <4>1, <4>2, <4>3, <5>1, Messages1 DEF Message
      <4>4. CASE op.cmd # "move"
        BY <3>2, <4>1, <4>4, Messages1
      <4>5. QED BY <4>3, <4>4
    <3> HIDE DEF a
    <3>4. /\ Len(wire) \in Nat /\ Len(wire') = Len(wire) + 1 /\ wire'[Len(wire')] = a
          /\ \A i \in 1..Len(wire) : wire'[i] = wire[i]
      BY <2>1, <3>3, Appended DEF LineTypes
    <3>5. \A i \in 1..Len(wire') : Answers(i)' => i = Len(wire')
      BY <3>1, <3>4 DEF NoAnswer, Answers
    <3>6. ~NoAnswer'
      <4>1. a.cmd # "ready"
        BY <3>3, NoSettings DEF LineTypes, Commands
      <4>2. PICK k \in 1..Len(wire') : wire'[k] = a
        BY <3>4
      <4>3. Answers(k)'
        BY <4>1, <4>2 DEF Answers
      <4>4. QED BY <4>3 DEF NoAnswer
    <3>7. ToTheLast' /\ OneAnswer'
      BY <2>1, <3>3, <3>4, <3>5 DEF ToTheLast, OneAnswer
    <3>8. ~(call = "asleep" /\ ~waitAck)
      BY <2>1, <3>1 DEF Clear
    <3>9. QED BY <2>1, <3>1, <3>2, <3>6, <3>7, <3>8 DEF Clear
  <2>3. QED BY <2>1, <2>2 DEF Dialogue
<1>3. CASE Ignore \/ LoseCommand \/ LoseAnswer
  BY <1>3 DEF Ignore, LoseCommand, LoseAnswer, driver, Dialogue
<1>4. QED BY <1>1, <1>2, <1>3

LEMMA PowerDialogue ==
  ASSUME Dialogue, call = "none", PowerOn \/ BootTimeout \/ PowerOff
  PROVE  Dialogue'
<1>1. /\ UNCHANGED <<wire, waitAck, call, op, ok, cache>>
      /\ (cmds' = cmds /\ doubt' = doubt)
           \/ (cmds' = <<>> /\ doubt' = (doubt \/ cmds # <<>>))
  BY DEF PowerOn, BootTimeout, PowerOff, CutPower
<1>2. ASSUME ~doubt' PROVE Clear'
  <2>1. Clear /\ cmds' = cmds
    BY <1>1, <1>2 DEF Dialogue
  <2>2. QED BY <1>1, <2>1 DEF Clear, NoAnswer, OneAnswer, ToTheLast, Answers
<1>3. QED BY <1>1, <1>2 DEF Dialogue

LEMMA DialogueStep ==
  ASSUME TypeInv, Plan, Dialogue, [Next]_vars
  PROVE  Dialogue'
<1>0. LineTypes
  BY DEF TypeInv
<1>1. CASE Command
  BY <1>0, <1>1, CommandPlan, WriteDialogue
<1>2. CASE Adjust \/ Order
  BY <1>0, <1>2, UserPlan, WriteDialogue
<1>3. CASE Wait \/ Answered
  BY <1>3, WaitDialogue DEF Wait, Answered
<1>4. CASE Reader
  BY <1>0, <1>4, ReaderDialogue DEF Reader
<1>5. CASE Camera
  BY <1>0, <1>5, CameraDialogue DEF Camera
<1>6. CASE UNCHANGED <<wire, waitAck, call, op, ok, cache, cmds, doubt>>
  BY <1>6 DEF Dialogue, Clear, NoAnswer, OneAnswer, ToTheLast, Answers
<1>7. CASE TurnOn \/ Booted \/ TurnOff
  <2>1. call = "none"
    BY <1>7 DEF TurnOn, Booted, TurnOff, AtStep
  <2>2. PowerOn \/ BootTimeout \/ PowerOff
          \/ UNCHANGED <<wire, waitAck, call, op, ok, cache, cmds, doubt>>
    BY <1>7 DEF TurnOn, Booted, TurnOff, ircamVars, camera, driver
  <2>3. QED BY <1>6, <2>1, <2>2, PowerDialogue
<1>8. CASE \/ ToggleOn \/ ToggleOff \/ CloseShutter \/ OpenShutter \/ Initialise \/ Run
           \/ Deinitialise \/ Join \/ ThreadStarts \/ ThreadFails \/ ThreadEnds
           \/ LateMove \/ UNCHANGED vars
  <2>1. LineAlone \/ UNCHANGED ircamVars
    BY <1>8 DEF ToggleOn, ToggleOff, CloseShutter, OpenShutter, Initialise, Run, Deinitialise,
                Join, ThreadStarts, ThreadFails, ThreadEnds, LateMove, Change, vars
  <2>2. UNCHANGED <<wire, waitAck, call, op, ok, cache, cmds, doubt>>
    BY <2>1 DEF LineAlone, ircamVars, camera, driver
  <2>3. QED BY <1>6, <2>2
<1>9. QED
  BY <1>1, <1>2, <1>3, <1>4, <1>5, <1>7, <1>8, Cases DEF LineStep

(* Steps that touch neither the line nor what it is about. *)
LineKept == UNCHANGED <<cam, cmds, wire, cache, shift, missed, call>>

LEMMA KeptLine ==
  ASSUME TypeInv, Plan,
         \/ ToggleOn \/ ToggleOff \/ CloseShutter \/ OpenShutter \/ Initialise \/ Run
         \/ Deinitialise \/ Join \/ ThreadStarts \/ ThreadFails \/ ThreadEnds
         \/ LateMove \/ UNCHANGED vars
  PROVE  LineKept
<1>1. (LineAlone \/ UNCHANGED ircamVars)
  BY DEF ToggleOn, ToggleOff, CloseShutter, OpenShutter, Initialise, Run, Deinitialise,
         Join, ThreadStarts, ThreadFails, ThreadEnds, LateMove, Change, vars
<1>2. QED BY <1>1 DEF LineKept, LineAlone, ircamVars, camera, driver

(* In the infrared view the camera has what was answered last: its power is not cut
   before the view is left, and the view begins with an order that is no setting. *)
Applied ==
  /\ At(todo) = "nuc" /\ call # "none" => op.cmd = "nuc"
  /\ At(todo) = "run" => op.cmd = "nuc"
  /\ /\ ~doubt /\ Infrared /\ At(todo) = "settling" /\ cmds = <<>>
     /\ call # "none" \/ ok
     /\ op.cmd \in Settings
     => cam.set[op.cmd] = op.val

LEMMA SentApplied ==
  ASSUME TypeInv, Plan, Applied, Command \/ Adjust \/ Order
  PROVE  Applied'
<1>1. ASSUME NEW m \in Commands, Write(m)
      PROVE  call' = "sent" /\ op' = m /\ cmds' # <<>>
  BY <1>1, Appended DEF Write, TypeInv, LineTypes
<1>2. ASSUME NEW m \in Commands, WriteFails(m)
      PROVE  call' = call /\ op' = m /\ ~ok'
  BY <1>2 DEF WriteFails
<1>3. CASE Command
  <2>1. /\ call = "none" /\ Step \in Commands /\ Step.cmd = Head(todo)
        /\ At(todo) \in {"settling", "nuc", "save"}
    BY <1>3, CommandPlan DEF Step, Message
  <2>2. At(todo) = "nuc" => Step.cmd = "nuc"
    BY <2>1 DEF At
  <2>3. CASE Write(Step) /\ todo' = todo /\ At(todo') = At(todo)
    BY <1>1, <2>1, <2>2, <2>3 DEF Applied
  <2>4. CASE /\ WriteFails(Step) /\ todo' = Tail(todo)
             /\ At(todo) = "settling" => At(todo') = "settling"
             /\ At(todo) = "nuc" => At(todo') = "run"
             /\ At(todo) = "save" => At(todo') = "off"
    BY <1>2, <2>1, <2>2, <2>4 DEF Applied
  <2>5. QED BY <1>3, <2>3, <2>4, CommandPlan
<1>4. CASE Adjust \/ Order
  <2>1. PICK m \in Commands : Write(m) \/ WriteFails(m)
    BY <1>4, UserPlan
  <2>2. call = "none" /\ At(todo') = "settling"
    BY <1>4, UserPlan
  <2>3. QED BY <1>1, <1>2, <2>1, <2>2 DEF Applied
<1>5. QED BY <1>3, <1>4

LEMMA CameraApplied ==
  ASSUME TypeInv, Plan, Dialogue, Applied, Camera
  PROVE  Applied'
<1>1. UNCHANGED <<call, op, ok, todo, view>>
  BY DEF Camera, Boot, Answer, Ignore, LoseCommand, LoseAnswer, driver, modeVars
<1>2. CASE Boot
  <2>1. cam'.set = cam.set /\ cmds' = cmds /\ doubt' = doubt
    BY <1>2 DEF Boot, TypeInv, LineTypes
  <2>2. QED BY <1>1, <2>1 DEF Applied, Infrared
<1>3. CASE Answer
  <2> SUFFICES ASSUME ~doubt', op.cmd \in Settings PROVE cam'.set[op.cmd] = op.val
    BY <1>1 DEF Applied, Infrared
  <2>1. ~doubt /\ cmds # <<>>
    BY <1>3 DEF Answer
  <2>2. cmds = <<op>>
    BY <2>1 DEF Dialogue, Clear
  <2>3. Head(cmds) = op
    BY <2>2
  <2>4. cam' = [cam EXCEPT !.set[op.cmd] = op.val]
    <3>1. Head(cmds).cmd \in Settings =>
            cam' = [cam EXCEPT !.set[Head(cmds).cmd] = Head(cmds).val]
      BY <1>3, NoSettings DEF Answer, Orders
    <3>2. QED BY <2>3, <3>1
  <2>5. QED BY <2>4 DEF TypeInv, LineTypes
<1>4. CASE Ignore \/ LoseCommand \/ LoseAnswer
  BY <1>1, <1>4 DEF Ignore, LoseCommand, LoseAnswer, Applied
<1>5. QED BY <1>2, <1>3, <1>4 DEF Camera

LEMMA AppliedStep ==
  ASSUME TypeInv, Plan, RunPlan, Dialogue, Applied, [Next]_vars
  PROVE  Applied'
<1>0. view \in Views
  BY DEF TypeInv, ModeTypes
<1>1. CASE Command \/ Adjust \/ Order
  BY <1>1, SentApplied
<1>2. CASE Camera
  BY <1>2, CameraApplied
<1>3. CASE Wait
  BY <1>3 DEF Wait, SetWait, camera, modeVars, Applied, Infrared
<1>4. CASE Answered
  <2>1. /\ call = "asleep" /\ call' = "none" /\ UNCHANGED <<cam, cmds, op, doubt, view>>
    BY <1>4 DEF Answered, Woken, camera
  <2>2. QED BY <1>4, <2>1, AnsweredPlan DEF Applied, Infrared
<1>5. CASE Reader
  <2>1. UNCHANGED <<cam, cmds, call, op, ok, todo, view>>
    BY <1>5 DEF Reader, Read, Expire, camera, modeVars
  <2>2. ~doubt' => ~doubt
    BY <1>5 DEF Reader, Read, Expire
  <2>3. QED BY <2>1, <2>2 DEF Applied, Infrared
<1>6. CASE Run
  <2>1. At(todo) = "run" /\ At(todo') = "settling" /\ op' = op
    BY <1>6, PreviewPlan DEF Run, ircamVars, driver
  <2>2. op'.cmd \notin Settings
    BY <2>1, NoSettings DEF Applied, Orders
  <2>3. QED BY <2>1, <2>2 DEF Applied
<1>7. CASE Initialise
  <2>1. At(todo') = "nuc" /\ call' = "none"
    BY <1>7, PreviewPlan DEF Initialise, AtStep, LineAlone, driver
  <2>2. QED BY <2>1 DEF Applied
<1>8. CASE ToggleOn \/ ToggleOff \/ Booted \/ TurnOff \/ Deinitialise \/ Join
  <2>1. At(todo') \notin {"settling", "nuc", "run"}
    BY <1>8, TogglePlan, BootedPlan, TurnOffPlan, PreviewPlan, LeavePlan
  <2>2. QED BY <2>1 DEF Applied
<1>9. CASE TurnOn \/ CloseShutter \/ OpenShutter
  <2>1. At(todo) \notin {"settling", "deinit"} /\ view' = view
    BY <1>9, TurnOnPlan, ClosePlan, OpenPlan DEF TurnOn
  <2>2. ~Infrared' /\ At(todo') \notin {"nuc", "run"}
    BY <1>9, <2>1, TurnOnPlan, ClosePlan, OpenPlan DEF RunPlan, Infrared
  <2>3. QED BY <2>2 DEF Applied
<1>10. CASE ThreadStarts \/ ThreadFails \/ ThreadEnds
  <2>1. At(todo') = At(todo) /\ ~Infrared'
    BY <1>10, ThreadMoves DEF Infrared
  <2>2. LineKept /\ op' = op
    BY <1>10, KeptLine DEF ThreadStarts, ThreadFails, ThreadEnds, LineAlone, ircamVars, driver
  <2>3. QED BY <2>1, <2>2 DEF Applied, LineKept
<1>11. CASE LateMove \/ UNCHANGED vars
  <2>1. UNCHANGED <<ircamVars, todo, view>>
    BY <1>11 DEF LateMove, vars, modeVars
  <2>2. QED BY <2>1 DEF Applied, Infrared, ircamVars, camera, driver
<1>12. QED
  BY <1>1, <1>2, <1>3, <1>4, <1>5, <1>6, <1>7, <1>8, <1>9, <1>10, <1>11, Cases DEF LineStep

(* A setting that was accepted is the one that the driver reports, and in the infrared
   view the one that the camera has, whatever was sent before and whenever the reader
   runs, unless there was doubt about its answer. *)
THEOREM Accepted == Spec => []AcceptedIsKept
<1>1. ASSUME Init PROVE Dialogue /\ Applied
  <2>1. Dialogue
    BY <1>1 DEF Init, IrcamInit, Dialogue, Clear, NoAnswer, OneAnswer, ToTheLast
  <2>2. At(todo) = "settling" /\ ~Infrared
    BY <1>1, InitPlan DEF Init, vgss_create, Infrared
  <2>3. QED BY <2>1, <2>2 DEF Applied
<1>2. ChangeInv /\ Dialogue /\ Applied /\ [Next]_vars => Dialogue' /\ Applied'
  BY DialogueStep, AppliedStep DEF ChangeInv
<1>3. Dialogue /\ Applied => AcceptedIsKept
  <2> SUFFICES ASSUME Dialogue, Applied, Idle, ok, op.cmd \in Settings, ~doubt
               PROVE  /\ cache[op.cmd] = op.val
                      /\ Infrared => cam.set[op.cmd] = op.val
    BY DEF AcceptedIsKept
  <2>1. call = "none" /\ At(todo) = "settling"
    BY NothingLeft DEF Idle
  <2>2. cmds = <<>> /\ cache[op.cmd] = op.val
    BY <2>1 DEF Dialogue, Clear
  <2>3. QED BY <2>1, <2>2 DEF Applied
<1>4. QED BY <1>1, <1>2, <1>3, Changes, PTL DEF Spec

-----------------------------------------------------------------------------
(* What the driver will have read of a name when the line is empty. *)

LastOf(w, name, val) ==
  \E i \in 1..Len(w) : /\ w[i].cmd = name /\ w[i].val = val
                       /\ \A j \in 1..Len(w) : j > i => w[j].cmd # name
NoneOf(w, name) == \A i \in 1..Len(w) : w[i].cmd # name

LEMMA LastAppended ==
  ASSUME NEW w \in Seq(Messages), NEW m \in Messages, NEW t, t = Append(w, m), NEW n, NEW v
  PROVE  /\ m.cmd = n => LastOf(t, n, m.val)
         /\ m.cmd # n => /\ LastOf(w, n, v) => LastOf(t, n, v)
                         /\ NoneOf(w, n) => NoneOf(t, n)
<1>1. /\ Len(w) \in Nat /\ Len(t) = Len(w) + 1 /\ t[Len(t)] = m
      /\ \A i \in 1..Len(w) : t[i] = w[i]
  BY Appended
<1>2. ASSUME m.cmd = n PROVE LastOf(t, n, m.val)
  <2>1. Len(t) \in 1..Len(t) /\ \A j \in 1..Len(t) : ~(j > Len(t))
    BY <1>1
  <2>2. QED BY <1>1, <1>2, <2>1 DEF LastOf
<1>3. ASSUME m.cmd # n, LastOf(w, n, v) PROVE LastOf(t, n, v)
  <2>1. PICK i \in 1..Len(w) : /\ w[i].cmd = n /\ w[i].val = v
                               /\ \A j \in 1..Len(w) : j > i => w[j].cmd # n
    BY <1>3 DEF LastOf
  <2>2. i \in 1..Len(t) /\ t[i].cmd = n /\ t[i].val = v
    BY <1>1, <2>1
  <2>3. \A j \in 1..Len(t) : j > i => t[j].cmd # n
    <3>1. \A j \in 1..Len(t) : j \in 1..Len(w) \/ j = Len(t)
      BY <1>1
    <3>2. QED BY <1>1, <1>3, <2>1, <3>1
  <2>4. QED BY <2>2, <2>3 DEF LastOf
<1>4. ASSUME m.cmd # n, NoneOf(w, n) PROVE NoneOf(t, n)
  <2>1. \A j \in 1..Len(t) : j \in 1..Len(w) \/ j = Len(t)
    BY <1>1
  <2>2. QED BY <1>1, <1>4, <2>1 DEF NoneOf
<1>5. QED BY <1>2, <1>3, <1>4

LEMMA LastTaken ==
  ASSUME NEW w \in Seq(Messages), w # <<>>, NEW t, t = Tail(w), NEW n, NEW v
  PROVE  /\ LastOf(w, n, v) => \/ LastOf(t, n, v)
                               \/ NoneOf(t, n) /\ Head(w).cmd = n /\ Head(w).val = v
         /\ NoneOf(w, n) => NoneOf(t, n) /\ Head(w).cmd # n
<1>1. /\ Len(w) \in Nat /\ Len(w) > 0 /\ Len(t) = Len(w) - 1 /\ Head(w) = w[1]
      /\ \A i \in 1..Len(t) : i + 1 \in 1..Len(w) /\ t[i] = w[i + 1]
  BY Taken
<1>2. ASSUME LastOf(w, n, v)
      PROVE  \/ LastOf(t, n, v)
             \/ NoneOf(t, n) /\ Head(w).cmd = n /\ Head(w).val = v
  <2>1. PICK i \in 1..Len(w) : /\ w[i].cmd = n /\ w[i].val = v
                               /\ \A j \in 1..Len(w) : j > i => w[j].cmd # n
    BY <1>2 DEF LastOf
  <2>2. CASE i = 1
    <3>1. \A j \in 1..Len(t) : j + 1 > i
      BY <1>1, <2>2
    <3>2. QED BY <1>1, <2>1, <2>2, <3>1 DEF NoneOf
  <2>3. CASE i # 1
    <3>1. i - 1 \in 1..Len(t) /\ t[i - 1] = w[i]
      BY <1>1, <2>3
    <3>2. \A j \in 1..Len(t) : j > i - 1 => j + 1 > i
      BY <1>1
    <3>3. \A j \in 1..Len(t) : j > i - 1 => t[j].cmd # n
      BY <1>1, <2>1, <3>2
    <3>4. QED BY <2>1, <3>1, <3>3 DEF LastOf
  <2>4. QED BY <2>2, <2>3
<1>3. ASSUME NoneOf(w, n) PROVE NoneOf(t, n) /\ Head(w).cmd # n
  BY <1>1, <1>3 DEF NoneOf
<1>4. QED BY <1>2, <1>3

(* What the line brings of a name is the camera's value, or the driver has it. *)
Tracks(w, name, is, has) == LastOf(w, name, is) \/ (NoneOf(w, name) /\ has)

-----------------------------------------------------------------------------
(* The shift of the camera's array. *)

(* The last answer to a move is the camera's shift. *)
ShiftTracked ==
  Tracks(wire, "move", cam.shift, shift \in {cam.shift, Unmoved} \/ "move" \in missed)

LEMMA ReadShift ==
  ASSUME LineTypes, ShiftTracked, Read \/ Expire
  PROVE  ShiftTracked'
<1>1. CASE Read
  <2> DEFINE m == Head(wire)
  <2>1. /\ wire # <<>> /\ wire' = Tail(wire) /\ cam' = cam
        /\ shift' = IF m.cmd = "move" THEN m.val ELSE shift
        /\ missed' = missed \ ({"move"} \cap {m.cmd})
    BY <1>1 DEF Read, Parse, camera
  <2>2. wire \in Seq(Messages)
    BY DEF LineTypes
  <2>3. CASE LastOf(wire, "move", cam.shift)
    BY <2>1, <2>2, <2>3, LastTaken DEF ShiftTracked, Tracks
  <2>4. CASE NoneOf(wire, "move") /\ (shift \in {cam.shift, Unmoved} \/ "move" \in missed)
    BY <2>1, <2>2, <2>4, LastTaken DEF ShiftTracked, Tracks
  <2>5. QED BY <2>3, <2>4 DEF ShiftTracked, Tracks
<1>2. CASE Expire
  BY <1>2 DEF Expire, camera, ShiftTracked, Tracks
<1>3. QED BY <1>1, <1>2

LEMMA CameraShift ==
  ASSUME LineTypes, ShiftTracked, Boot \/ Answer \/ Ignore \/ LoseCommand \/ LoseAnswer
  PROVE  ShiftTracked'
<1> USE DEF ShiftTracked, Tracks
<1>0. wire \in Seq(Messages)
  BY DEF LineTypes
<1>1. CASE Boot
  <2>1. PICK x \in Shifts : wire' = Append(wire, Message("ready", x))
    BY <1>1, Numbers DEF Boot
  <2>2. Message("ready", x) \in Messages /\ Message("ready", x).cmd # "move"
    BY Messages1 DEF Message
  <2>3. /\ LastOf(wire, "move", cam.shift) => LastOf(wire', "move", cam.shift)
        /\ NoneOf(wire, "move") => NoneOf(wire', "move")
    BY <1>0, <2>1, <2>2, LastAppended
  <2>4. cam'.shift = cam.shift /\ shift' = shift /\ missed' = missed
    BY <1>1 DEF Boot, driver, LineTypes
  <2>5. QED BY <2>3, <2>4
<1>2. CASE Answer
  <2> DEFINE m == Head(cmds)
             a == IF m.cmd = "move" THEN Message("move", cam'.shift) ELSE m
  <2>1. /\ cmds # <<>> /\ wire' = Append(wire, a) /\ shift' = shift /\ missed' = missed
        /\ m.cmd # "move" => cam'.shift = cam.shift
    <3>1. /\ m.cmd \in Settings => cam' = [cam EXCEPT !.set[m.cmd] = m.val]
          /\ m.cmd \notin Settings \cup {"move"} => cam' = cam
      BY <1>2, NoSettings DEF Answer, Orders
    <3>2. QED BY <1>2, <3>1 DEF Answer, driver, LineTypes
  <2>2. m \in Commands /\ m \in Messages /\ cam'.shift \in Shifts
    BY <1>2, <2>1, Taken, CameraTypes, Messages1 DEF LineTypes
  <2> HIDE DEF m
  <2>3. a \in Messages /\ (m.cmd = "move" => a.cmd = "move" /\ a.val = cam'.shift)
        /\ (m.cmd # "move" => a.cmd # "move")
    BY <2>2, Messages1 DEF Message
  <2> HIDE DEF a
  <2>4. CASE m.cmd = "move"
    BY <1>0, <2>1, <2>3, <2>4, LastAppended
  <2>5. CASE m.cmd # "move"
    <3>1. /\ LastOf(wire, "move", cam.shift) => LastOf(wire', "move", cam.shift)
          /\ NoneOf(wire, "move") => NoneOf(wire', "move")
      BY <1>0, <2>1, <2>3, <2>5, LastAppended
    <3>2. QED BY <2>1, <2>5, <3>1
  <2>6. QED BY <2>4, <2>5
<1>3. CASE Ignore \/ LoseCommand
  BY <1>3 DEF Ignore, LoseCommand, driver
<1>4. CASE LoseAnswer
  <2>1. /\ wire # <<>> /\ wire' = Tail(wire) /\ cam' = cam /\ shift' = shift
        /\ missed' = missed \cup Kept({Head(wire).cmd})
    BY <1>4 DEF LoseAnswer, camera, driver
  <2>2. Head(wire).cmd = "move" => "move" \in missed'
    BY <2>1 DEF Kept
  <2>3. QED BY <1>0, <2>1, <2>2, LastTaken
<1>5. QED BY <1>1, <1>2, <1>3, <1>4

LEMMA ShiftStep ==
  ASSUME TypeInv, Plan, ShiftTracked, [Next]_vars
  PROVE  ShiftTracked'
<1>0. LineTypes
  BY DEF TypeInv
<1>1. CASE Reader
  BY <1>0, <1>1, ReadShift DEF Reader
<1>2. CASE Camera
  BY <1>0, <1>2, CameraShift DEF Camera
<1>3. CASE /\ wire' = wire /\ cam'.shift = cam.shift /\ shift' = shift
           /\ "move" \in missed => "move" \in missed'
  BY <1>3 DEF ShiftTracked, Tracks
<1>4. CASE Command \/ Adjust \/ Order
  <2>1. PICK m \in Commands : Write(m) \/ WriteFails(m)
    BY <1>4, CommandPlan, UserPlan
  <2>2. /\ wire' = wire /\ cam' = cam /\ shift' = shift /\ missed \subseteq missed'
    BY <2>1 DEF Write, WriteFails, camera
  <2>3. QED BY <1>3, <2>2
<1>5. CASE Wait \/ Answered
  BY <1>3, <1>5 DEF Wait, SetWait, Answered, Woken, camera
<1>6. CASE TurnOn \/ Booted \/ TurnOff
  <2>1. PowerOn \/ BootTimeout \/ PowerOff \/ UNCHANGED ircamVars
    BY <1>6 DEF TurnOn, Booted, TurnOff
  <2>2. wire' = wire /\ cam'.shift = cam.shift /\ shift' = shift
    BY <1>0, <2>1 DEF PowerOn, BootTimeout, PowerOff, CutPower, ircamVars, camera, driver, LineTypes
  <2>3. "move" \in missed => "move" \in missed'
    BY <2>1 DEF PowerOn, BootTimeout, PowerOff, CutPower, ircamVars
  <2>4. QED BY <1>3, <2>2, <2>3
<1>7. CASE \/ ToggleOn \/ ToggleOff \/ CloseShutter \/ OpenShutter \/ Initialise \/ Run
           \/ Deinitialise \/ Join \/ ThreadStarts \/ ThreadFails \/ ThreadEnds
           \/ LateMove \/ UNCHANGED vars
  BY <1>3, <1>7, KeptLine DEF LineKept
<1>8. QED BY <1>1, <1>2, <1>4, <1>5, <1>6, <1>7, Cases DEF LineStep

LEMMA Saves ==
  ASSUME [Next]_vars, saved' # saved
  PROVE  saved' = shift /\ cam' = cam
<1>1. Answered
  BY DEF Next, Main, User, Reader, Camera, Thread, Wait, TurnOn, Booted, TurnOff, CloseShutter,
         OpenShutter, Initialise, Run, Deinitialise, Join, Command, ToggleOn, ToggleOff, Adjust,
         Order, ThreadStarts, ThreadFails, ThreadEnds, Change, LateMove, modeVars, vars
<1>2. QED BY <1>1 DEF Answered, Woken, camera

(* The shift that is saved is the camera's, for any moves, lost answers and changes,
   but for the cases that the property tells. *)
THEOREM ShiftSaved == Spec => SavedShift
<1>1. Init => ShiftTracked
  BY DEF Init, IrcamInit, ShiftTracked, Tracks, NoneOf
<1>2. ChangeInv /\ ShiftTracked /\ [Next]_vars => ShiftTracked'
  BY ShiftStep DEF ChangeInv
<1>3. ASSUME ShiftTracked, [Next]_vars, saved' # saved
      PROVE  saved' = cam.shift \/ shift = Unmoved \/ "move" \in missed \/ ~Quiet
  <2>1. Quiet => ~LastOf(wire, "move", cam.shift)
    BY DEF Quiet, LastOf
  <2>2. QED BY <1>3, <2>1, Saves DEF ShiftTracked, Tracks
<1>4. ShiftTracked /\ [Next]_vars =>
        [saved' # saved =>
           saved' = cam.shift \/ shift = Unmoved \/ "move" \in missed \/ ~Quiet]_vars
  BY <1>3
<1>5. QED BY <1>1, <1>2, <1>4, Changes, PTL DEF Spec, SavedShift

-----------------------------------------------------------------------------
(* The camera's settings in the infrared view. *)

Tracked(s) == Tracks(wire, s, cam.set[s], cache[s] = cam.set[s])
InLine(s)  == \E i \in 1..Len(cmds) : cmds[i].cmd = s
Ahead(s)   == \E i \in 1..Len(todo) : todo[i] = s /\ (call = "none" \/ i > 1)

(* In the infrared view every setting is tracked, on its way or still to be sent,
   unless it was missed. *)
Settled ==
  Infrared /\ At(todo) = "settling" =>
    \A s \in Settings \ missed : Tracked(s) \/ InLine(s) \/ Ahead(s)

(* What is still to be sent when a step is done or its command is under way. *)
LEMMA AheadTaken ==
  ASSUME TypeInv, todo # <<>>, todo' = Tail(todo), call' = "none", NEW s \in Settings, Ahead(s)
  PROVE  Ahead(s)' \/ (call = "none" /\ Head(todo) = s)
<1>1. /\ Len(todo) \in Nat /\ Len(todo') = Len(todo) - 1 /\ Head(todo) = todo[1]
      /\ \A i \in 1..Len(todo') : todo'[i] = todo[i + 1]
  BY Taken DEF TypeInv, ModeTypes
<1>2. PICK i \in 1..Len(todo) : todo[i] = s /\ (call = "none" \/ i > 1)
  BY DEF Ahead
<1>3. CASE i = 1
  BY <1>1, <1>2, <1>3
<1>4. CASE i # 1
  <2>1. i - 1 \in 1..Len(todo') /\ todo'[i - 1] = s
    BY <1>1, <1>2, <1>4
  <2>2. QED BY <2>1 DEF Ahead
<1>5. QED BY <1>3, <1>4

LEMMA InLineTaken ==
  ASSUME LineTypes, cmds # <<>>, cmds' = Tail(cmds), NEW s, InLine(s)
  PROVE  InLine(s)' \/ Head(cmds).cmd = s
<1>1. /\ Len(cmds) \in Nat /\ Len(cmds') = Len(cmds) - 1 /\ Head(cmds) = cmds[1]
      /\ \A i \in 1..Len(cmds') : cmds'[i] = cmds[i + 1]
  BY Taken DEF LineTypes
<1>2. PICK i \in 1..Len(cmds) : cmds[i].cmd = s
  BY DEF InLine
<1>3. CASE i = 1
  BY <1>1, <1>2, <1>3
<1>4. CASE i # 1
  <2>1. i - 1 \in 1..Len(cmds') /\ cmds'[i - 1] = cmds[i]
    BY <1>1, <1>2, <1>4
  <2>2. QED BY <1>2, <2>1 DEF InLine
<1>5. QED BY <1>3, <1>4

LEMMA SentSettled ==
  ASSUME TypeInv, Plan, Settled, Command \/ Adjust \/ Order
  PROVE  Settled'
<1> SUFFICES ASSUME Infrared', At(todo') = "settling", NEW s \in Settings \ missed'
             PROVE  Tracked(s)' \/ InLine(s)' \/ Ahead(s)'
  BY DEF Settled
<1>1. PICK m \in Commands :
        /\ Write(m) \/ WriteFails(m)
        /\ Command => /\ todo # <<>> /\ m.cmd = Head(todo)
                      /\ (Write(m) /\ todo' = todo) \/ (WriteFails(m) /\ todo' = Tail(todo))
        /\ ~Command => todo = <<>>
  <2>1. CASE Command
    <3>1. Step \in Commands /\ Step.cmd = Head(todo) /\ todo # <<>>
      BY <2>1, CommandPlan DEF Step, Message
    <3>2. \/ Write(Step) /\ todo' = todo
          \/ WriteFails(Step) /\ todo' = Tail(todo)
      BY <2>1, CommandPlan
    <3>3. QED BY <2>1, <3>1, <3>2
  <2>2. CASE ~Command
    BY <2>2, UserPlan
  <2>3. QED BY <2>1, <2>2
<1>2. call = "none" /\ Infrared /\ missed \subseteq missed' /\ UNCHANGED <<wire, cam, cache>>
  <2>1. view' = view /\ call = "none"
    BY CommandPlan, UserPlan DEF Command
  <2>2. missed \subseteq missed' /\ UNCHANGED <<wire, cam, cache>>
    BY <1>1 DEF Write, WriteFails, camera
  <2>3. QED BY <2>1, <2>2 DEF Infrared
<1>3. At(todo) \in {"settling", "nuc", "save"}
  BY CommandPlan, UserPlan
<1>4. At(todo) = "settling"
  <2>1. At(todo) # "settling" => At(todo') # "settling"
    <3>1. CASE Command
      BY <1>3, <3>1, CommandPlan
    <3>2. CASE ~Command
      BY <3>2, UserPlan
    <3>3. QED BY <3>1, <3>2
  <2>2. QED BY <2>1
<1>5. Tracked(s) \/ InLine(s) \/ Ahead(s)
  BY <1>2, <1>4 DEF Settled
<1>6. CASE Tracked(s)
  BY <1>2, <1>6 DEF Tracked
<1>7. CASE Write(m)
  <2>1. /\ cmds' = Append(cmds, m) /\ call' = "sent"
    BY <1>7 DEF Write
  <2>2. /\ Len(cmds) \in Nat /\ Len(cmds') = Len(cmds) + 1 /\ cmds'[Len(cmds')] = m
        /\ \A i \in 1..Len(cmds) : cmds'[i] = cmds[i]
    BY <2>1, Appended DEF TypeInv, LineTypes
  <2>3. CASE InLine(s)
    <3>1. PICK i \in 1..Len(cmds) : cmds[i].cmd = s
      BY <2>3 DEF InLine
    <3>2. i \in 1..Len(cmds') /\ cmds'[i].cmd = s
      BY <2>2, <3>1
    <3>3. QED BY <3>2 DEF InLine
  <2>4. CASE Ahead(s)
    <3>1. PICK i \in 1..Len(todo) : todo[i] = s
      BY <2>4 DEF Ahead
    <3>2. todo # <<>> /\ Command
      BY <1>1, <3>1
    <3>3. Head(todo) = todo[1] /\ m.cmd = Head(todo)
      BY <1>1, <3>2, Taken DEF TypeInv, ModeTypes
    <3>4. todo' = todo
      BY <1>1, <1>7, <3>2 DEF Write, WriteFails
    <3>5. CASE i = 1
      <4>1. Len(cmds') \in 1..Len(cmds') /\ cmds'[Len(cmds')].cmd = s
        BY <2>2, <3>1, <3>3, <3>5
      <4>2. QED BY <4>1 DEF InLine
    <3>6. CASE i # 1
      BY <3>1, <3>4, <3>6 DEF Ahead
    <3>7. QED BY <3>5, <3>6
  <2>5. QED BY <1>5, <1>6, <2>3, <2>4
<1>8. CASE WriteFails(m) /\ ~Write(m)
  <2>1. call' = "none" /\ cmds' = cmds /\ missed' = missed \cup Kept({m.cmd})
    BY <1>2, <1>8 DEF WriteFails, camera
  <2>2. m.cmd # s
    BY <2>1 DEF Kept
  <2>3. CASE InLine(s)
    BY <2>1, <2>3 DEF InLine
  <2>4. CASE Ahead(s)
    <3>1. todo # <<>> /\ Command
      BY <1>1, <2>4 DEF Ahead
    <3>2. todo' = Tail(todo) /\ m.cmd = Head(todo)
      BY <1>1, <1>8, <3>1
    <3>3. QED BY <2>1, <2>2, <2>4, <3>1, <3>2, AheadTaken
  <2>5. QED BY <1>5, <1>6, <2>3, <2>4
<1>9. QED BY <1>1, <1>7, <1>8

LEMMA WaitSettled ==
  ASSUME TypeInv, Plan, Settled, Wait \/ Answered
  PROVE  Settled'
<1> SUFFICES ASSUME Infrared', At(todo') = "settling", NEW s \in Settings \ missed'
             PROVE  Tracked(s)' \/ InLine(s)' \/ Ahead(s)'
  BY DEF Settled
<1>1. UNCHANGED <<wire, cam, cache, cmds, missed, view>>
  BY DEF Wait, SetWait, Answered, Woken, camera, modeVars
<1>2. At(todo) = "settling"
  <2>1. CASE Wait
    BY <2>1, OthersPlan
  <2>2. CASE Answered
    BY <2>2, AnsweredPlan
  <2>3. QED BY <2>1, <2>2
<1>3. Tracked(s) \/ InLine(s) \/ Ahead(s)
  BY <1>1, <1>2 DEF Settled, Infrared
<1>4. CASE Tracked(s) \/ InLine(s)
  BY <1>1, <1>4 DEF Tracked, InLine
<1>5. CASE Ahead(s) /\ Wait
  <2>1. todo' = todo /\ call = "sent"
    BY <1>5 DEF Wait, SetWait, modeVars
  <2>2. QED BY <1>5, <2>1 DEF Ahead
<1>6. CASE Ahead(s) /\ Answered
  <2>1. todo # <<>>
    BY <1>6 DEF Ahead
  <2>2. todo' = Tail(todo) /\ call = "asleep" /\ call' = "none"
    BY <1>6, <2>1 DEF Answered, Woken
  <2>3. QED BY <1>6, <2>1, <2>2, AheadTaken
<1>7. QED BY <1>3, <1>4, <1>5, <1>6

LEMMA ReaderSettled ==
  ASSUME TypeInv, Plan, Settled, Reader
  PROVE  Settled'
<1> SUFFICES ASSUME Infrared', At(todo') = "settling", NEW s \in Settings \ missed'
             PROVE  Tracked(s)' \/ InLine(s)' \/ Ahead(s)'
  BY DEF Settled
<1>1. UNCHANGED <<cam, cmds, call, todo, view>>
  BY DEF Reader, Read, Expire, camera, modeVars
<1>2. s \notin missed /\ s # "move"
  <2>1. s # "move"
    BY NoSettings DEF Orders
  <2>2. missed' = missed \/ missed' = missed \ ({"move"} \cap {Head(wire).cmd})
    BY DEF Reader, Read, Parse, Expire
  <2>3. QED BY <2>1, <2>2
<1>3. Tracked(s) \/ InLine(s) \/ Ahead(s)
  BY <1>1, <1>2 DEF Settled, Infrared
<1>4. CASE InLine(s) \/ Ahead(s)
  BY <1>1, <1>4 DEF InLine, Ahead
<1>5. CASE Tracked(s) /\ Read
  <2>1. wire # <<>> /\ wire' = Tail(wire) /\ wire \in Seq(Messages)
    BY <1>5 DEF Read, TypeInv, LineTypes
  <2>2. /\ cache' = IF Head(wire).cmd \in Settings
                      THEN [cache EXCEPT ![Head(wire).cmd] = Head(wire).val] ELSE cache
        /\ cache \in [Settings -> Values]
    BY <1>5 DEF Read, Parse, TypeInv, LineTypes
  <2>3. \A v : LastOf(wire, s, v) =>
          LastOf(wire', s, v) \/ (NoneOf(wire', s) /\ Head(wire).cmd = s /\ Head(wire).val = v)
    BY <2>1, LastTaken
  <2>4. ASSUME NoneOf(wire, s) PROVE NoneOf(wire', s) /\ Head(wire).cmd # s
    BY <2>1, <2>4, LastTaken, Zenon
  <2>5. /\ Head(wire).cmd = s => cache'[s] = Head(wire).val
        /\ Head(wire).cmd # s => cache'[s] = cache[s]
    BY <2>2
  <2>6. QED BY <1>1, <1>5, <2>3, <2>4, <2>5 DEF Tracked, Tracks
<1>6. CASE Tracked(s) /\ Expire
  BY <1>1, <1>6 DEF Expire, Tracked
<1>7. QED BY <1>3, <1>4, <1>5, <1>6 DEF Reader

LEMMA CameraSettled ==
  ASSUME TypeInv, Plan, Settled, Camera
  PROVE  Settled'
<1> SUFFICES ASSUME Infrared', At(todo') = "settling", NEW s \in Settings \ missed'
             PROVE  Tracked(s)' \/ InLine(s)' \/ Ahead(s)'
  BY DEF Settled
<1>1. UNCHANGED <<cache, call, todo, view>> /\ missed \subseteq missed'
  BY DEF Camera, Boot, Answer, Ignore, LoseCommand, LoseAnswer, driver, modeVars
<1>2. wire \in Seq(Messages) /\ LineTypes
  BY DEF TypeInv, LineTypes
<1>3. Tracked(s) \/ InLine(s) \/ Ahead(s)
  BY <1>1 DEF Settled, Infrared
<1>4. CASE Ahead(s)
  BY <1>1, <1>4 DEF Ahead
<1>5. CASE Boot
  <2>1. PICK x \in Shifts : wire' = Append(wire, Message("ready", x))
    BY <1>5, Numbers DEF Boot
  <2>2. Message("ready", x) \in Messages /\ Message("ready", x).cmd # s
    BY Messages1, NoSettings DEF Message
  <2>3. /\ LastOf(wire, s, cam.set[s]) => LastOf(wire', s, cam.set[s])
        /\ NoneOf(wire, s) => NoneOf(wire', s)
    BY <1>2, <2>1, <2>2, LastAppended, Zenon
  <2>4. cam'.set = cam.set /\ cmds' = cmds
    BY <1>2, <1>5 DEF Boot, LineTypes
  <2>5. QED BY <1>1, <1>3, <1>4, <2>3, <2>4 DEF Tracked, Tracks, InLine
<1>6. CASE Answer
  <2> DEFINE m == Head(cmds)
             a == IF m.cmd = "move" THEN Message("move", cam'.shift) ELSE m
  <2>1. cmds # <<>> /\ cmds' = Tail(cmds) /\ wire' = Append(wire, a)
    BY <1>6 DEF Answer
  <2>2. m \in Commands /\ m \in Messages /\ cam'.shift \in Shifts
    BY <1>2, <1>6, <2>1, Taken, CameraTypes, Messages1 DEF LineTypes
  <2>3. /\ m.cmd \in Settings => cam' = [cam EXCEPT !.set[m.cmd] = m.val]
        /\ m.cmd = "move" => cam' = [cam EXCEPT !.shift = 1 - @]
        /\ m.cmd \notin Settings \cup {"move"} => cam' = cam
    BY <1>6, NoSettings DEF Answer, Orders
  <2>4. InLine(s) => InLine(s)' \/ m.cmd = s
    BY <1>2, <2>1, InLineTaken
  <2> HIDE DEF m
  <2>5. s # "move"
    BY NoSettings DEF Orders
  <2>6. a \in Messages /\ (m.cmd = s <=> a.cmd = s) /\ (m.cmd = s => a.val = m.val)
    BY <2>2, <2>5, Messages1 DEF Message
  <2> HIDE DEF a
  <2>7. CASE m.cmd = s
    <3>1. cam'.set[s] = m.val
      BY <1>2, <2>3, <2>7 DEF LineTypes
    <3>2. LastOf(wire', s, a.val)
      BY <1>2, <2>1, <2>6, <2>7, LastAppended, Zenon
    <3>3. QED BY <2>6, <2>7, <3>1, <3>2 DEF Tracked, Tracks
  <2>8. CASE m.cmd # s
    <3>1. cam'.set[s] = cam.set[s]
      BY <1>2, <2>3, <2>8 DEF LineTypes
    <3>2. /\ LastOf(wire, s, cam.set[s]) => LastOf(wire', s, cam.set[s])
          /\ NoneOf(wire, s) => NoneOf(wire', s)
      BY <1>2, <2>1, <2>6, <2>8, LastAppended, Zenon
    <3>3. Tracked(s) => Tracked(s)'
      BY <1>1, <3>1, <3>2 DEF Tracked, Tracks
    <3>4. QED BY <1>3, <1>4, <2>4, <2>8, <3>3
  <2>9. QED BY <2>7, <2>8
<1>7. CASE Ignore \/ LoseCommand
  <2>1. /\ cmds # <<>> /\ cmds' = Tail(cmds) /\ UNCHANGED <<cam, wire>>
        /\ missed' = missed \cup Kept({Head(cmds).cmd})
    BY <1>7 DEF Ignore, LoseCommand
  <2>2. Head(cmds).cmd # s
    BY <2>1 DEF Kept
  <2>3. InLine(s) => InLine(s)'
    BY <1>2, <2>1, <2>2, InLineTaken
  <2>4. QED BY <1>1, <1>3, <1>4, <2>1, <2>3 DEF Tracked
<1>8. CASE LoseAnswer
  <2>1. /\ wire # <<>> /\ wire' = Tail(wire) /\ UNCHANGED <<cam, cmds>>
        /\ missed' = missed \cup Kept({Head(wire).cmd})
    BY <1>8 DEF LoseAnswer, camera
  <2>2. Head(wire).cmd # s
    BY <2>1 DEF Kept
  <2>3. \A v : /\ LastOf(wire, s, v) => LastOf(wire', s, v)
               /\ NoneOf(wire, s) => NoneOf(wire', s)
    BY <1>2, <2>1, <2>2, LastTaken, Zenon
  <2>4. QED BY <1>1, <1>3, <1>4, <2>1, <2>3 DEF Tracked, Tracks, InLine
<1>9. QED BY <1>5, <1>6, <1>7, <1>8 DEF Camera

(* With its first step in the infrared view a change has every setting still to send. *)
LEMMA RunSettled ==
  ASSUME TypeInv, Plan, Run
  PROVE  Settled'
<1>1. Complete(todo') /\ call' = "none"
  BY PreviewPlan DEF Run, AtStep, ircamVars, driver
<1>2. \A s \in Settings : Ahead(s)'
  BY <1>1 DEF Complete, Holding, Ahead
<1>3. QED BY <1>2 DEF Settled

LEMMA SettledStep ==
  ASSUME TypeInv, Plan, RunPlan, Settled, [Next]_vars
  PROVE  Settled'
<1>0. view \in Views
  BY DEF TypeInv, ModeTypes
<1>1. CASE Command \/ Adjust \/ Order
  BY <1>1, SentSettled
<1>2. CASE Wait \/ Answered
  BY <1>2, WaitSettled
<1>3. CASE Reader
  BY <1>3, ReaderSettled
<1>4. CASE Camera
  BY <1>4, CameraSettled
<1>5. CASE Run
  BY <1>5, RunSettled
<1>6. CASE ~Infrared' \/ At(todo') # "settling"
  BY <1>6 DEF Settled
<1>7. CASE ToggleOn \/ ToggleOff \/ Booted \/ TurnOff \/ Initialise \/ Deinitialise \/ Join
  BY <1>6, <1>7, TogglePlan, BootedPlan, TurnOffPlan, PreviewPlan, LeavePlan
<1>8. CASE TurnOn \/ CloseShutter \/ OpenShutter
  <2>1. At(todo) \notin {"settling", "deinit"} /\ view' = view
    BY <1>8, TurnOnPlan, ClosePlan, OpenPlan DEF TurnOn
  <2>2. ~Infrared'
    BY <2>1 DEF RunPlan, Infrared
  <2>3. QED BY <1>6, <2>2
<1>9. CASE ThreadStarts \/ ThreadFails \/ ThreadEnds
  BY <1>6, <1>9, ThreadMoves DEF Infrared
<1>10. CASE LateMove \/ UNCHANGED vars
  <2>1. LineKept /\ todo' = todo /\ view' = view
    BY <1>10, KeptLine DEF LateMove, vars, modeVars
  <2>2. QED BY <2>1 DEF LineKept, Settled, Infrared, Tracked, InLine, Ahead
<1>11. QED BY <1>1, <1>2, <1>3, <1>4, <1>5, <1>7, <1>8, <1>9, <1>10, Cases DEF LineStep

(* Through any changes of the view the camera has the settings that the driver
   reports, but for those whose command or answer was lost. *)
THEOREM SettingsKept == Spec => []SettingsSurvive
<1>1. Init => Settled
  BY DEF Init, vgss_create, Settled, Infrared
<1>2. ChangeInv /\ Settled /\ [Next]_vars => Settled'
  BY SettledStep DEF ChangeInv
<1>3. Settled => SettingsSurvive
  <2> SUFFICES ASSUME Settled, Idle, Infrared, Quiet, NEW s \in Settings \ missed
               PROVE  cam.set[s] = cache[s]
    BY DEF SettingsSurvive
  <2>1. At(todo) = "settling" /\ todo = <<>> /\ cmds = <<>> /\ wire = <<>>
    BY NothingLeft DEF Idle, Quiet
  <2>2. Tracked(s)
    BY <2>1 DEF Settled, InLine, Ahead
  <2>3. QED BY <2>1, <2>2 DEF Tracked, Tracks, LastOf
<1>4. QED BY <1>1, <1>2, <1>3, Changes, PTL DEF Spec

=============================================================================
