------------------------------- MODULE Ircam -------------------------------
(***************************************************************************)
(* modules/ircam.c: commands to the infrared camera over a serial line.    *)
(* The main thread writes a command and waits; the reader thread parses    *)
(* what the camera sends, keeps the settings it reports and acknowledges   *)
(* any frame.  After 3 s without an answer it acknowledges too, and sets   *)
(* no error: to the caller an unanswered command is a success.             *)
(*                                                                         *)
(* The camera forgets its settings when its power is cut; it applies and   *)
(* answers a command once it has booted, late or never.  Values are small  *)
(* numbers; the bytes of a frame and commands nobody sends are left out.   *)
(***************************************************************************)
EXTENDS Integers, Sequences, SequencesExt

CONSTANTS Settings,    \* what is set again when the camera is powered
          Top,         \* the highest value of a setting
          MaxLate,     \* bound: answers later than the timeout
          MaxFaults    \* bound: failed writes, lost frames, failing devices

Names == {"histeq", "irpol", "color", "contrast", "bright", "edge", "gain", "level"}

ASSUME IrcamAssumption ==
  Settings \subseteq Names /\ Top \in Nat /\ MaxLate \in Nat /\ MaxFaults \in Nat

Values  == 0..Top
Shifts  == 0..1
Unmoved == 30          \* this->irhshift until the camera reports another
Powers  == {"disable", "booting", "enable"}
Errors  == {"comm", "boot", "detector"}

(* Commands without a value that matters; the answer to move tells the shift,
   ready the camera's health. *)
Orders == {"nuc", "tec", "array", "save", "move"}
Frames == [cmd : Settings \cup Orders \cup {"ready"}, val : Values \cup Shifts]

VARIABLES
  cam,      \* the camera: on, booted, its settings, the shift of its array
  cmds,     \* the line: commands to the camera
  wire,     \* the line: frames from the camera
  power,    \* this->power
  error,    \* this->error
  cache,    \* this->bright, this->contrast, ...
  shift,    \* this->irhshift, this->irvshift
  waitAck,  \* this->waitAck
  call,     \* where the main thread is in a command
  op,       \* its last command
  ok,       \* it returned 0
  late, faults,
  doubt,    \* history: an answer was late, lost or taken for another
  missed    \* history: settings and moves without an answer since power on

camera == <<cam, cmds>>
driver == <<power, error, cache, shift, waitAck, call, op, ok>>
ircamVars == <<camera, wire, driver, late, faults, doubt, missed>>

Factory == [s \in Settings |-> 0]   \* the camera's settings when it boots

(* ircam_init_attribute *)
IrcamInit ==
  /\ cam = [on |-> FALSE, booted |-> FALSE, set |-> Factory, shift |-> 0]
  /\ cmds = <<>> /\ wire = <<>>
  /\ power = "disable" /\ error = {}
  /\ cache = [s \in Settings |-> Top \div 2]
  /\ shift = Unmoved
  /\ waitAck = FALSE /\ call = "none" /\ op = [cmd |-> "nuc", val |-> 0] /\ ok = FALSE
  /\ late = 0 /\ faults = 0 /\ doubt = FALSE /\ missed = {}

Fault == faults < MaxFaults /\ faults' = faults + 1

Kept(names) == names \cap (Settings \cup {"move"})

Quiet == cmds = <<>> /\ wire = <<>>

-----------------------------------------------------------------------------
(* The main thread: one command. *)

(* The setters keep what they are given within its limits. *)
Clamp(v) == IF v > Top THEN Top ELSE IF v < 0 THEN 0 ELSE v

Message(cmd, val) == [cmd |-> cmd, val |-> val]

(* ircam_write_message *)
Write(m) ==
  /\ op' = m
  /\ cmds' = Append(cmds, m)
  /\ error' = error \ {"comm"}
  /\ call' = "sent"
  /\ ok' = FALSE
  /\ doubt' = (doubt /\ ~Quiet)
  /\ UNCHANGED <<cam, wire, power, cache, shift, waitAck, late, faults, missed>>

(* The fourth attempt fails too. *)
WriteFails(m) ==
  /\ Fault
  /\ op' = m /\ ok' = FALSE
  /\ error' = error \cup {"comm"}
  /\ missed' = missed \cup Kept({m.cmd})
  /\ UNCHANGED <<camera, wire, power, cache, shift, waitAck, call, late, doubt>>

(* ircam_wait_ack: the answer may have come before. *)
SetWait ==
  /\ call = "sent"
  /\ waitAck' = TRUE
  /\ call' = "asleep"
  /\ UNCHANGED <<camera, wire, power, error, cache, shift, op, ok, late, faults, doubt, missed>>

Woken ==
  /\ call = "asleep" /\ ~waitAck
  /\ call' = "none"
  /\ ok' = (error = {})
  /\ UNCHANGED <<camera, wire, power, error, cache, shift, waitAck, op, late, faults,
                 doubt, missed>>

(* ircam_enable_power: refused when the power is on. *)
PowerOn ==
  /\ power # "enable"
  /\ power' = "booting"
  /\ cam' = [cam EXCEPT !.on = TRUE]
  /\ missed' = missed \cap {"move"}
  /\ UNCHANGED <<cmds, wire, error, cache, shift, waitAck, call, op, ok, late, faults, doubt>>

CutPower ==
  /\ cam' = [cam EXCEPT !.on = FALSE, !.booted = FALSE, !.set = Factory]
  /\ cmds' = <<>>
  /\ power' = "disable"
  /\ doubt' = (doubt \/ cmds # <<>>)
  /\ missed' = missed \cup Kept({m.cmd : m \in Range(cmds)})
  /\ UNCHANGED <<wire, cache, shift, waitAck, call, op, ok, late, faults>>

(* After 15 s the power is cut again and the call succeeds. *)
BootTimeout ==
  /\ power = "booting"
  /\ error' = {"boot"}
  /\ CutPower

PowerOff == UNCHANGED error /\ CutPower

-----------------------------------------------------------------------------
(* The reader thread. *)

(* Mutant: the answer to move is taken for a step. *)
ParseMoveAsStep(m) ==
  /\ cache' = IF m.cmd \in Settings THEN [cache EXCEPT ![m.cmd] = m.val] ELSE cache
  /\ shift' = IF m.cmd = "move" THEN shift + m.val ELSE shift
  /\ missed' = missed \ ({"move"} \cap {m.cmd})
  /\ power' = IF m.cmd = "ready" /\ power = "booting" THEN "enable" ELSE power
  /\ error' = IF m.cmd = "ready" THEN {} ELSE error

(* Mutant: a setting is recorded when a caller waits for it only. *)
ParseIfWaiting(m) ==
  /\ cache' = IF m.cmd \in Settings /\ waitAck
                THEN [cache EXCEPT ![m.cmd] = m.val] ELSE cache
  /\ shift' = IF m.cmd = "move" THEN m.val ELSE shift
  /\ missed' = missed \ ({"move"} \cap {m.cmd})
  /\ power' = IF m.cmd = "ready" /\ power = "booting" THEN "enable" ELSE power
  /\ error' = IF m.cmd = "ready" THEN {} ELSE error

(* ircam_parse_message *)
Parse(m) ==
  /\ cache' = IF m.cmd \in Settings THEN [cache EXCEPT ![m.cmd] = m.val] ELSE cache
  /\ shift' = IF m.cmd = "move" THEN m.val ELSE shift
  /\ missed' = missed \ ({"move"} \cap {m.cmd})
  /\ power' = IF m.cmd = "ready" /\ power = "booting" THEN "enable" ELSE power
  /\ error' = CASE m.cmd # "ready" -> error
                [] m.cmd = "ready" /\ m.val = 0 -> error \ {"boot", "detector"}
                [] OTHER -> error \cup {"boot", "detector"}

(* ircam_read_message: the frame acknowledges whatever is waiting. *)
Read ==
  /\ wire # <<>>
  /\ Parse(Head(wire))
  /\ wire' = Tail(wire)
  /\ waitAck' = FALSE
  /\ doubt' = (doubt \/ (call # "none" /\ Head(wire).cmd # op.cmd))
  /\ UNCHANGED <<camera, call, op, ok, late, faults>>

(* Mutant: a timeout does not acknowledge. *)
ExpireQuietly ==
  /\ waitAck /\ wire = <<>> /\ cmds # <<>> /\ late < MaxLate
  /\ late' = late + 1
  /\ doubt' = TRUE
  /\ UNCHANGED <<camera, wire, driver, faults, missed>>

(* poll() finds nothing and the command is 3 s old.  The camera may be slow. *)
Expire ==
  /\ waitAck /\ wire = <<>>
  /\ waitAck' = FALSE
  /\ \/ cmds = <<>> /\ UNCHANGED <<late, doubt>>
     \/ /\ cmds # <<>> /\ late < MaxLate
        /\ late' = late + 1
        /\ doubt' = TRUE
  /\ UNCHANGED <<camera, wire, power, error, cache, shift, call, op, ok, faults, missed>>

-----------------------------------------------------------------------------
(* The camera and the line. *)

(* It takes seconds, and the reader has read of the last time by then. *)
Boot ==
  /\ cam.on /\ ~cam.booted
  /\ \A m \in Range(wire) : m.cmd # "ready"
  /\ cam' = [cam EXCEPT !.booted = TRUE]
  /\ \/ wire' = Append(wire, Message("ready", 0)) /\ UNCHANGED faults
     \/ wire' = Append(wire, Message("ready", 1)) /\ Fault
  /\ UNCHANGED <<cmds, driver, late, doubt, missed>>

Answer ==
  /\ cam.booted /\ cmds # <<>>
  /\ LET m == Head(cmds) IN
       /\ cam' = CASE m.cmd \in Settings -> [cam EXCEPT !.set[m.cmd] = m.val]
                   [] m.cmd = "move"     -> [cam EXCEPT !.shift = 1 - @]
                   [] OTHER              -> cam
       /\ wire' = Append(wire, IF m.cmd = "move" THEN Message("move", cam'.shift) ELSE m)
  /\ cmds' = Tail(cmds)
  /\ UNCHANGED <<driver, late, faults, doubt, missed>>

(* A command to a camera that is off or booting is lost. *)
Ignore ==
  /\ ~cam.booted /\ cmds # <<>>
  /\ cmds' = Tail(cmds)
  /\ doubt' = TRUE
  /\ missed' = missed \cup Kept({Head(cmds).cmd})
  /\ UNCHANGED <<cam, wire, driver, late, faults>>

LoseCommand ==
  /\ Fault
  /\ cmds # <<>>
  /\ cmds' = Tail(cmds)
  /\ doubt' = TRUE
  /\ missed' = missed \cup Kept({Head(cmds).cmd})
  /\ UNCHANGED <<cam, wire, driver, late>>

LoseAnswer ==
  /\ Fault
  /\ wire # <<>>
  /\ wire' = Tail(wire)
  /\ doubt' = TRUE
  /\ missed' = missed \cup Kept({Head(wire).cmd})
  /\ UNCHANGED <<camera, driver, late>>

=============================================================================
