------------------------------- MODULE Obmode -------------------------------
(***************************************************************************)
(* core/sysctrl.c: changing between the day view and the infrared view.    *)
(* A view takes five parts that must agree: the camera's power, its        *)
(* settings, the shutter before the day lens (modules/mcu.c, module Mcu),  *)
(* the preview (module Preview) and, for the user's adjustments, the serial *)
(* line (module Ircam).  The main thread does the steps of a change one    *)
(* after the other in a key's handler; most of their results are ignored.  *)
(***************************************************************************)
EXTENDS Ircam, Preview

CONSTANT MaxAdjust   \* bound: the user's commands

ASSUME ObmodeAssumption == MaxAdjust \in Nat

VARIABLES
  view,     \* the preview
  shutter,  \* where the shutter is
  closed,   \* this->shutter.close: where the driver takes it to be
  due,      \* moves that the driver no longer waits for and the MCU has still to do
  todo,     \* what the main thread has still to do of a change
  saved,    \* devconf's IRHSHIFT and IRVSHIFT
  adjusts,
  bad       \* history: what failed since a change began with all parts in order

shutterVars == <<shutter, closed, due>>
modeVars == <<view, shutterVars, todo, saved, adjusts, bad>>
vars == <<ircamVars, modeVars>>

(* mcu_init_attribute takes the shutter to be open, wherever it was left. *)
Init ==
  /\ IrcamInit
  /\ view = vgss_create
  /\ shutter \in {"open", "closed"} /\ closed = FALSE /\ due = <<>>
  /\ todo = <<>>
  /\ saved = cam.shift
  /\ adjusts = 0
  /\ bad = IF shutter = "closed" THEN {"astray"} ELSE {}

-----------------------------------------------------------------------------
(* What the handlers do, in order. *)

Chosen(s) == IF s \in Settings THEN <<s>> ELSE <<>>

(* Mutant: the level is not among them. *)
RestoredButLevel ==
  Chosen("histeq") \o Chosen("irpol") \o Chosen("color") \o Chosen("contrast")
    \o Chosen("bright") \o Chosen("edge") \o Chosen("gain")

(* The settings the camera has forgotten, in the order of sysctrl_toggle_obmode. *)
Restored ==
  Chosen("histeq") \o Chosen("irpol") \o Chosen("color") \o Chosen("contrast")
    \o Chosen("bright") \o Chosen("edge") \o Chosen("gain") \o Chosen("level")

ShowInfrared ==
  <<"on", "close", "init", "nuc", "run", "tec", "nuc">> \o Restored \o <<"array">>

(* Mutant: the camera's power is left on. *)
ShowDayPowered(save) ==
  <<"deinit">> \o (IF save THEN <<"save">> ELSE <<>>) \o <<"open">>

(* From the dialog of the infrared array the shift is saved first. *)
ShowDay(save) ==
  <<"deinit">> \o (IF save THEN <<"save">> ELSE <<>>) \o <<"off", "open">>

Idle == todo = <<>> /\ call = "none"

Infrared == view.state = "run"

Whole(v) == v.thread \in {"begin", "on"} /\ v.camif = "live" /\ v.ipu = "live"

(* Every part is where the view wants it, and nothing is on its way. *)
InOrder ==
  /\ due = <<>>
  /\ shutter = "closed" <=> closed
  /\ closed <=> Infrared
  /\ power = "enable" <=> Infrared
  /\ IF Infrared THEN Whole(view) ELSE view.thread = "none"

(* What failed before is no excuse for what a change leaves that begins in order. *)
Change(steps) ==
  /\ Idle
  /\ todo' = steps
  /\ bad' = IF InOrder THEN {} ELSE bad
  /\ UNCHANGED <<ircamVars, view, shutterVars, saved, adjusts>>

(* sysctrl_toggle_obmode; a preview that is paused is an error. *)
ToggleOn == view.state = "stop" /\ Change(ShowInfrared)

(* ... and sysctrl_enter_standby_mode *)
ToggleOff == view.state = "run" /\ \E save \in BOOLEAN : Change(ShowDay(save))

Sent(m) == (Write(m) \/ WriteFails(m)) /\ UNCHANGED <<todo, bad>>

(* sysctrl_increase_irbr, sysctrl_set_irclr_sepia, ... *)
Adjust ==
  /\ Idle
  /\ adjusts < MaxAdjust /\ adjusts' = adjusts + 1
  /\ \E s \in Settings :
       /\ s = "irpol" => view.state = "run"
       /\ \E v \in {cache[s] + 1, cache[s] - 1} : Sent(Message(s, Clamp(v)))
  /\ UNCHANGED <<view, shutterVars, saved>>

(* sysctrl_move_ir_left, ..., and the key for a new non-uniformity correction *)
Order ==
  /\ Idle /\ view.state = "run"
  /\ adjusts < MaxAdjust /\ adjusts' = adjusts + 1
  /\ \E cmd \in {"move", "nuc"} : Sent(Message(cmd, 0))
  /\ UNCHANGED <<view, shutterVars, saved>>

-----------------------------------------------------------------------------
(* One step of a change. *)

AtStep(step) == call = "none" /\ todo # <<>> /\ Head(todo) = step

Then(steps) == todo' = steps \o Tail(todo)

GiveUp == todo' = <<>>

Failing(what) == Fault /\ bad' = bad \cup {what}

(* What the serial line keeps when the main thread works on another part. *)
LineAlone == UNCHANGED <<camera, wire, driver, late, doubt, missed>>

TurnOn ==
  /\ AtStep("on")
  /\ \/ PowerOn /\ Then(<<"boot">>)
     \/ power = "enable" /\ GiveUp /\ UNCHANGED ircamVars
  /\ UNCHANGED <<view, shutterVars, saved, adjusts, bad>>

(* A camera that does not boot is no reason to stop. *)
Booted ==
  /\ AtStep("boot")
  /\ Then(<<>>)
  /\ \/ power = "enable" /\ UNCHANGED <<ircamVars, bad>>
     \/ BootTimeout /\ bad' = bad \cup {"boot"}
  /\ UNCHANGED <<view, shutterVars, saved, adjusts>>

TurnOff ==
  /\ AtStep("off")
  /\ PowerOff
  /\ Then(<<>>)
  /\ UNCHANGED <<view, shutterVars, saved, adjusts, bad>>

Thought(p) == closed <=> p = "closed"

(* The MCU has moved the shutter and the driver has read its report. *)
Reported(p) == shutter' = p /\ closed' = (p = "closed")

(* The wait ends by the report of this move, or of one that came too late. *)
Moved(p) ==
  /\ UNCHANGED <<faults, bad>>
  /\ \/ due = <<>> /\ Reported(p) /\ UNCHANGED due
     \/ due # <<>> /\ Reported(Head(due)) /\ due' = Append(Tail(due), p)

(* It ends by the timeout, a damaged frame or a notice of the MCU, and the call
   succeeds: the request was lost, the report was lost, or the move is to come. *)
Astray(p) ==
  /\ Failing("astray")
  /\ \/ UNCHANGED shutterVars
     \/ due = <<>> /\ shutter' = p /\ UNCHANGED <<closed, due>>
     \/ due' = Append(due, p) /\ UNCHANGED <<shutter, closed>>

(* mcu_move_shutter *)
MoveTo(p) == ~Thought(p) /\ (Moved(p) \/ Astray(p))

(* It refuses to move the shutter where it takes it to be already. *)
MoveFails(p) ==
  /\ IF Thought(p) THEN UNCHANGED faults ELSE Fault
  /\ bad' = bad \cup {"shutter"}
  /\ UNCHANGED shutterVars

(* Without the shutter the change is given up, with the camera left on. *)
CloseShutter ==
  /\ AtStep("close")
  /\ \/ MoveTo("closed") /\ Then(<<>>)
     \/ MoveFails("closed") /\ GiveUp
  /\ LineAlone
  /\ UNCHANGED <<view, saved, adjusts>>

OpenShutter ==
  /\ AtStep("open")
  /\ MoveTo("open") \/ MoveFails("open")
  /\ Then(<<>>)
  /\ LineAlone
  /\ UNCHANGED <<view, saved, adjusts>>

Initialise ==
  /\ AtStep("init")
  /\ Then(<<>>)
  /\ \/ view' = InitPreview(view) /\ UNCHANGED <<faults, bad>>
     \/ Failing("init") /\ view' \in InitFails(view)
  /\ LineAlone
  /\ UNCHANGED <<shutterVars, saved, adjusts>>

Run ==
  /\ AtStep("run")
  /\ Then(<<>>)
  /\ view' = RunPreview(view)
  /\ UNCHANGED <<ircamVars, shutterVars, saved, adjusts, bad>>

(* Nothing to stop unless the preview is there. *)
Deinitialise ==
  /\ AtStep("deinit")
  /\ Then(IF view.state = "stop" THEN <<>> ELSE <<"join">>)
  /\ view' = StopPreview(view)
  /\ UNCHANGED <<ircamVars, shutterVars, saved, adjusts, bad>>

Join ==
  /\ AtStep("join") /\ CanJoin(view)
  /\ Then(<<>>)
  /\ view' = JoinPreview(view)
  /\ UNCHANGED <<ircamVars, shutterVars, saved, adjusts, bad>>

(* A command to the camera with what the driver has kept. *)
Command ==
  /\ call = "none" /\ todo # <<>>
  /\ Head(todo) \in Settings \cup Orders
  /\ LET cmd == Head(todo)
         m   == Message(cmd, IF cmd \in Settings THEN cache[cmd] ELSE 0) IN
       \/ Write(m) /\ UNCHANGED todo
       \/ WriteFails(m) /\ Then(<<>>)
  /\ UNCHANGED <<view, shutterVars, saved, adjusts, bad>>

(* The command is over; ircam_array_mode saves the shift if nothing is wrong. *)
Answered ==
  /\ Woken
  /\ todo' = IF todo = <<>> THEN <<>> ELSE Tail(todo)
  /\ saved' = IF op.cmd = "save" /\ error = {} THEN shift ELSE saved
  /\ UNCHANGED <<view, shutterVars, adjusts, bad>>

Wait == SetWait /\ UNCHANGED modeVars

Main ==
  \/ TurnOn \/ Booted \/ TurnOff \/ CloseShutter \/ OpenShutter
  \/ Initialise \/ Run \/ Deinitialise \/ Join
  \/ Command \/ Wait \/ Answered

User == ToggleOn \/ ToggleOff \/ Adjust \/ Order

-----------------------------------------------------------------------------
(* The other threads and the camera. *)

Reader == (Read \/ Expire) /\ UNCHANGED modeVars

Camera == (Boot \/ Answer \/ Ignore \/ LoseCommand \/ LoseAnswer) /\ UNCHANGED modeVars

(* The thread starts; when the main thread has run or stopped the preview before,
   it undoes that. *)
ThreadStarts ==
  /\ view.thread = "begin"
  /\ LET belated == IF view.state = "pause" THEN {} ELSE {"belated"} IN
       \/ view' = Started(view) /\ bad' = bad \cup belated /\ UNCHANGED faults
       \/ Fault /\ view' = NotStarted(view) /\ bad' = bad \cup belated \cup {"stream"}
  /\ LineAlone
  /\ UNCHANGED <<shutterVars, todo, saved, adjusts>>

ThreadFails ==
  /\ view.thread = "on" /\ view.state = "run"
  /\ Failing("stream")
  /\ view' = FrameFails(view)
  /\ LineAlone
  /\ UNCHANGED <<shutterVars, todo, saved, adjusts>>

ThreadEnds ==
  /\ view.thread = "on" /\ view.state = "stop"
  /\ view' = Ended(view)
  /\ UNCHANGED <<ircamVars, shutterVars, todo, saved, adjusts, bad>>

Thread == ThreadStarts \/ ThreadFails \/ ThreadEnds

(* The MCU does a move nobody waits for; its report is read, or lost. *)
LateMove ==
  /\ due # <<>> /\ due' = Tail(due)
  /\ shutter' = Head(due)
  /\ closed' \in {closed, Head(due) = "closed"}
  /\ UNCHANGED <<ircamVars, view, todo, saved, adjusts, bad>>

(* Freeing or joining twice is undefined: nothing is said of what follows. *)
Next == view.sane /\ (Main \/ User \/ Reader \/ Camera \/ Thread \/ LateMove)

(* The threads are scheduled, and the camera answers or has its power cut: a
   command it ignores for good is one LoseCommand takes. *)
Fairness ==
  /\ WF_vars(view.sane /\ Main)
  /\ WF_vars(view.sane /\ Read /\ UNCHANGED modeVars)
  /\ WF_vars(view.sane /\ Expire /\ UNCHANGED modeVars)
  /\ WF_vars(view.sane /\ (Answer \/ Ignore) /\ UNCHANGED modeVars)
  /\ WF_vars(view.sane /\ (ThreadStarts \/ ThreadEnds))

Spec == Init /\ [][Next]_vars /\ Fairness

-----------------------------------------------------------------------------

(* The types of the variables. *)
TypeOK ==
  /\ cam \in [on : BOOLEAN, booted : BOOLEAN, set : [Settings -> Values], shift : Shifts]
  /\ power \in Powers /\ error \subseteq Errors
  /\ cache \in [Settings -> Values]
  /\ shift \in Shifts \cup {Unmoved}
  /\ waitAck \in BOOLEAN /\ call \in {"none", "sent", "asleep"}
  /\ view \in Views
  /\ shutter \in {"open", "closed"} /\ closed \in BOOLEAN
  /\ due \in Seq({"open", "closed"})
  /\ saved \in Shifts \cup {Unmoved}

(* Between changes the camera's power, the shutter and the preview tell the same
   view, and the driver knows where the shutter is, unless something failed since a
   change began with all of them in order; and what failed is told by what disagrees.
   The camera is on under a stopped preview (no change succeeds from then on) after
   the shutter failed or the preview's thread died or came late only; the preview
   runs with the camera off after a boot timeout only; it runs without a thread,
   a still picture, after its creation failed only.  The shutter is open before the
   infrared view, or taken to be where it is not, after the acknowledgement of a
   move was something else only (or as it was found at the start); it stays closed
   before the day view then, or after a move that failed or was refused because
   the driver took it to be there. *)
PartsAgree ==
  Idle =>
    /\ power = "enable" /\ ~Infrared => bad \cap {"shutter", "stream", "belated"} # {}
    /\ Infrared /\ power # "enable" => "boot" \in bad
    /\ Infrared /\ view.thread \in {"none", "ended"} => bad \cap {"init", "stream"} # {}
    /\ shutter = "closed" /\ ~Infrared =>
         bad \cap {"shutter", "stream", "belated", "astray"} # {}
    /\ Infrared /\ shutter = "open" => "astray" \in bad
    /\ (closed /\ shutter = "open") \/ (~closed /\ shutter = "closed") \/ due # <<>> =>
         "astray" \in bad

(* The camera's settings are those the driver reports, whenever the infrared view
   is up and the line quiet, but for those whose command or answer was lost since
   the camera was powered: the settings survive a change of the view. *)
SettingsSurvive ==
  Idle /\ Infrared /\ cam.booted /\ Quiet =>
    \A s \in Settings \ missed : cam.set[s] = cache[s]

(* A setting that was accepted without an error is the one the driver reports, and
   in the infrared view the one the camera has, unless its answer was late or lost
   or another frame was taken for it. *)
AcceptedIsKept ==
  Idle /\ ok /\ op.cmd \in Settings =>
    \/ doubt
    \/ /\ cache[op.cmd] = op.val
       /\ Infrared => cam.set[op.cmd] = op.val

(* The shift saved for the target's position is the camera's, unless the camera
   has not reported one since the start, or an answer to a move was lost or is
   still to come: save_end then keeps 30 or an earlier shift without an error. *)
SavedShift ==
  [][saved' # saved =>
       saved' = cam.shift \/ shift = Unmoved \/ "move" \in missed \/ ~Quiet]_vars

(* Nothing of the preview is freed or joined twice, unless it could not be created
   in an earlier change: the failed creation frees but keeps the pointers, and run
   then marks a preview without a thread as running. *)
FreedOnce == ~view.sane => "init" \in bad

(* A change of the view, and every command, comes to an end, even with a silent
   camera, unless the preview's thread starts so late that it undoes the stop it
   is joined for. *)
ChangeEnds ==
  ~Idle ~> (Idle \/ ~view.sane \/ "belated" \in bad)

=============================================================================
