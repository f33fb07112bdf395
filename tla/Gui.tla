--------------------------------- MODULE Gui ---------------------------------
(***************************************************************************)
(* core/guimgr.c: the factory-mode GUI.  The main thread handles one event *)
(* at a time and owns the window: the main menu, the stack of dialogs and  *)
(* the focus that decides who gets the next key.  The draw thread reads    *)
(* the window at 10 Hz.  The preview thread of modules/vgss.c runs while   *)
(* the IR image is aligned and may stop on its own.                        *)
(*                                                                         *)
(* The keys LEFT, RIGHT, UP and DOWN that change only the selected item, a *)
(* digit or the IR camera are left out; so are the dialogs, the submenu    *)
(* focus and the standby mode that the factory menu does not reach.        *)
(***************************************************************************)
EXTENDS Naturals, Sequences

CONSTANTS MayFail,      \* what may fail, see Failures
          MaxDialogs    \* bound: dialogs on the stack

(* An allocation of a menu or a dialog, a push on the stack, the boot of the
   camera in time, the shutter, the preview thread. *)
Failures == {"menu", "dialog", "push", "boot", "shutter", "preview"}

ASSUME GuiAssumption == MayFail \subseteq Failures /\ MaxDialogs \in Nat \ {0, 1}

(* The dialogs the menu opens.  SETTING stands for the corrections, the checks,
   IRSCALEINPUT and INIT: any button closes them.  RESULT stands for the four
   results of an update.  IRARRAY has a button YES or SAVE_END, depending on the
   preview when it is created. *)
Ids == {"SETTING", "FWUPDATE", "IRARRAY_START", "IRARRAY_END", "MOVE_IR", "LOW_VOLTAGE", "RESULT"}

Widgets(id) ==
  CASE id = "SETTING"                    -> {"BUTTON", "SPINBOX"}
    [] id \in {"FWUPDATE", "IRARRAY_START"} -> {"YES", "CANCEL"}
    [] id = "IRARRAY_END"                -> {"SAVE_END", "CANCEL"}
    [] id = "MOVE_IR"                    -> {"QSEL"}
    [] OTHER                             -> {"CONFIRM"}

(* The widget that has the focus when the dialog is created. *)
FirstFocus(id) ==
  CASE id = "SETTING"                    -> "BUTTON"
    [] id \in {"FWUPDATE", "IRARRAY_START", "IRARRAY_END"} -> "CANCEL"
    [] id = "MOVE_IR"                    -> "QSEL"
    [] OTHER                             -> "CONFIRM"

Dialog(id) == [id |-> id, widget |-> FirstFocus(id)]

Dialogs == [id : Ids, widget : {"BUTTON", "SPINBOX", "YES", "SAVE_END", "CANCEL", "QSEL", "CONFIRM"}]

VARIABLES
  win,       \* window: focus, menu (it exists), dialogs (the stack, top first)
  mode,      \* GUI_MODE_FACTORY or GUI_MODE_FWUPDATE
  lock,      \* the keys are locked (KeyinHandler.tla)
  busy,      \* what the main thread is in the middle of
  preview,   \* preview state of vgss
  camera,    \* the IR camera is powered
  draw,      \* where the draw thread is
  dead,      \* the thread that dereferenced a null menu, or "none"
  failed,    \* history: what has failed so far
  torn       \* history: the menu was closed between the draw thread's test and lock

vars == <<win, mode, lock, busy, preview, camera, draw, dead, failed, torn>>

(* gui_window_create: the focus is on a menu that does not exist yet. *)
Init ==
  /\ win = [focus |-> "MENU", menu |-> FALSE, dialogs |-> <<>>]
  /\ mode = "FACTORY"
  /\ lock = TRUE
  /\ busy = "boot"
  /\ preview = "STOP"
  /\ camera = FALSE
  /\ draw = "idle"
  /\ dead = "none"
  /\ failed = {}
  /\ torn = FALSE

-----------------------------------------------------------------------------
(* Operations on the window. *)

(* guimgr_show_menu(true) and (false) *)
OpenMenu(w) == IF w.menu THEN w ELSE [w EXCEPT !.menu = TRUE, !.focus = "MENU"]

CloseMenu(w) == IF w.menu THEN [w EXCEPT !.menu = FALSE, !.focus = "NONE"] ELSE w

(* Mutant: the focus goes to the menu whether or not it is there. *)
HideBlindly(w) ==
  IF w.dialogs = <<>> THEN w
  ELSE [w EXCEPT !.dialogs = Tail(@),
                 !.focus = IF Tail(w.dialogs) # <<>> THEN "DIALOG" ELSE "MENU"]

(* guimgr_hide_toplev_dialog *)
Hide(w) ==
  IF w.dialogs = <<>> THEN w
  ELSE [w EXCEPT !.dialogs = Tail(@),
                 !.focus = IF Tail(w.dialogs) # <<>> THEN "DIALOG"
                           ELSE IF w.menu THEN "MENU" ELSE "NONE"]

(* The outcomes of an operation that allocates: a window and what failed. *)
Outcome(w, fault) == [win |-> w, fault |-> fault]

(* guimgr_show_dialog: a dialog that cannot be created leaves the window as it
   is; one that cannot be pushed is lost, but takes the focus. *)
ShowDialog(w, id) ==
  {Outcome([w EXCEPT !.dialogs = <<Dialog(id)>> \o @, !.focus = "DIALOG"], {}),
   Outcome(w, {"dialog"}),
   Outcome([w EXCEPT !.focus = "DIALOG"], {"push"})}

ShowMenu(w) ==
  {Outcome(OpenMenu(w), {})} \cup (IF w.menu THEN {} ELSE {Outcome(w, {"menu"})})

Only(w) == {Outcome(w, {})}

(* The window becomes one of the outcomes; `more` failed before it. *)
Show(outcomes, more) ==
  \E o \in outcomes :
    /\ o.fault \cup more \subseteq MayFail
    /\ win' = o.win
    /\ failed' = failed \cup o.fault \cup more
    /\ torn' = (torn \/ (draw = "menu" /\ win.menu /\ ~o.win.menu))

-----------------------------------------------------------------------------
(* The main thread. *)

Alive == dead = "none"

Idle == Alive /\ busy = "idle"

Quiet == UNCHANGED <<mode, lock, busy, preview, camera, draw, dead>>

HasTop(id) == win.dialogs # <<>> /\ Head(win.dialogs).id = id

Focused(id, widget) ==
  win.focus = "DIALOG" /\ HasTop(id) /\ Head(win.dialogs).widget = widget

Room == Len(win.dialogs) < MaxDialogs

(* main: the first menu, then the keys. *)
Boot ==
  /\ Alive /\ busy = "boot"
  /\ Show(ShowMenu(win), {})
  /\ busy' = "idle"
  /\ lock' = FALSE
  /\ UNCHANGED <<mode, preview, camera, draw, dead>>

(* A key on the focused menu when there is none: a null dereference. *)
KeyWithoutMenu ==
  /\ Idle
  /\ win.focus = "MENU" /\ ~win.menu
  /\ dead' = "keyin"
  /\ UNCHANGED <<win, mode, lock, busy, preview, camera, draw, failed, torn>>

(* ENTER_HOLD while the menu exists: guimgr_hook_keyin closes it, whatever
   has the focus. *)
HoldClosesMenu ==
  /\ Idle
  /\ win.menu
  /\ Show(Only(CloseMenu(win)), {})
  /\ UNCHANGED <<mode, lock, busy, preview, camera, draw, dead>>

(* ENTER_HOLD with no menu and no dialog. *)
HoldOpensMenu ==
  /\ Idle
  /\ ~win.menu /\ win.focus = "NONE"
  /\ preview = "STOP"
  /\ Show(ShowMenu(win), {})
  /\ Quiet

(* ENTER_HOLD on a digit of a dialog that outlived its menu. *)
HoldOnSpinbox ==
  /\ Idle
  /\ ~win.menu /\ Focused("SETTING", "SPINBOX")
  /\ Show(Only(Hide(win)), {})
  /\ Quiet

IrArray == IF preview = "STOP" THEN "IRARRAY_START" ELSE "IRARRAY_END"

(* ENTER on the menu: guimgr_call_submenu_dialog. *)
CallDialog ==
  /\ Idle
  /\ win.focus = "MENU" /\ win.menu
  /\ Room
  /\ \E id \in {"SETTING", "FWUPDATE", IrArray} : Show(ShowDialog(win, id), {})
  /\ Quiet

(* LEFT and RIGHT: with CANCEL between the other widgets, every other widget
   is a neighbour on the ring. *)
MoveFocus ==
  /\ Idle
  /\ win.focus = "DIALOG" /\ win.dialogs # <<>>
  /\ \E w \in Widgets(Head(win.dialogs).id) \ {Head(win.dialogs).widget} :
       Show(Only([win EXCEPT !.dialogs[1].widget = w]), {})
  /\ Quiet

(* ENTER on a button that only closes its dialog. *)
Dismiss ==
  /\ Idle
  /\ \/ Focused("SETTING", "BUTTON")
     \/ Focused("LOW_VOLTAGE", "CONFIRM")
     \/ \E id \in {"FWUPDATE", "IRARRAY_START", "IRARRAY_END"} : Focused(id, "CANCEL")
  /\ Show(Only(Hide(win)), {})
  /\ Quiet

(* ENTER on the result of an update: back to the menu. *)
DismissResult ==
  /\ Idle
  /\ Focused("RESULT", "CONFIRM")
  /\ Show(ShowMenu(Hide(win)), {})
  /\ Quiet

(* ENTER, short or long, while the IR image is moved: sysctrl_irarray_end. *)
EndMove ==
  /\ Idle
  /\ Focused("MOVE_IR", "QSEL")
  /\ Room
  /\ Show(ShowDialog(win, IrArray), {})
  /\ Quiet

(* EVCODE_LOW_BATTERY *)
LowBattery ==
  /\ Idle
  /\ Room
  /\ Show(ShowDialog(win, "LOW_VOLTAGE"), {})
  /\ Quiet

-----------------------------------------------------------------------------
(* YES or SAVE_END of IRARRAY: sysctrl_toggle_obmode, then
   guimgr_post_process_button. *)

Toggles == Focused("IRARRAY_START", "YES") \/ Focused("IRARRAY_END", "SAVE_END")

(* Mutant: only IRARRAY is closed. *)
StopCameraKeepsMove ==
  /\ Idle
  /\ Toggles /\ preview = "RUN"
  /\ preview' = "STOP"
  /\ camera' = FALSE
  /\ Show(ShowMenu(Hide(win)), {})
  /\ UNCHANGED <<mode, lock, busy, draw, dead>>

(* The preview runs: stop it and power the camera off; the shutter may fail. *)
StopCamera ==
  /\ Idle
  /\ Toggles /\ preview = "RUN"
  /\ preview' = "STOP"
  /\ camera' = FALSE
  /\ \/ Show(ShowMenu(Hide(Hide(win))), {})
     \/ Show(Only(Hide(win)), {"shutter"})
  /\ UNCHANGED <<mode, lock, busy, draw, dead>>

(* ircam_enable_power(true) of a camera that is off: one that does not boot in
   time is switched off again, and the call succeeds all the same. *)
PowerUp(fault) == ~camera /\ fault \in {{}, {"boot"}} /\ camera' = (fault = {})

(* The power is refused to a camera that is on already, or the shutter does not
   close. *)
StartFails ==
  /\ Idle
  /\ Toggles /\ preview = "STOP"
  /\ \/ camera /\ UNCHANGED camera /\ Show(Only(Hide(win)), {})
     \/ \E fault \in {{}, {"boot"}} :
          PowerUp(fault) /\ Show(Only(Hide(win)), fault \cup {"shutter"})
  /\ UNCHANGED <<mode, lock, busy, preview, draw, dead>>

(* The shutter is closed and the preview runs, over a camera that may not have
   booted; the camera is then set up for seconds. *)
StartCamera ==
  /\ Idle
  /\ Toggles /\ preview = "STOP"
  /\ \E fault \in {{}, {"boot"}} : PowerUp(fault) /\ Show(Only(win), fault)
  /\ preview' = "RUN"
  /\ busy' = "starting"
  /\ UNCHANGED <<mode, lock, draw, dead>>

(* The preview state is read again after the set-up. *)
CameraStarted ==
  /\ Alive /\ busy = "starting"
  /\ busy' = "idle"
  /\ IF preview = "RUN" THEN Show(ShowDialog(CloseMenu(Hide(win)), "MOVE_IR"), {})
     ELSE Show(ShowMenu(Hide(Hide(win))), {})
  /\ UNCHANGED <<mode, lock, preview, camera, draw, dead>>

(* The preview is neither running nor stopped: nothing is done. *)
TogglePaused ==
  /\ Idle
  /\ Toggles /\ preview = "PAUSE"
  /\ Show(Only(Hide(win)), {})
  /\ Quiet

(* The preview thread stops on an error, or overwrites RUN with PAUSE when it
   starts late. *)
PreviewFails ==
  /\ Alive
  /\ preview = "RUN"
  /\ "preview" \in MayFail
  /\ preview' \in {"STOP", "PAUSE"}
  /\ failed' = failed \cup {"preview"}
  /\ UNCHANGED <<win, mode, lock, busy, camera, draw, dead, torn>>

-----------------------------------------------------------------------------
(* YES of FWUPDATE: sysctrl_firmware_update, with the keys locked. *)

(* Mutant: the menu stays open during the update. *)
BeginUpdateOverMenu ==
  /\ Idle
  /\ Focused("FWUPDATE", "YES")
  /\ lock' = TRUE
  /\ Show(Only(Hide(win)), {})
  /\ mode' = "FWUPDATE"
  /\ busy' = "updating"
  /\ UNCHANGED <<preview, camera, draw, dead>>

BeginUpdate ==
  /\ Idle
  /\ Focused("FWUPDATE", "YES")
  /\ lock' = TRUE
  /\ Show(Only(CloseMenu(Hide(win))), {})
  /\ mode' = "FWUPDATE"
  /\ busy' = "updating"
  /\ UNCHANGED <<preview, camera, draw, dead>>

(* Mutant: the keys are unlocked only if the result can be shown. *)
EndUpdateIfShown ==
  /\ Alive /\ busy = "updating"
  /\ mode' = "FACTORY"
  /\ Show(ShowDialog(win, "RESULT"), {})
  /\ busy' = "idle"
  /\ lock' = (failed' # failed)
  /\ UNCHANGED <<preview, camera, draw, dead>>

(* FirmwareUpdate.tla has what happens before this step; any result may come. *)
EndUpdate ==
  /\ Alive /\ busy = "updating"
  /\ mode' = "FACTORY"
  /\ Show(ShowDialog(win, "RESULT"), {})
  /\ busy' = "idle"
  /\ lock' = FALSE
  /\ UNCHANGED <<preview, camera, draw, dead>>

-----------------------------------------------------------------------------
(* The draw thread, in factory mode: draw_menu and draw_submenu test mainMenu
   before they take the window's mutex and use it after. *)

DrawTestsMenu ==
  /\ Alive
  /\ mode = "FACTORY"
  /\ draw = "idle" /\ win.menu
  /\ draw' = "menu"
  /\ UNCHANGED <<win, mode, lock, busy, preview, camera, dead, failed, torn>>

DrawUsesMenu ==
  /\ Alive
  /\ draw = "menu"
  /\ draw' = "idle"
  /\ dead' = IF win.menu THEN "none" ELSE "draw"
  /\ UNCHANGED <<win, mode, lock, busy, preview, camera, failed, torn>>

-----------------------------------------------------------------------------
Key ==
  \/ KeyWithoutMenu \/ HoldClosesMenu \/ HoldOpensMenu \/ HoldOnSpinbox
  \/ CallDialog \/ MoveFocus \/ Dismiss \/ DismissResult \/ EndMove
  \/ StopCamera \/ StartFails \/ StartCamera \/ TogglePaused \/ BeginUpdate

(* The rest of a handler the main thread has begun. *)
MainStep == Boot \/ CameraStarted \/ EndUpdate

DrawStep == DrawTestsMenu \/ DrawUsesMenu

Next == Key \/ LowBattery \/ MainStep \/ PreviewFails \/ DrawStep

(* The main thread is scheduled and its device calls return (every wait in them
   has a timeout, and FirmwareUpdate.tla shows that an update ends).  Nobody
   has to press a key. *)
Fairness == WF_vars(MainStep)

Spec == Init /\ [][Next]_vars /\ Fairness

-----------------------------------------------------------------------------
TypeOK ==
  /\ win \in [focus : {"NONE", "MENU", "DIALOG"}, menu : BOOLEAN, dialogs : Seq(Dialogs)]
  /\ \A i \in 1..Len(win.dialogs) : win.dialogs[i].widget \in Widgets(win.dialogs[i].id)
  /\ mode \in {"FACTORY", "FWUPDATE"}
  /\ lock \in BOOLEAN
  /\ busy \in {"boot", "idle", "starting", "updating"}
  /\ preview \in {"STOP", "PAUSE", "RUN"}
  /\ camera \in BOOLEAN
  /\ draw \in {"idle", "menu"}
  /\ dead \in {"none", "keyin", "draw"}
  /\ failed \subseteq MayFail
  /\ torn \in BOOLEAN

OnStack(id) == \E i \in 1..Len(win.dialogs) : win.dialogs[i].id = id

(* The process dies on a null menu in two ways only: a key after the very first
   menu could not be created, or the menu closed between the draw thread's test
   of mainMenu and its lock (guimgr_show_menu against draw_menu).  Apart from
   them the focus is always backed: by a menu, by a dialog, or, after a failed
   push, by nothing that a key could dereference. *)
CrashCauses ==
  /\ dead = "keyin" => "menu" \in failed
  /\ dead = "draw" => torn
  /\ win.focus = "MENU" => win.menu \/ busy = "boot" \/ "menu" \in failed
  /\ win.focus = "DIALOG" => win.dialogs # <<>> \/ "push" \in failed

NoneFailed(faults) == failed \cap faults = {}

(* The failures after which dialogs and preview may disagree; a menu that is
   missing or a camera that does not boot confuses no dialog. *)
Confusing == {"dialog", "push", "shutter", "preview"}

(* Two-way agreement of the screen and the devices while no dialog, shutter or
   preview failed: the dialog that moves the image is on the stack, once, exactly
   while the preview runs, the button that ends it lies directly on it, and the
   camera has power no longer than that.  It has power as long as that too,
   unless its boot timed out, which ircam_enable_power does not report. *)
AligningIsShown ==
  NoneFailed(Confusing) /\ busy # "starting" =>
    /\ preview # "STOP" <=> OnStack("MOVE_IR")
    /\ camera => preview = "RUN"
    /\ preview = "RUN" => camera \/ "boot" \in failed
    /\ \A i, j \in 1..Len(win.dialogs) :
         win.dialogs[i].id = "MOVE_IR" /\ win.dialogs[j].id = "MOVE_IR" => i = j
    /\ \A i \in 1..Len(win.dialogs) :
         win.dialogs[i].id = "IRARRAY_END" =>
           i < Len(win.dialogs) /\ win.dialogs[i + 1].id = "MOVE_IR"

(* The result of an update is not buried: while it is on the stack there is no
   menu, and only low voltage warnings lie on it. *)
ResultIsSeen ==
  NoneFailed(Confusing) =>
    \A i \in 1..Len(win.dialogs) : win.dialogs[i].id = "RESULT" =>
      /\ ~win.menu /\ win.focus = "DIALOG"
      /\ \A j \in 1..i - 1 : win.dialogs[j].id = "LOW_VOLTAGE"

Phase ==
  IF busy = "updating" THEN "updating"
  ELSE IF OnStack("RESULT") THEN "reporting"
  ELSE IF OnStack("MOVE_IR") THEN "aligning" ELSE "browsing"

(* While nothing fails the GUI is the session of GuiSession.tla. *)
Session == INSTANCE GuiSession WITH phase <- Phase
SessionSpec == Session!Spec

(* The keys come back after every update, even one whose result cannot be
   shown, and after the boot. *)
KeysComeBack == lock ~> ~lock \/ dead # "none"
=============================================================================
