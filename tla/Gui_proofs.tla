------------------------------ MODULE Gui_proofs ------------------------------
(***************************************************************************)
(* Theorems about Gui for every depth of the dialog stack and any set of   *)
(* possible failures: the types of its state, the causes of a crash, the   *)
(* agreement of the screen and the devices, and the session it implements; *)
(* and about Menus: when a key of the menu finds nothing to act on.        *)
(***************************************************************************)
EXTENDS Gui, Menus, TLAPS

-----------------------------------------------------------------------------
(* The stack of dialogs. *)

Fits == {d \in Dialogs : d.widget \in Widgets(d.id)}

LEMMA DialogFits == ASSUME NEW id \in Ids PROVE Dialog(id) \in Fits /\ Dialog(id).id = id
BY DEF Fits, Dialog, Dialogs, Ids, Widgets, FirstFocus

LEMMA Pushed ==
  ASSUME NEW s \in Seq(Fits), NEW d \in Fits, NEW t, t = <<d>> \o s
  PROVE  /\ t \in Seq(Fits) /\ t # <<>> /\ t[1] = d
         /\ Len(t) = Len(s) + 1 /\ Len(s) \in Nat
         /\ \A i \in 2..Len(t) : t[i] = s[i - 1]
         /\ \A i \in 1..Len(s) : t[i + 1] = s[i]
<1>1. t \in Seq(Fits) /\ Len(t) = Len(s) + 1 /\ Len(s) \in Nat
  OBVIOUS
<1>2. t[1] = d /\ \A i \in 2..Len(t) : t[i] = s[i - 1]
  BY <1>1
<1>3. \A i \in 1..Len(s) : t[i + 1] = s[i]
  BY <1>1, <1>2
<1>4. QED BY <1>1, <1>2, <1>3

LEMMA Popped ==
  ASSUME NEW s \in Seq(Fits), s # <<>>, NEW t, t = Tail(s)
  PROVE  /\ t \in Seq(Fits) /\ Len(s) \in Nat \ {0} /\ Len(t) = Len(s) - 1
         /\ Head(s) = s[1] /\ s[1] \in Fits
         /\ Len(t) # 0 => t # <<>>
         /\ \A i \in 1..Len(t) : t[i] = s[i + 1]
         /\ \A i \in 2..Len(s) : t[i - 1] = s[i]
<1>1. t \in Seq(Fits) /\ Len(s) \in Nat \ {0} /\ Len(t) = Len(s) - 1 /\ Head(s) = s[1] /\ s[1] \in Fits
  OBVIOUS
<1>2. \A i \in 1..Len(t) : t[i] = s[i + 1]
  BY <1>1
<1>3. \A i \in 2..Len(s) : t[i - 1] = s[i]
  BY <1>1, <1>2
<1>4. Len(t) # 0 => t # <<>>
  OBVIOUS
<1>5. QED BY <1>1, <1>2, <1>3, <1>4

-----------------------------------------------------------------------------
(* The operations on the window, field by field. *)

Windows == [focus : {"NONE", "MENU", "DIALOG"}, menu : BOOLEAN, dialogs : Seq(Fits)]

LEMMA Hidden ==
  ASSUME NEW w \in Windows, w.dialogs # <<>>
  PROVE  /\ Hide(w) \in Windows
         /\ Hide(w).dialogs = Tail(w.dialogs) /\ Hide(w).menu = w.menu
         /\ Hide(w).focus = IF Tail(w.dialogs) # <<>> THEN "DIALOG"
                            ELSE IF w.menu THEN "MENU" ELSE "NONE"
<1>1. Tail(w.dialogs) \in Seq(Fits)
  BY DEF Windows
<1>2. Hide(w) = [w EXCEPT !.dialogs = Tail(@),
                          !.focus = IF Tail(w.dialogs) # <<>> THEN "DIALOG"
                                    ELSE IF w.menu THEN "MENU" ELSE "NONE"]
  BY DEF Hide
<1>3. QED BY <1>1, <1>2 DEF Windows

LEMMA HiddenAny == ASSUME NEW w \in Windows PROVE Hide(w) \in Windows /\ Hide(w).menu = w.menu
<1>1. CASE w.dialogs = <<>>
  BY <1>1 DEF Hide
<1>2. CASE w.dialogs # <<>>
  BY <1>2, Hidden
<1>3. QED BY <1>1, <1>2

LEMMA Opened ==
  ASSUME NEW w \in Windows
  PROVE  /\ OpenMenu(w) \in Windows /\ OpenMenu(w).menu /\ OpenMenu(w).dialogs = w.dialogs
         /\ OpenMenu(w).focus = IF w.menu THEN w.focus ELSE "MENU"
<1>1. CASE w.menu
  BY <1>1 DEF OpenMenu, Windows
<1>2. CASE ~w.menu
  <2>1. OpenMenu(w) = [w EXCEPT !.menu = TRUE, !.focus = "MENU"]
    BY <1>2 DEF OpenMenu
  <2>2. QED BY <1>2, <2>1 DEF Windows
<1>3. QED BY <1>1, <1>2

LEMMA Closed ==
  ASSUME NEW w \in Windows
  PROVE  /\ CloseMenu(w) \in Windows /\ ~CloseMenu(w).menu /\ CloseMenu(w).dialogs = w.dialogs
         /\ CloseMenu(w).focus = IF w.menu THEN "NONE" ELSE w.focus
<1>1. CASE ~w.menu
  BY <1>1 DEF CloseMenu, Windows
<1>2. CASE w.menu
  <2>1. CloseMenu(w) = [w EXCEPT !.menu = FALSE, !.focus = "NONE"]
    BY <1>2 DEF CloseMenu
  <2>2. QED BY <1>2, <2>1 DEF Windows
<1>3. QED BY <1>1, <1>2

LEMMA Shown ==
  ASSUME NEW w \in Windows, NEW id \in Ids, NEW o \in ShowDialog(w, id)
  PROVE  /\ o.win \in Windows /\ o.win.menu = w.menu
         /\ \/ o.fault = {} /\ o.win.focus = "DIALOG" /\ o.win.dialogs = <<Dialog(id)>> \o w.dialogs
            \/ o.fault = {"dialog"} /\ o.win = w
            \/ o.fault = {"push"} /\ o.win.focus = "DIALOG" /\ o.win.dialogs = w.dialogs
<1>1. w.dialogs \in Seq(Fits) /\ <<Dialog(id)>> \o w.dialogs \in Seq(Fits)
  BY DialogFits, Pushed DEF Windows
<1>2. CASE o = Outcome([w EXCEPT !.dialogs = <<Dialog(id)>> \o @, !.focus = "DIALOG"], {})
  BY <1>1, <1>2 DEF Outcome, Windows
<1>3. CASE o = Outcome(w, {"dialog"})
  BY <1>3 DEF Outcome
<1>4. CASE o = Outcome([w EXCEPT !.focus = "DIALOG"], {"push"})
  BY <1>1, <1>4 DEF Outcome, Windows
<1>5. QED BY <1>2, <1>3, <1>4 DEF ShowDialog

LEMMA MenuShown ==
  ASSUME NEW w \in Windows, NEW o \in ShowMenu(w)
  PROVE  /\ o.win \in Windows /\ o.win.dialogs = w.dialogs
         /\ \/ o.fault = {} /\ o.win = OpenMenu(w)
            \/ o.fault = {"menu"} /\ o.win = w /\ ~w.menu
<1>1. CASE o = Outcome(OpenMenu(w), {})
  BY <1>1, Opened DEF Outcome
<1>2. CASE o = Outcome(w, {"menu"}) /\ ~w.menu
  BY <1>2 DEF Outcome
<1>3. QED BY <1>1, <1>2 DEF ShowMenu

(* MoveFocus changes one widget. *)
LEMMA MovedFocus ==
  ASSUME NEW w \in Windows, w.dialogs # <<>>, NEW x \in Widgets(Head(w.dialogs).id),
         NEW v, v = [w EXCEPT !.dialogs[1].widget = x]
  PROVE  /\ v \in Windows /\ v.focus = w.focus /\ v.menu = w.menu
         /\ v.dialogs # <<>> /\ Len(v.dialogs) = Len(w.dialogs)
         /\ \A i \in 1..Len(w.dialogs) : v.dialogs[i].id = w.dialogs[i].id
<1> DEFINE s == w.dialogs
<1>1. s \in Seq(Fits) /\ Len(s) \in Nat \ {0} /\ Head(s) = s[1] /\ s[1] \in Fits
  BY DEF Windows
<1>2. PICK d : d = [s[1] EXCEPT !.widget = x]
  OBVIOUS
<1>3. d \in Fits /\ d.id = s[1].id
  <2>1. s[1].id \in Ids
    BY <1>1 DEF Fits, Dialogs
  <2>2. x \in {"BUTTON", "SPINBOX", "YES", "SAVE_END", "CANCEL", "QSEL", "CONFIRM"}
    BY <1>1, <2>1 DEF Widgets, Ids
  <2>3. QED BY <1>1, <1>2, <2>2 DEF Fits, Dialogs
<1>4. PICK t : t = [s EXCEPT ![1] = d]
  OBVIOUS
<1>5. v = [w EXCEPT !.dialogs = t]
  BY <1>2, <1>4
<1>6. t \in Seq(Fits) /\ Len(t) = Len(s) /\ t[1] = d /\ \A i \in 2..Len(s) : t[i] = s[i]
  BY <1>1, <1>3, <1>4
<1>7. t # <<>> /\ \A i \in 1..Len(s) : t[i].id = s[i].id
  BY <1>1, <1>3, <1>6
<1>8. v \in Windows /\ v.focus = w.focus /\ v.menu = w.menu /\ v.dialogs = t
  BY <1>5, <1>6 DEF Windows
<1>9. QED BY <1>6, <1>7, <1>8

-----------------------------------------------------------------------------
(* The types.  Every window a handler can leave is one of Windows. *)

TypeInv ==
  /\ win \in Windows
  /\ mode \in {"FACTORY", "FWUPDATE"}
  /\ lock \in BOOLEAN
  /\ busy \in {"boot", "idle", "starting", "updating"}
  /\ preview \in {"STOP", "PAUSE", "RUN"}
  /\ camera \in BOOLEAN
  /\ draw \in {"idle", "menu"}
  /\ dead \in {"none", "keyin", "draw"}
  /\ failed \subseteq MayFail
  /\ torn \in BOOLEAN

LEMMA Types == TypeInv => TypeOK
<1> SUFFICES ASSUME TypeInv PROVE TypeOK
  OBVIOUS
<1>1. Fits \subseteq Dialogs /\ \A d \in Fits : d.widget \in Widgets(d.id)
  BY DEF Fits
<1>2. win.focus \in {"NONE", "MENU", "DIALOG"} /\ win.menu \in BOOLEAN /\ win.dialogs \in Seq(Fits)
  BY DEF TypeInv, Windows
<1>3. win.dialogs \in Seq(Dialogs) /\ \A i \in 1..Len(win.dialogs) : win.dialogs[i] \in Fits
  BY <1>1, <1>2
<1>4. win = [focus |-> win.focus, menu |-> win.menu, dialogs |-> win.dialogs]
  BY DEF TypeInv, Windows
<1>5. win \in [focus : {"NONE", "MENU", "DIALOG"}, menu : BOOLEAN, dialogs : Seq(Dialogs)]
  BY <1>2, <1>3, <1>4
<1>6. QED BY <1>1, <1>3, <1>5 DEF TypeInv, TypeOK

LEMMA ShowTypes ==
  ASSUME TypeInv, NEW outcomes, NEW more, Show(outcomes, more),
         \A o \in outcomes : o.win \in Windows
  PROVE  win' \in Windows /\ failed' \subseteq MayFail /\ torn' \in BOOLEAN
<1>1. PICK o \in outcomes :
        /\ o.fault \cup more \subseteq MayFail
        /\ win' = o.win
        /\ failed' = failed \cup o.fault \cup more
        /\ torn' = (torn \/ (draw = "menu" /\ win.menu /\ ~o.win.menu))
  BY DEF Show
<1>2. win' \in Windows /\ torn' \in BOOLEAN
  BY <1>1
<1>3. failed' \subseteq MayFail
  BY <1>1 DEF TypeInv
<1>4. QED BY <1>2, <1>3

LEMMA OnlyWindow == ASSUME NEW w, NEW o \in Only(w) PROVE o = Outcome(w, {}) /\ o.win = w /\ o.fault = {}
BY DEF Only, Outcome

(* The steps, those that are Quiet together. *)
LEMMA Steps ==
  [Next]_vars =>
    \/ Boot \/ KeyWithoutMenu \/ HoldClosesMenu \/ StopCamera \/ StartFails \/ StartCamera
    \/ CameraStarted \/ BeginUpdate \/ EndUpdate \/ PreviewFails \/ DrawStep
    \/ Quiet /\ (HoldOpensMenu \/ HoldOnSpinbox \/ CallDialog \/ MoveFocus \/ Dismiss
                 \/ DismissResult \/ EndMove \/ LowBattery \/ TogglePaused)
    \/ UNCHANGED vars
BY DEF Next, Key, MainStep, HoldOpensMenu, HoldOnSpinbox, CallDialog, MoveFocus, Dismiss,
       DismissResult, EndMove, LowBattery, TogglePaused

LEMMA TypeInvStep == ASSUME TypeInv, [Next]_vars PROVE TypeInv'
<1>1. win \in Windows /\ Hide(win) \in Windows /\ Hide(Hide(win)) \in Windows
      /\ CloseMenu(win) \in Windows /\ CloseMenu(Hide(win)) \in Windows
  BY HiddenAny, Closed DEF TypeInv
<1>2. \A id \in Ids : \A w \in Windows : \A o \in ShowDialog(w, id) : o.win \in Windows
  BY Shown
<1>3. \A w \in Windows : \A o \in ShowMenu(w) : o.win \in Windows
  BY MenuShown
<1>4. \A w \in Windows : \A o \in Only(w) : o.win \in Windows
  BY OnlyWindow
<1>5. /\ {"SETTING", "FWUPDATE", IrArray, "MOVE_IR", "LOW_VOLTAGE", "RESULT"} \subseteq Ids
  BY DEF Ids, IrArray
<1>6. CASE Boot
  <2>1. win' \in Windows /\ failed' \subseteq MayFail /\ torn' \in BOOLEAN
    BY <1>1, <1>3, <1>6, ShowTypes DEF Boot
  <2>2. QED BY <1>6, <2>1 DEF Boot, TypeInv
<1>7. CASE KeyWithoutMenu
  BY <1>7 DEF KeyWithoutMenu, TypeInv
<1>8. CASE HoldClosesMenu
  <2>1. win' \in Windows /\ failed' \subseteq MayFail /\ torn' \in BOOLEAN
    BY <1>1, <1>4, <1>8, ShowTypes DEF HoldClosesMenu
  <2>2. QED BY <1>8, <2>1 DEF HoldClosesMenu, TypeInv
<1>9. CASE Quiet /\ (HoldOpensMenu \/ HoldOnSpinbox \/ CallDialog \/ MoveFocus \/ Dismiss
                     \/ DismissResult \/ EndMove \/ LowBattery \/ TogglePaused)
  <2> DEFINE Typed == win' \in Windows /\ failed' \subseteq MayFail /\ torn' \in BOOLEAN
  <2>1. HoldOpensMenu => Typed
    BY <1>1, <1>3, ShowTypes DEF HoldOpensMenu
  <2>2. HoldOnSpinbox \/ Dismiss \/ TogglePaused => Typed
    BY <1>1, <1>4, ShowTypes DEF HoldOnSpinbox, Dismiss, TogglePaused
  <2>3. CallDialog => Typed
    BY <1>1, <1>2, <1>5, ShowTypes DEF CallDialog
  <2>4. MoveFocus => Typed
    <3> SUFFICES ASSUME MoveFocus PROVE Typed
      OBVIOUS
    <3>1. PICK w \in Widgets(Head(win.dialogs).id) :
            Show(Only([win EXCEPT !.dialogs[1].widget = w]), {})
      BY DEF MoveFocus
    <3>2. [win EXCEPT !.dialogs[1].widget = w] \in Windows
      BY <1>1, MovedFocus DEF MoveFocus
    <3>3. QED BY <1>4, <3>1, <3>2, ShowTypes
  <2>5. DismissResult => Typed
    BY <1>1, <1>3, ShowTypes DEF DismissResult
  <2>6. EndMove => Typed
    BY <1>1, <1>2, <1>5, ShowTypes DEF EndMove
  <2>7. LowBattery => Typed
    BY <1>1, <1>2, <1>5, ShowTypes DEF LowBattery
  <2>8. win' \in Windows /\ failed' \subseteq MayFail /\ torn' \in BOOLEAN
    BY <1>9, <2>1, <2>2, <2>3, <2>4, <2>5, <2>6, <2>7
  <2>9. QED BY <1>9, <2>8 DEF Quiet, TypeInv
<1>10. CASE StopCamera
  <2>1. win' \in Windows /\ failed' \subseteq MayFail /\ torn' \in BOOLEAN
    BY <1>1, <1>3, <1>4, <1>10, ShowTypes DEF StopCamera
  <2>2. QED BY <1>10, <2>1 DEF StopCamera, TypeInv
<1>11. CASE StartFails
  <2>1. win' \in Windows /\ failed' \subseteq MayFail /\ torn' \in BOOLEAN
    <3>1. PICK more : Show(Only(Hide(win)), more)
      BY <1>11 DEF StartFails
    <3>2. QED BY <1>1, <1>4, <3>1, ShowTypes
  <2>2. camera' \in BOOLEAN
    BY <1>11 DEF StartFails, PowerUp, TypeInv
  <2>3. QED BY <1>11, <2>1, <2>2 DEF StartFails, TypeInv
<1>12. CASE StartCamera
  <2>1. PICK fault \in {{}, {"boot"}} : PowerUp(fault) /\ Show(Only(win), fault)
    BY <1>12 DEF StartCamera
  <2>2. win' \in Windows /\ failed' \subseteq MayFail /\ torn' \in BOOLEAN
    BY <1>1, <1>4, <2>1, ShowTypes
  <2>3. camera' \in BOOLEAN
    BY <2>1 DEF PowerUp
  <2>4. QED BY <1>12, <2>2, <2>3 DEF StartCamera, TypeInv
<1>13. CASE CameraStarted
  <2>1. win' \in Windows /\ failed' \subseteq MayFail /\ torn' \in BOOLEAN
    BY <1>1, <1>2, <1>3, <1>5, <1>13, ShowTypes DEF CameraStarted
  <2>2. QED BY <1>13, <2>1 DEF CameraStarted, TypeInv
<1>14. CASE BeginUpdate
  <2>1. win' \in Windows /\ failed' \subseteq MayFail /\ torn' \in BOOLEAN
    BY <1>1, <1>4, <1>14, ShowTypes DEF BeginUpdate
  <2>2. QED BY <1>14, <2>1 DEF BeginUpdate, TypeInv
<1>15. CASE EndUpdate
  <2>1. win' \in Windows /\ failed' \subseteq MayFail /\ torn' \in BOOLEAN
    BY <1>1, <1>2, <1>5, <1>15, ShowTypes DEF EndUpdate
  <2>2. QED BY <1>15, <2>1 DEF EndUpdate, TypeInv
<1>16. CASE PreviewFails
  BY <1>16 DEF PreviewFails, TypeInv
<1>17. CASE DrawStep
  BY <1>17 DEF DrawStep, DrawTestsMenu, DrawUsesMenu, TypeInv
<1>18. CASE UNCHANGED vars
  BY <1>18 DEF vars, TypeInv
<1>19. QED BY <1>6, <1>7, <1>8, <1>9, <1>10, <1>11, <1>12, <1>13, <1>14, <1>15, <1>16, <1>17, <1>18, Steps

LEMMA TypeInvInit == Init => TypeInv
<1>1. <<>> \in Seq(Fits)
  OBVIOUS
<1>2. Init => win \in Windows
  BY <1>1 DEF Init, Windows
<1>3. QED BY <1>2 DEF Init, TypeInv

LEMMA TypeInvHolds == Spec => []TypeInv
BY TypeInvInit, TypeInvStep, PTL DEF Spec

(* The variables keep their types, and every dialog has the focus on one of its
   own widgets. *)
THEOREM Typing == Spec => []TypeOK
BY TypeInvHolds, Types, PTL
-----------------------------------------------------------------------------
(* Crashes.  The focus is on the menu only while there is one, but for the boot
   and the failure to create it: the draw thread and the keys meet no other
   null menu. *)

FocusBacked(w, faults) ==
  /\ w.focus = "MENU" => w.menu \/ "menu" \in faults
  /\ w.focus = "DIALOG" => w.dialogs # <<>> \/ "push" \in faults

CrashInv ==
  /\ dead = "keyin" => "menu" \in failed
  /\ dead = "draw" => torn
  /\ draw = "menu" => win.menu \/ torn
  /\ busy = "boot" => win.focus = "MENU" /\ ~win.menu /\ win.dialogs = <<>>
  /\ busy # "boot" => FocusBacked(win, failed)

LEMMA CrashInvImplies == CrashInv => CrashCauses
BY DEF CrashInv, CrashCauses, FocusBacked

LEMMA MoreFaults ==
  ASSUME NEW w, NEW f, NEW g, f \subseteq g, FocusBacked(w, f) PROVE FocusBacked(w, g)
BY DEF FocusBacked

LEMMA HideBacked == ASSUME NEW w \in Windows, NEW f, FocusBacked(w, f) PROVE FocusBacked(Hide(w), f)
<1>1. CASE w.dialogs = <<>>
  BY <1>1 DEF Hide
<1>2. CASE w.dialogs # <<>>
  BY <1>2, Hidden DEF FocusBacked
<1>3. QED BY <1>1, <1>2

LEMMA CloseBacked ==
  ASSUME NEW w \in Windows, NEW f, FocusBacked(w, f) PROVE FocusBacked(CloseMenu(w), f)
<1>1. CASE w.menu
  BY <1>1, Closed DEF FocusBacked
<1>2. CASE ~w.menu
  BY <1>2 DEF CloseMenu
<1>3. QED BY <1>1, <1>2

LEMMA MenuBacked ==
  ASSUME NEW w \in Windows, NEW f, FocusBacked(w, f), NEW o \in ShowMenu(w)
  PROVE  FocusBacked(o.win, f \cup o.fault)
<1>1. CASE o.win = OpenMenu(w)
  BY <1>1, Opened DEF FocusBacked
<1>2. CASE o.win = w
  BY <1>2, MoreFaults
<1>3. QED BY <1>1, <1>2, MenuShown

LEMMA DialogBacked ==
  ASSUME NEW w \in Windows, NEW f, FocusBacked(w, f), NEW id \in Ids, NEW o \in ShowDialog(w, id)
  PROVE  FocusBacked(o.win, f \cup o.fault)
<1>1. CASE o.win.focus = "DIALOG" /\ o.win.dialogs = <<Dialog(id)>> \o w.dialogs
  <2>1. o.win.dialogs # <<>>
    BY <1>1, DialogFits, Pushed DEF Windows
  <2>2. QED BY <1>1, <2>1 DEF FocusBacked
<1>2. CASE o.win = w
  BY <1>2 DEF FocusBacked
<1>3. CASE o.fault = {"push"} /\ o.win.focus = "DIALOG"
  BY <1>3 DEF FocusBacked
<1>4. QED BY <1>1, <1>2, <1>3, Shown

LEMMA ShowBacked ==
  ASSUME NEW outcomes, NEW more, Show(outcomes, more), draw = "menu" => win.menu \/ torn,
         \A o \in outcomes : FocusBacked(o.win, failed \cup o.fault)
  PROVE  /\ FocusBacked(win', failed') /\ failed \subseteq failed'
         /\ draw = "menu" => win'.menu \/ torn'
         /\ torn => torn'
<1>1. PICK o \in outcomes :
        /\ win' = o.win
        /\ failed' = failed \cup o.fault \cup more
        /\ torn' = (torn \/ (draw = "menu" /\ win.menu /\ ~o.win.menu))
  BY DEF Show
<1>2. FocusBacked(o.win, failed \cup o.fault)
  BY <1>1
<1>3. FocusBacked(win', failed') /\ failed \subseteq failed'
  BY <1>1, <1>2 DEF FocusBacked
<1>4. QED BY <1>1, <1>3

LEMMA OnlyBacked ==
  ASSUME NEW w, NEW f, FocusBacked(w, f), NEW o \in Only(w) PROVE FocusBacked(o.win, f \cup o.fault)
BY OnlyWindow, MoreFaults

LEMMA CrashInvStep == ASSUME TypeInv, CrashInv, [Next]_vars PROVE CrashInv'
<1> DEFINE After == /\ FocusBacked(win', failed') /\ failed \subseteq failed'
                    /\ draw = "menu" => win'.menu \/ torn'
                    /\ torn => torn'
<1>1. win \in Windows /\ Hide(win) \in Windows /\ Hide(Hide(win)) \in Windows
      /\ CloseMenu(win) \in Windows /\ CloseMenu(Hide(win)) \in Windows
  BY HiddenAny, Closed DEF TypeInv
<1>2. draw = "menu" => win.menu \/ torn
  BY DEF CrashInv
<1>3. /\ {"SETTING", "FWUPDATE", IrArray, "MOVE_IR", "LOW_VOLTAGE", "RESULT"} \subseteq Ids
  BY DEF Ids, IrArray
<1>4. busy # "boot" =>
        /\ FocusBacked(win, failed) /\ FocusBacked(Hide(win), failed)
        /\ FocusBacked(Hide(Hide(win)), failed)
        /\ FocusBacked(CloseMenu(win), failed) /\ FocusBacked(CloseMenu(Hide(win)), failed)
  BY <1>1, HideBacked, CloseBacked DEF CrashInv
<1>5. \A w \in Windows : FocusBacked(w, failed) =>
        /\ \A o \in Only(w) : FocusBacked(o.win, failed \cup o.fault)
        /\ \A o \in ShowMenu(w) : FocusBacked(o.win, failed \cup o.fault)
        /\ \A id \in Ids : \A o \in ShowDialog(w, id) : FocusBacked(o.win, failed \cup o.fault)
  BY OnlyBacked, MenuBacked, DialogBacked
<1>6. CASE Boot
  <2>1. \A o \in ShowMenu(win) : FocusBacked(o.win, failed \cup o.fault)
    <3> SUFFICES ASSUME NEW o \in ShowMenu(win) PROVE FocusBacked(o.win, failed \cup o.fault)
      OBVIOUS
    <3>1. win.focus = "MENU" /\ ~win.menu
      BY <1>6 DEF Boot, CrashInv
    <3>2. CASE o.win = OpenMenu(win)
      BY <1>1, <3>1, <3>2, Opened DEF FocusBacked
    <3>3. CASE o.fault = {"menu"} /\ o.win = win
      BY <3>1, <3>3 DEF FocusBacked
    <3>4. QED BY <1>1, <3>2, <3>3, MenuShown
  <2>2. After
    BY <1>2, <1>6, <2>1, ShowBacked DEF Boot
  <2>3. QED BY <1>6, <2>2 DEF Boot, CrashInv
<1>7. CASE KeyWithoutMenu
  BY <1>4, <1>7 DEF KeyWithoutMenu, Idle, Alive, CrashInv, FocusBacked
<1>8. CASE HoldClosesMenu
  <2>1. After
    BY <1>1, <1>2, <1>4, <1>5, <1>8, ShowBacked DEF HoldClosesMenu, Idle
  <2>2. QED BY <1>8, <2>1 DEF HoldClosesMenu, Idle, CrashInv
<1>9. CASE Quiet /\ (HoldOpensMenu \/ HoldOnSpinbox \/ CallDialog \/ MoveFocus \/ Dismiss
                     \/ DismissResult \/ EndMove \/ LowBattery \/ TogglePaused)
  <2>1. HoldOpensMenu => After
    BY <1>1, <1>2, <1>4, <1>5, ShowBacked DEF HoldOpensMenu, Idle
  <2>2. HoldOnSpinbox \/ Dismiss \/ TogglePaused => After
    BY <1>1, <1>2, <1>4, <1>5, ShowBacked DEF HoldOnSpinbox, Dismiss, TogglePaused, Idle
  <2>3. CallDialog => After
    BY <1>1, <1>2, <1>3, <1>4, <1>5, ShowBacked DEF CallDialog, Idle
  <2>4. MoveFocus => After
    <3> SUFFICES ASSUME MoveFocus PROVE After
      OBVIOUS
    <3>1. PICK w \in Widgets(Head(win.dialogs).id) :
            Show(Only([win EXCEPT !.dialogs[1].widget = w]), {})
      BY DEF MoveFocus
    <3> DEFINE v == [win EXCEPT !.dialogs[1].widget = w]
    <3>2. v.focus = win.focus /\ v.menu = win.menu /\ v.dialogs # <<>>
      BY <1>1, MovedFocus DEF MoveFocus
    <3>3. FocusBacked(v, failed)
      BY <1>4, <3>2 DEF MoveFocus, Idle, FocusBacked
    <3>4. \A o \in Only(v) : FocusBacked(o.win, failed \cup o.fault)
      BY <3>3, OnlyBacked
    <3>5. QED BY <1>2, <3>1, <3>4, ShowBacked
  <2>5. DismissResult => After
    BY <1>1, <1>2, <1>4, <1>5, ShowBacked DEF DismissResult, Idle
  <2>6. EndMove => After
    BY <1>1, <1>2, <1>3, <1>4, <1>5, ShowBacked DEF EndMove, Idle
  <2>7. LowBattery => After
    BY <1>1, <1>2, <1>3, <1>4, <1>5, ShowBacked DEF LowBattery, Idle
  <2>8. After
    BY <1>9, <2>1, <2>2, <2>3, <2>4, <2>5, <2>6, <2>7
  <2>9. busy = "idle" /\ busy' = "idle" /\ draw' = draw /\ dead' = dead
    BY <1>9 DEF Quiet, HoldOpensMenu, HoldOnSpinbox, CallDialog, MoveFocus, Dismiss,
                DismissResult, EndMove, LowBattery, TogglePaused, Idle
  <2>10. QED BY <2>8, <2>9 DEF CrashInv
<1>10. CASE StopCamera
  <2>1. After
    BY <1>1, <1>2, <1>4, <1>5, <1>10, ShowBacked DEF StopCamera, Idle
  <2>2. QED BY <1>10, <2>1 DEF StopCamera, Idle, CrashInv
<1>11. CASE StartFails
  <2>1. After
    <3>1. PICK more : Show(Only(Hide(win)), more)
      BY <1>11 DEF StartFails
    <3>2. QED BY <1>1, <1>2, <1>4, <1>5, <1>11, <3>1, ShowBacked DEF StartFails, Idle
  <2>2. QED BY <1>11, <2>1 DEF StartFails, Idle, CrashInv
<1>12. CASE StartCamera
  <2>1. After
    <3>1. PICK more : Show(Only(win), more)
      BY <1>12 DEF StartCamera
    <3>2. QED BY <1>1, <1>2, <1>4, <1>5, <1>12, <3>1, ShowBacked DEF StartCamera, Idle
  <2>2. QED BY <1>12, <2>1 DEF StartCamera, Idle, CrashInv
<1>13. CASE CameraStarted
  <2>1. After
    BY <1>1, <1>2, <1>3, <1>4, <1>5, <1>13, ShowBacked DEF CameraStarted
  <2>2. QED BY <1>13, <2>1 DEF CameraStarted, CrashInv
<1>14. CASE BeginUpdate
  <2>1. After
    BY <1>1, <1>2, <1>4, <1>5, <1>14, ShowBacked DEF BeginUpdate, Idle
  <2>2. QED BY <1>14, <2>1 DEF BeginUpdate, Idle, CrashInv
<1>15. CASE EndUpdate
  <2>1. After
    BY <1>1, <1>2, <1>3, <1>4, <1>5, <1>15, ShowBacked DEF EndUpdate
  <2>2. QED BY <1>15, <2>1 DEF EndUpdate, CrashInv
<1>16. CASE PreviewFails
  <2>1. busy # "boot" => FocusBacked(win, failed')
    BY <1>4, <1>16, MoreFaults DEF PreviewFails
  <2>2. QED BY <1>16, <2>1 DEF PreviewFails, CrashInv, FocusBacked
<1>17. CASE DrawStep
  BY <1>17 DEF DrawStep, DrawTestsMenu, DrawUsesMenu, CrashInv, FocusBacked, Alive
<1>18. CASE UNCHANGED vars
  BY <1>18 DEF vars, CrashInv, FocusBacked
<1>19. QED BY <1>6, <1>7, <1>8, <1>9, <1>10, <1>11, <1>12, <1>13, <1>14, <1>15, <1>16, <1>17, <1>18, Steps

LEMMA CrashInvHolds == Spec => []CrashInv
<1>1. Init => CrashInv
  BY DEF Init, CrashInv
<1>2. QED BY <1>1, TypeInvHolds, CrashInvStep, PTL DEF Spec

(* The process meets a null menu only after the first menu could not be created
   or when the menu is closed between the draw thread's test and its lock. *)
THEOREM Crashes == Spec => []CrashCauses
BY CrashInvHolds, CrashInvImplies, PTL
-----------------------------------------------------------------------------
(* Aligning the image, and the result of an update.  While nothing confusing
   fails the stack has one of two shapes: at rest, without the dialogs of an
   alignment and with a result, if any, under warnings only; or aligning, with
   the dialog that moves the image under warnings and the button that ends it,
   whatever other dialogs outlived a menu below it.  The button can be pressed
   only in the second shape and the menu is there only in the first: that is
   what makes AligningIsShown and ResultIsSeen inductive. *)

Absent(ids, s) == \A i \in 1..Len(s) : s[i].id \notin ids

Resting(w) ==
  /\ Absent({"MOVE_IR", "IRARRAY_END"}, w.dialogs)
  /\ \A i \in 1..Len(w.dialogs) : w.dialogs[i].id = "RESULT" =>
       /\ ~w.menu /\ w.focus = "DIALOG"
       /\ \A j \in 1..Len(w.dialogs) : j < i => w.dialogs[j].id = "LOW_VOLTAGE"

MovedAt(s, k) ==
  /\ s[k].id = "MOVE_IR"
  /\ \A i \in 1..Len(s) : i > k => s[i].id \notin {"MOVE_IR", "IRARRAY_END", "RESULT"}
  /\ \A i \in 1..Len(s) : i < k => \/ s[i].id = "LOW_VOLTAGE"
                                   \/ i = k - 1 /\ s[i].id = "IRARRAY_END"

Aligning(w) ==
  ~w.menu /\ w.focus = "DIALOG" /\ \E k \in 1..Len(w.dialogs) : MovedAt(w.dialogs, k)

ScreenInv ==
  /\ preview # "PAUSE"
  /\ preview = "STOP" => Resting(win) /\ busy # "starting"
  /\ preview = "RUN" /\ busy = "starting" =>
       Absent({"MOVE_IR", "IRARRAY_END", "RESULT"}, win.dialogs) /\ HasTop("IRARRAY_START")
  /\ preview = "RUN" /\ busy # "starting" => Aligning(win) /\ busy = "idle"
  /\ busy = "updating" => ~win.menu /\ Absent({"RESULT"}, win.dialogs)
  /\ busy = "boot" => win.dialogs = <<>>

(* The camera is powered with the preview, unless it did not boot in time. *)
PowerInv ==
  /\ camera => preview = "RUN"
  /\ preview = "RUN" => camera \/ "boot" \in failed

ClearInv == NoneFailed(Confusing) => ScreenInv /\ PowerInv

LEMMA ScreenInvAligns == ASSUME TypeInv, ClearInv PROVE AligningIsShown
<1> SUFFICES ASSUME NoneFailed(Confusing), busy # "starting" PROVE AligningIsShown
  BY DEF AligningIsShown
<1>1. ScreenInv /\ PowerInv
  BY DEF ClearInv
<1>2. win.dialogs \in Seq(Fits) /\ Len(win.dialogs) \in Nat
  BY DEF TypeInv, Windows
<1>3. CASE preview = "STOP"
  BY <1>1, <1>3 DEF ScreenInv, PowerInv, Resting, Absent, AligningIsShown, OnStack
<1>4. CASE preview = "RUN"
  <2>1. PICK k \in 1..Len(win.dialogs) : MovedAt(win.dialogs, k)
    BY <1>1, <1>4 DEF ScreenInv, Aligning
  <2>2. \A i \in 1..Len(win.dialogs) : win.dialogs[i].id = "MOVE_IR" => i = k
    BY <1>2, <2>1 DEF MovedAt
  <2>3. \A i \in 1..Len(win.dialogs) : win.dialogs[i].id = "IRARRAY_END" => i + 1 = k
    BY <1>2, <2>1 DEF MovedAt
  <2>4. OnStack("MOVE_IR") /\ win.dialogs[k].id = "MOVE_IR"
    BY <2>1 DEF OnStack, MovedAt
  <2>5. \A i \in 1..Len(win.dialogs) : win.dialogs[i].id = "IRARRAY_END" =>
          i < Len(win.dialogs) /\ win.dialogs[i + 1].id = "MOVE_IR"
    BY <1>2, <2>3, <2>4
  <2>6. QED BY <1>1, <1>4, <2>2, <2>4, <2>5 DEF ScreenInv, PowerInv, AligningIsShown
<1>5. QED BY <1>1, <1>3, <1>4 DEF ScreenInv, TypeInv

LEMMA ScreenInvReports == ASSUME TypeInv, ClearInv PROVE ResultIsSeen
<1> SUFFICES ASSUME NoneFailed(Confusing), NEW i \in 1..Len(win.dialogs),
                    win.dialogs[i].id = "RESULT"
             PROVE  /\ ~win.menu /\ win.focus = "DIALOG"
                    /\ \A j \in 1..i - 1 : win.dialogs[j].id = "LOW_VOLTAGE"
  BY DEF ResultIsSeen
<1>1. ScreenInv
  BY DEF ClearInv
<1>2. win.dialogs \in Seq(Fits) /\ Len(win.dialogs) \in Nat
  BY DEF TypeInv, Windows
<1>3. preview = "STOP"
  <2>1. CASE preview = "RUN" /\ busy = "starting"
    BY <1>1, <2>1 DEF ScreenInv, Absent
  <2>2. CASE preview = "RUN" /\ busy # "starting"
    <3>1. PICK k \in 1..Len(win.dialogs) : MovedAt(win.dialogs, k)
      BY <1>1, <2>2 DEF ScreenInv, Aligning
    <3>2. QED BY <1>2, <3>1 DEF MovedAt
  <2>3. QED BY <1>1, <2>1, <2>2 DEF ScreenInv, TypeInv
<1>4. Resting(win)
  BY <1>1, <1>3 DEF ScreenInv
<1>5. QED BY <1>2, <1>4 DEF Resting

(* What the operations on the window make of the two shapes. *)

LEMMA AbsentPush ==
  ASSUME NEW s \in Seq(Fits), NEW id \in Ids, NEW ids, Absent(ids, s), id \notin ids
  PROVE  Absent(ids, <<Dialog(id)>> \o s)
<1> DEFINE t == <<Dialog(id)>> \o s
<1>1. /\ Dialog(id) \in Fits /\ Dialog(id).id = id
  BY DialogFits
<1>2. t[1] = Dialog(id) /\ Len(s) \in Nat /\ Len(t) = Len(s) + 1 /\ \A i \in 2..Len(t) : t[i] = s[i - 1]
  BY <1>1, Pushed
<1>3. ASSUME NEW i \in 1..Len(t) PROVE t[i].id \notin ids
  <2>1. CASE i = 1
    BY <1>1, <1>2, <2>1
  <2>2. CASE i \in 2..Len(t)
    <3>1. i - 1 \in 1..Len(s)
      BY <1>2, <2>2
    <3>2. QED BY <1>2, <2>2, <3>1 DEF Absent
  <2>3. QED BY <1>2, <2>1, <2>2
<1>4. QED BY <1>3 DEF Absent

LEMMA AbsentPop ==
  ASSUME NEW s \in Seq(Fits), s # <<>>, NEW ids, Absent(ids, s) PROVE Absent(ids, Tail(s))
<1>1. Len(s) \in Nat \ {0} /\ Len(Tail(s)) = Len(s) - 1 /\ \A i \in 1..Len(Tail(s)) : Tail(s)[i] = s[i + 1]
  BY Popped
<1>2. \A i \in 1..Len(Tail(s)) : i + 1 \in 1..Len(s)
  BY <1>1
<1>3. QED BY <1>1, <1>2 DEF Absent

LEMMA RestingPush ==
  ASSUME NEW w \in Windows, Resting(w), NEW id \in Ids, id \notin {"MOVE_IR", "IRARRAY_END"},
         NEW v, v.dialogs = <<Dialog(id)>> \o w.dialogs, v.focus = "DIALOG", v.menu = w.menu,
         id = "LOW_VOLTAGE" \/ Absent({"RESULT"}, w.dialogs), id = "RESULT" => ~w.menu
  PROVE  Resting(v)
<1> DEFINE s == w.dialogs
           t == v.dialogs
<1>1. s \in Seq(Fits) /\ Dialog(id).id = id
  BY DialogFits DEF Windows
<1>2. t[1] = Dialog(id) /\ Len(s) \in Nat /\ Len(t) = Len(s) + 1 /\ \A i \in 2..Len(t) : t[i] = s[i - 1]
  BY <1>1, DialogFits, Pushed
<1>3. Absent({"MOVE_IR", "IRARRAY_END"}, t)
  BY <1>1, AbsentPush DEF Resting
<1>4. ASSUME NEW i \in 1..Len(t), t[i].id = "RESULT"
      PROVE  /\ ~v.menu /\ v.focus = "DIALOG"
             /\ \A j \in 1..Len(t) : j < i => t[j].id = "LOW_VOLTAGE"
  <2>1. CASE i = 1
    BY <1>1, <1>2, <1>4, <2>1
  <2>2. CASE i \in 2..Len(t)
    <3>1. i - 1 \in 1..Len(s) /\ s[i - 1].id = "RESULT"
      BY <1>2, <1>4, <2>2
    <3>2. id = "LOW_VOLTAGE" /\ ~w.menu
      BY <3>1 DEF Absent, Resting
    <3>3. \A j \in 1..Len(s) : j < i - 1 => s[j].id = "LOW_VOLTAGE"
      BY <3>1 DEF Resting
    <3>4. ASSUME NEW j \in 1..Len(t), j < i PROVE t[j].id = "LOW_VOLTAGE"
      <4>1. CASE j = 1
        BY <1>1, <1>2, <3>2, <4>1
      <4>2. CASE j # 1
        <5>1. j \in 2..Len(t) /\ j - 1 \in 1..Len(s) /\ j - 1 < i - 1
          BY <1>2, <3>4, <4>2
        <5>2. QED BY <1>2, <3>3, <5>1
      <4>3. QED BY <4>1, <4>2
    <3>5. QED BY <3>2, <3>4
  <2>3. QED BY <1>2, <2>1, <2>2
<1>5. QED BY <1>3, <1>4 DEF Resting

LEMMA RestingHide ==
  ASSUME NEW w \in Windows, w.dialogs # <<>>, Resting(w)
  PROVE  /\ Resting(Hide(w))
         /\ Head(w.dialogs).id # "LOW_VOLTAGE" => Absent({"RESULT"}, Hide(w).dialogs)
<1> DEFINE s == w.dialogs
           t == Tail(w.dialogs)
<1>1. s \in Seq(Fits)
  BY DEF Windows
<1>2. /\ Len(s) \in Nat \ {0} /\ Len(t) = Len(s) - 1 /\ Head(s) = s[1]
      /\ \A i \in 1..Len(t) : t[i] = s[i + 1]
      /\ Len(t) # 0 => t # <<>>
  BY <1>1, Popped
<1>3. Hide(w).dialogs = t /\ Hide(w).menu = w.menu /\ (t # <<>> => Hide(w).focus = "DIALOG")
  BY Hidden
<1>4. Absent({"MOVE_IR", "IRARRAY_END"}, t)
  BY <1>1, AbsentPop DEF Resting
<1>5. ASSUME NEW i \in 1..Len(t), t[i].id = "RESULT"
      PROVE  /\ ~w.menu /\ t # <<>> /\ Head(s).id = "LOW_VOLTAGE"
             /\ \A j \in 1..Len(t) : j < i => t[j].id = "LOW_VOLTAGE"
  <2>1. i + 1 \in 1..Len(s) /\ s[i + 1].id = "RESULT"
    BY <1>2, <1>5
  <2>2. ~w.menu /\ \A j \in 1..Len(s) : j < i + 1 => s[j].id = "LOW_VOLTAGE"
    BY <2>1 DEF Resting
  <2>3. \A j \in 1..Len(t) : j < i => j + 1 \in 1..Len(s) /\ j + 1 < i + 1
    BY <1>2
  <2>4. 1 \in 1..Len(s) /\ 1 < i + 1
    BY <1>2
  <2>5. QED BY <1>2, <2>2, <2>3, <2>4
<1>6. QED BY <1>3, <1>4, <1>5 DEF Resting, Absent

LEMMA RestingMenu ==
  ASSUME NEW w \in Windows, Resting(w)
  PROVE  /\ Absent({"RESULT"}, w.dialogs) => Resting(OpenMenu(w))
         /\ w.menu => Absent({"RESULT"}, w.dialogs)
         /\ w.focus # "DIALOG" => Absent({"RESULT"}, w.dialogs)
         /\ Absent({"RESULT"}, w.dialogs) => Resting(CloseMenu(w))
BY Opened, Closed DEF Resting, Absent

LEMMA RestingAgain ==
  ASSUME NEW w \in Windows, Resting(w), Absent({"RESULT"}, w.dialogs), NEW o \in ShowMenu(w)
  PROVE  Resting(o.win)
BY RestingMenu, MenuShown

LEMMA AligningStarts ==
  ASSUME NEW w \in Windows, Absent({"MOVE_IR", "IRARRAY_END", "RESULT"}, w.dialogs), ~w.menu,
         NEW v, v.dialogs = <<Dialog("MOVE_IR")>> \o w.dialogs, v.focus = "DIALOG", v.menu = w.menu
  PROVE  Aligning(v)
<1> DEFINE s == w.dialogs
           t == v.dialogs
<1>1. s \in Seq(Fits) /\ Dialog("MOVE_IR") \in Fits /\ Dialog("MOVE_IR").id = "MOVE_IR"
  BY DialogFits DEF Windows, Ids
<1>2. t[1] = Dialog("MOVE_IR") /\ Len(s) \in Nat /\ Len(t) = Len(s) + 1 /\ \A i \in 2..Len(t) : t[i] = s[i - 1]
  BY <1>1, Pushed
<1>3. \A i \in 1..Len(t) : i > 1 => i \in 2..Len(t) /\ i - 1 \in 1..Len(s)
  BY <1>2
<1>4. MovedAt(t, 1) /\ 1 \in 1..Len(t)
  BY <1>1, <1>2, <1>3 DEF MovedAt, Absent
<1>5. QED BY <1>4 DEF Aligning

LEMMA AligningPush ==
  ASSUME NEW w \in Windows, Aligning(w), NEW id \in Ids,
         id = "LOW_VOLTAGE" \/ (id = "IRARRAY_END" /\ Head(w.dialogs).id = "MOVE_IR"),
         NEW v, v.dialogs = <<Dialog(id)>> \o w.dialogs, v.focus = "DIALOG", v.menu = w.menu
  PROVE  Aligning(v)
<1> DEFINE s == w.dialogs
           t == v.dialogs
<1>1. s \in Seq(Fits) /\ Dialog(id) \in Fits /\ Dialog(id).id = id
  BY DialogFits DEF Windows
<1>2. /\ t[1] = Dialog(id) /\ Len(s) \in Nat /\ Len(t) = Len(s) + 1
      /\ \A i \in 2..Len(t) : t[i] = s[i - 1]
      /\ \A i \in 1..Len(s) : t[i + 1] = s[i]
  BY <1>1, Pushed
<1>3. PICK k \in 1..Len(s) : MovedAt(s, k)
  BY DEF Aligning
<1>4. id = "IRARRAY_END" => k = 1
  <2>1. id = "IRARRAY_END" => s[1].id = "MOVE_IR" /\ 1 \in 1..Len(s)
    BY <1>1, <1>2, <1>3
  <2>2. QED BY <1>2, <1>3, <2>1 DEF MovedAt
<1>5. \A i \in 1..Len(t) : i = 1 \/ (i \in 2..Len(t) /\ i - 1 \in 1..Len(s))
  BY <1>2
<1>6. k + 1 \in 1..Len(t) /\ t[k + 1].id = "MOVE_IR"
  BY <1>2, <1>3 DEF MovedAt
<1>7. ASSUME NEW i \in 1..Len(t), i > k + 1
      PROVE  t[i].id \notin {"MOVE_IR", "IRARRAY_END", "RESULT"}
  <2>1. i \in 2..Len(t) /\ i - 1 \in 1..Len(s) /\ i - 1 > k
    BY <1>2, <1>3, <1>7
  <2>2. QED BY <1>2, <1>3, <2>1 DEF MovedAt
<1>8. ASSUME NEW i \in 1..Len(t), i < k + 1
      PROVE  t[i].id = "LOW_VOLTAGE" \/ (i = (k + 1) - 1 /\ t[i].id = "IRARRAY_END")
  <2>1. CASE i = 1
    BY <1>1, <1>2, <1>4, <2>1
  <2>2. CASE i # 1
    <3>1. i \in 2..Len(t) /\ i - 1 \in 1..Len(s) /\ i - 1 < k
      BY <1>2, <1>3, <1>8, <2>2
    <3>2. s[i - 1].id = "LOW_VOLTAGE" \/ (i - 1 = k - 1 /\ s[i - 1].id = "IRARRAY_END")
      BY <1>3, <3>1 DEF MovedAt
    <3>3. QED BY <1>2, <1>3, <3>1, <3>2
  <2>3. QED BY <2>1, <2>2
<1>9. MovedAt(t, k + 1)
  BY <1>6, <1>7, <1>8 DEF MovedAt
<1>10. QED BY <1>6, <1>9 DEF Aligning

LEMMA AligningTop ==
  ASSUME NEW w \in Windows, Aligning(w)
  PROVE  /\ w.dialogs # <<>>
         /\ Head(w.dialogs).id \in {"MOVE_IR", "IRARRAY_END", "LOW_VOLTAGE"}
         /\ Head(w.dialogs).id # "MOVE_IR" => Aligning(Hide(w))
         /\ Head(w.dialogs).id = "IRARRAY_END" =>
              /\ Resting(Hide(Hide(w)))
              /\ Absent({"MOVE_IR", "IRARRAY_END", "RESULT"}, Hide(Hide(w)).dialogs)
<1> DEFINE s == w.dialogs
           t == Tail(s)
<1>1. PICK k \in 1..Len(s) : MovedAt(s, k)
  BY DEF Aligning
<1>2. s \in Seq(Fits) /\ s # <<>>
  BY <1>1 DEF Windows
<1>3. /\ t \in Seq(Fits) /\ Len(s) \in Nat \ {0} /\ Len(t) = Len(s) - 1 /\ Head(s) = s[1]
      /\ \A i \in 1..Len(t) : t[i] = s[i + 1]
      /\ Len(t) # 0 => t # <<>>
  BY <1>2, Popped
<1>4. Head(s).id \in {"MOVE_IR", "IRARRAY_END", "LOW_VOLTAGE"}
  BY <1>1, <1>3 DEF MovedAt
<1>5. ASSUME Head(s).id # "MOVE_IR"
      PROVE  k - 1 \in 1..Len(t) /\ MovedAt(t, k - 1) /\ t # <<>>
  <2>1. k # 1
    BY <1>1, <1>3, <1>5 DEF MovedAt
  <2>2. k - 1 \in 1..Len(t) /\ t[k - 1].id = "MOVE_IR"
    BY <1>1, <1>3, <2>1 DEF MovedAt
  <2>3. ASSUME NEW i \in 1..Len(t), i > k - 1
        PROVE  t[i].id \notin {"MOVE_IR", "IRARRAY_END", "RESULT"}
    <3>1. i + 1 \in 1..Len(s) /\ i + 1 > k
      BY <1>3, <2>3
    <3>2. QED BY <1>1, <1>3, <3>1 DEF MovedAt
  <2>4. ASSUME NEW i \in 1..Len(t), i < k - 1
        PROVE  t[i].id = "LOW_VOLTAGE" \/ (i = (k - 1) - 1 /\ t[i].id = "IRARRAY_END")
    <3>1. i + 1 \in 1..Len(s) /\ i + 1 < k
      BY <1>3, <2>4
    <3>2. s[i + 1].id = "LOW_VOLTAGE" \/ (i + 1 = k - 1 /\ s[i + 1].id = "IRARRAY_END")
      BY <1>1, <3>1 DEF MovedAt
    <3>3. QED BY <1>3, <3>2
  <2>5. MovedAt(t, k - 1)
    BY <2>2, <2>3, <2>4 DEF MovedAt
  <2>6. QED BY <1>3, <2>2, <2>5
<1>6. Hide(w) \in Windows /\ Hide(w).dialogs = t /\ Hide(w).menu = w.menu
      /\ (t # <<>> => Hide(w).focus = "DIALOG")
  BY <1>2, Hidden
<1>7. Head(s).id # "MOVE_IR" => Aligning(Hide(w))
  BY <1>5, <1>6 DEF Aligning
<1>8. ASSUME Head(s).id = "IRARRAY_END"
      PROVE  Absent({"MOVE_IR", "IRARRAY_END", "RESULT"}, Hide(Hide(w)).dialogs)
  <2>1. k = 2
    BY <1>1, <1>3, <1>8 DEF MovedAt
  <2>2. t # <<>> /\ \A i \in 1..Len(t) : i > 1 => t[i].id \notin {"MOVE_IR", "IRARRAY_END", "RESULT"}
    BY <1>5, <1>8, <2>1 DEF MovedAt
  <2>3. Hide(Hide(w)).dialogs = Tail(t)
    BY <1>6, <2>2, Hidden
  <2>4. Len(t) \in Nat \ {0} /\ Len(Tail(t)) = Len(t) - 1 /\ \A i \in 1..Len(Tail(t)) : Tail(t)[i] = t[i + 1]
    BY <1>3, <2>2, Popped
  <2>5. \A i \in 1..Len(Tail(t)) : i + 1 \in 1..Len(t) /\ i + 1 > 1
    BY <2>4
  <2>6. QED BY <2>2, <2>3, <2>4, <2>5 DEF Absent
<1>9. Absent({"MOVE_IR", "IRARRAY_END", "RESULT"}, Hide(Hide(w)).dialogs) => Resting(Hide(Hide(w)))
  BY DEF Absent, Resting
<1>10. QED BY <1>2, <1>4, <1>7, <1>8, <1>9

-----------------------------------------------------------------------------
(* The steps, while nothing confusing fails. *)

(* A step that fails nothing confusing leaves one of the outcomes, and that
   outcome is the intended one. *)
LEMMA ShowClear ==
  ASSUME NEW outcomes, NEW more, Show(outcomes, more), NoneFailed(Confusing)'
  PROVE  /\ NoneFailed(Confusing) /\ more \cap Confusing = {}
         /\ \E o \in outcomes : o.fault \cap Confusing = {} /\ win' = o.win
BY DEF Show, NoneFailed

LEMMA DialogClear ==
  ASSUME NEW w \in Windows, NEW id \in Ids, NEW more, Show(ShowDialog(w, id), more),
         NoneFailed(Confusing)'
  PROVE  /\ win'.dialogs = <<Dialog(id)>> \o w.dialogs
         /\ win'.focus = "DIALOG" /\ win'.menu = w.menu
<1>1. PICK o \in ShowDialog(w, id) : o.fault \cap Confusing = {} /\ win' = o.win
  BY ShowClear
<1>2. o.fault # {"dialog"} /\ o.fault # {"push"}
  BY <1>1 DEF Confusing
<1>3. QED BY <1>1, <1>2, Shown

LEMMA OnlyClear ==
  ASSUME NEW w, NEW more, Show(Only(w), more) PROVE win' = w
BY OnlyWindow DEF Show

(* Nobody but the toggle touches the preview and a busy main thread. *)
Unbusy == busy = "idle" /\ UNCHANGED <<busy, preview>>

LEMMA QuietResting ==
  ASSUME ScreenInv, Unbusy, preview = "STOP", Resting(win)' PROVE ScreenInv'
BY DEF ScreenInv, Unbusy

LEMMA QuietAligning ==
  ASSUME ScreenInv, Unbusy, preview = "RUN", Aligning(win)' PROVE ScreenInv'
BY DEF ScreenInv, Unbusy

LEMMA KeysClear ==
  ASSUME TypeInv, ScreenInv, Unbusy, NoneFailed(Confusing)',
         \/ HoldClosesMenu \/ HoldOpensMenu \/ HoldOnSpinbox \/ CallDialog \/ MoveFocus
         \/ Dismiss \/ DismissResult \/ EndMove \/ LowBattery \/ TogglePaused
  PROVE  ScreenInv'
<1>1. win \in Windows /\ win.dialogs \in Seq(Fits)
  BY DEF TypeInv, Windows
<1>2. preview \in {"STOP", "RUN"}
  BY DEF TypeInv, ScreenInv
<1>3. preview = "STOP" => Resting(win)
  BY DEF ScreenInv
<1>4. preview = "RUN" => /\ Aligning(win) /\ ~win.menu /\ win.focus = "DIALOG" /\ win.dialogs # <<>>
                         /\ Head(win.dialogs).id \in {"MOVE_IR", "IRARRAY_END", "LOW_VOLTAGE"}
  BY <1>1, AligningTop DEF ScreenInv, Unbusy, Aligning
<1>5. CASE HoldClosesMenu
  <2>1. win' = CloseMenu(win) /\ win.menu
    BY <1>5, OnlyClear DEF HoldClosesMenu
  <2>2. preview = "STOP"
    BY <1>2, <1>4, <2>1
  <2>3. Resting(win)'
    BY <1>1, <1>3, <2>1, <2>2, RestingMenu DEF Resting
  <2>4. QED BY <2>2, <2>3, QuietResting
<1>6. CASE HoldOpensMenu
  <2>1. preview = "STOP" /\ win.focus # "DIALOG"
    BY <1>6 DEF HoldOpensMenu
  <2>2. PICK o \in ShowMenu(win) : win' = o.win
    BY <1>6, ShowClear DEF HoldOpensMenu
  <2>3. Resting(o.win)
    BY <1>1, <1>3, <2>1, RestingMenu, RestingAgain
  <2>4. Resting(win)'
    BY <2>2, <2>3 DEF Resting
  <2>5. QED BY <2>1, <2>4, QuietResting
<1>7. CASE HoldOnSpinbox
  <2>1. win' = Hide(win) /\ win.dialogs # <<>> /\ Head(win.dialogs).id = "SETTING"
    BY <1>7, OnlyClear DEF HoldOnSpinbox, Focused, HasTop
  <2>2. preview = "STOP"
    BY <1>2, <1>4, <2>1
  <2>3. Resting(Hide(win))
    BY <1>1, <1>3, <2>1, <2>2, RestingHide
  <2>4. Resting(win)'
    BY <2>1, <2>3 DEF Resting
  <2>5. QED BY <2>2, <2>4, QuietResting
<1>8. CASE CallDialog
  <2>1. win.focus = "MENU"
    BY <1>8 DEF CallDialog
  <2>2. preview = "STOP"
    BY <1>2, <1>4, <2>1
  <2>3. PICK id \in {"SETTING", "FWUPDATE", "IRARRAY_START"} : Show(ShowDialog(win, id), {})
    BY <1>8, <2>2 DEF CallDialog, IrArray
  <2>4. id \in Ids
    BY DEF Ids
  <2>5. Resting(win')
    BY <1>1, <1>3, <2>1, <2>2, <2>3, <2>4, DialogClear, RestingMenu, RestingPush
  <2>6. Resting(win)'
    BY <2>5 DEF Resting
  <2>7. QED BY <2>2, <2>6, QuietResting
<1>9. CASE MoveFocus
  <2>1. PICK w \in Widgets(Head(win.dialogs).id) :
          Show(Only([win EXCEPT !.dialogs[1].widget = w]), {})
    BY <1>9 DEF MoveFocus
  <2>2. win.dialogs # <<>>
    BY <1>9 DEF MoveFocus
  <2>3. win' = [win EXCEPT !.dialogs[1].widget = w]
    BY <2>1, OnlyClear
  <2>4. /\ win'.focus = win.focus /\ win'.menu = win.menu /\ Len(win'.dialogs) = Len(win.dialogs)
        /\ \A i \in 1..Len(win.dialogs) : win'.dialogs[i].id = win.dialogs[i].id
    BY <1>1, <2>2, <2>3, MovedFocus
  <2>5. Resting(win) => Resting(win')
    BY <2>4 DEF Resting, Absent
  <2>6. Aligning(win) => Aligning(win')
    BY <2>4 DEF Aligning, MovedAt
  <2>7. preview = "STOP" => Resting(win)'
    BY <1>3, <2>5 DEF Resting
  <2>8. preview = "RUN" => Aligning(win)'
    BY <1>4, <2>6 DEF Aligning
  <2>9. QED BY <1>2, <2>7, <2>8, QuietResting, QuietAligning
<1>10. CASE Dismiss
  <2>1. /\ win' = Hide(win) /\ win.dialogs # <<>>
        /\ Head(win.dialogs).id \in {"SETTING", "LOW_VOLTAGE", "FWUPDATE", "IRARRAY_START", "IRARRAY_END"}
    BY <1>10, OnlyClear DEF Dismiss, Focused, HasTop
  <2>2. preview = "STOP" => Resting(Hide(win))
    BY <1>1, <1>3, <2>1, RestingHide
  <2>3. preview = "RUN" => Aligning(Hide(win))
    BY <1>1, <1>4, <2>1, AligningTop
  <2>4. preview = "STOP" => Resting(win)'
    BY <2>1, <2>2 DEF Resting
  <2>5. preview = "RUN" => Aligning(win)'
    BY <2>1, <2>3 DEF Aligning
  <2>6. QED BY <1>2, <2>4, <2>5, QuietResting, QuietAligning
<1>11. CASE DismissResult
  <2>1. win.dialogs # <<>> /\ Head(win.dialogs).id = "RESULT"
    BY <1>11 DEF DismissResult, Focused, HasTop
  <2>2. preview = "STOP"
    BY <1>2, <1>4, <2>1
  <2>3. Resting(Hide(win)) /\ Absent({"RESULT"}, Hide(win).dialogs) /\ Hide(win) \in Windows
    BY <1>1, <1>3, <2>1, <2>2, RestingHide, HiddenAny
  <2>4. PICK o \in ShowMenu(Hide(win)) : win' = o.win
    BY <1>11, ShowClear DEF DismissResult
  <2>5. Resting(o.win)
    BY <2>3, RestingAgain
  <2>6. Resting(win)'
    BY <2>4, <2>5 DEF Resting
  <2>7. QED BY <2>2, <2>6, QuietResting
<1>12. CASE EndMove
  <2>1. Head(win.dialogs).id = "MOVE_IR" /\ win.dialogs # <<>> /\ Show(ShowDialog(win, IrArray), {})
    BY <1>12 DEF EndMove, Focused, HasTop
  <2>2. preview = "RUN"
    <3>1. Len(win.dialogs) \in Nat \ {0} /\ Head(win.dialogs) = win.dialogs[1]
      BY <1>1, <2>1, Popped
    <3>2. ~Absent({"MOVE_IR", "IRARRAY_END"}, win.dialogs)
      BY <2>1, <3>1 DEF Absent
    <3>3. QED BY <1>2, <1>3, <3>2 DEF Resting
  <2>3. IrArray = "IRARRAY_END" /\ IrArray \in Ids
    BY <2>2 DEF IrArray, Ids
  <2>4. Aligning(win')
    BY <1>1, <1>4, <2>1, <2>2, <2>3, DialogClear, AligningPush
  <2>5. Aligning(win)'
    BY <2>4 DEF Aligning
  <2>6. QED BY <2>2, <2>5, QuietAligning
<1>13. CASE LowBattery
  <2>1. Show(ShowDialog(win, "LOW_VOLTAGE"), {}) /\ "LOW_VOLTAGE" \in Ids
    BY <1>13 DEF LowBattery, Ids
  <2>2. preview = "STOP" => Resting(win')
    BY <1>1, <1>3, <2>1, DialogClear, RestingPush
  <2>3. preview = "RUN" => Aligning(win')
    BY <1>1, <1>4, <2>1, DialogClear, AligningPush
  <2>4. preview = "STOP" => Resting(win)'
    BY <2>2 DEF Resting
  <2>5. preview = "RUN" => Aligning(win)'
    BY <2>3 DEF Aligning
  <2>6. QED BY <1>2, <2>4, <2>5, QuietResting, QuietAligning
<1>14. CASE TogglePaused
  BY <1>2, <1>14 DEF TogglePaused
<1>15. QED BY <1>5, <1>6, <1>7, <1>8, <1>9, <1>10, <1>11, <1>12, <1>13, <1>14

LEMMA TogglesClear ==
  ASSUME TypeInv, ScreenInv, NoneFailed(Confusing)',
         StopCamera \/ StartFails \/ StartCamera \/ CameraStarted
  PROVE  ScreenInv'
<1>1. win \in Windows /\ win.dialogs \in Seq(Fits)
  BY DEF TypeInv, Windows
<1>2. preview \in {"STOP", "RUN"}
  BY DEF TypeInv, ScreenInv
<1>3. CASE StopCamera
  <2>1. Aligning(win) /\ preview' = "STOP" /\ busy' = "idle"
    BY <1>3 DEF StopCamera, ScreenInv, Idle
  <2>2. Head(win.dialogs).id \in {"IRARRAY_START", "IRARRAY_END"}
    BY <1>3 DEF StopCamera, Toggles, Focused, HasTop
  <2>3. Show(ShowMenu(Hide(Hide(win))), {})
    BY <1>3, ShowClear DEF StopCamera, Confusing
  <2>4. /\ Resting(Hide(Hide(win))) /\ Hide(Hide(win)) \in Windows
        /\ Absent({"RESULT"}, Hide(Hide(win)).dialogs)
    BY <1>1, <2>1, <2>2, AligningTop, HiddenAny DEF Absent
  <2>5. PICK o \in ShowMenu(Hide(Hide(win))) : win' = o.win
    BY <2>3, ShowClear
  <2>6. Resting(o.win)
    BY <2>4, RestingAgain
  <2>7. Resting(win)'
    BY <2>5, <2>6 DEF Resting
  <2>8. QED BY <2>1, <2>7 DEF ScreenInv
<1>4. CASE StartFails
  <2>1. preview = "STOP" /\ Unbusy /\ win' = Hide(win) /\ win.dialogs # <<>>
    <3>1. ASSUME NEW fault PROVE ~Show(Only(Hide(win)), fault \cup {"shutter"})
      BY ShowClear DEF Confusing
    <3>2. Show(Only(Hide(win)), {})
      BY <1>4, <3>1 DEF StartFails
    <3>3. win' = Hide(win)
      BY <3>2, OnlyClear
    <3>4. QED BY <1>4, <3>2, <3>3 DEF StartFails, Unbusy, Idle, Toggles, Focused, HasTop
  <2>2. Resting(Hide(win))
    BY <1>1, <2>1, RestingHide DEF ScreenInv
  <2>3. Resting(win)'
    BY <2>1, <2>2 DEF Resting
  <2>4. QED BY <2>1, <2>3, QuietResting
<1>5. CASE StartCamera
  <2>1. Resting(win) /\ win' = win /\ preview' = "RUN" /\ busy' = "starting"
    BY <1>5, OnlyClear DEF StartCamera, ScreenInv
  <2>2. win.dialogs # <<>> /\ Head(win.dialogs).id \in {"IRARRAY_START", "IRARRAY_END"}
    BY <1>5 DEF StartCamera, Toggles, Focused, HasTop
  <2>3. Len(win.dialogs) \in Nat \ {0} /\ Head(win.dialogs) = win.dialogs[1]
    BY <1>1, <2>2, Popped
  <2>4. Head(win.dialogs).id = "IRARRAY_START"
    BY <2>1, <2>2, <2>3 DEF Resting, Absent
  <2>5. Absent({"MOVE_IR", "IRARRAY_END", "RESULT"}, win.dialogs)
    BY <2>1, <2>3, <2>4 DEF Resting, Absent
  <2>6. Absent({"MOVE_IR", "IRARRAY_END", "RESULT"}, win.dialogs)' /\ HasTop("IRARRAY_START")'
    BY <2>1, <2>2, <2>4, <2>5 DEF Absent, HasTop
  <2>7. QED BY <2>1, <2>6 DEF ScreenInv
<1>6. CASE CameraStarted
  <2>1. /\ preview = "RUN" /\ preview' = "RUN" /\ busy' = "idle"
        /\ Absent({"MOVE_IR", "IRARRAY_END", "RESULT"}, win.dialogs) /\ win.dialogs # <<>>
    BY <1>2, <1>6 DEF CameraStarted, ScreenInv, HasTop
  <2>2. Show(ShowDialog(CloseMenu(Hide(win)), "MOVE_IR"), {}) /\ "MOVE_IR" \in Ids
    BY <1>6, <2>1 DEF CameraStarted, Ids
  <2>3. /\ CloseMenu(Hide(win)) \in Windows /\ ~CloseMenu(Hide(win)).menu
        /\ CloseMenu(Hide(win)).dialogs = Tail(win.dialogs)
    BY <1>1, <2>1, Hidden, Closed
  <2>4. Absent({"MOVE_IR", "IRARRAY_END", "RESULT"}, Tail(win.dialogs))
    BY <1>1, <2>1, AbsentPop
  <2>5. Aligning(win')
    BY <2>2, <2>3, <2>4, DialogClear, AligningStarts
  <2>6. Aligning(win)'
    BY <2>5 DEF Aligning
  <2>7. QED BY <2>1, <2>6 DEF ScreenInv
<1>7. QED BY <1>3, <1>4, <1>5, <1>6

LEMMA UpdatesClear ==
  ASSUME TypeInv, ScreenInv, NoneFailed(Confusing)', BeginUpdate \/ EndUpdate
  PROVE  ScreenInv'
<1>1. win \in Windows /\ win.dialogs \in Seq(Fits)
  BY DEF TypeInv, Windows
<1>2. CASE BeginUpdate
  <2>1. /\ busy = "idle" /\ win.dialogs # <<>> /\ Head(win.dialogs).id = "FWUPDATE"
        /\ win' = CloseMenu(Hide(win)) /\ preview' = preview /\ busy' = "updating"
    BY <1>2, OnlyClear DEF BeginUpdate, Idle, Focused, HasTop
  <2>2. preview = "STOP"
    BY <1>1, <2>1, AligningTop DEF ScreenInv, TypeInv
  <2>3. Resting(Hide(win)) /\ Absent({"RESULT"}, Hide(win).dialogs) /\ Hide(win) \in Windows
    BY <1>1, <2>1, <2>2, RestingHide, HiddenAny DEF ScreenInv
  <2>4. /\ Resting(CloseMenu(Hide(win))) /\ ~CloseMenu(Hide(win)).menu
        /\ Absent({"RESULT"}, CloseMenu(Hide(win)).dialogs)
    BY <2>3, RestingMenu, Closed
  <2>5. Resting(win)' /\ ~win'.menu /\ Absent({"RESULT"}, win.dialogs)'
    BY <2>1, <2>4 DEF Resting, Absent
  <2>6. QED BY <2>1, <2>2, <2>5 DEF ScreenInv
<1>3. CASE EndUpdate
  <2>1. /\ busy = "updating" /\ preview' = preview /\ busy' = "idle"
        /\ Show(ShowDialog(win, "RESULT"), {}) /\ "RESULT" \in Ids
    BY <1>3 DEF EndUpdate, Ids
  <2>2. preview = "STOP" /\ Resting(win) /\ ~win.menu /\ Absent({"RESULT"}, win.dialogs)
    BY <2>1 DEF ScreenInv, TypeInv
  <2>3. Resting(win')
    BY <1>1, <2>1, <2>2, DialogClear, RestingPush
  <2>4. Resting(win)'
    BY <2>3 DEF Resting
  <2>5. QED BY <2>1, <2>2, <2>4 DEF ScreenInv
<1>4. QED BY <1>2, <1>3

(* The camera is switched only with the preview. *)
LEMMA PowerClear ==
  ASSUME TypeInv, PowerInv, ScreenInv, NoneFailed(Confusing)', failed \subseteq failed',
         [Next]_vars
  PROVE  PowerInv'
<1>1. CASE StopCamera
  BY <1>1 DEF StopCamera, PowerInv
<1>2. CASE StartFails
  <2>1. preview = "STOP" /\ preview' = preview /\ ~camera
    BY <1>2 DEF StartFails, PowerInv
  <2>2. FALSE
    BY <1>2, <2>1, ShowClear DEF StartFails, Confusing
  <2>3. QED BY <2>2
<1>3. CASE StartCamera
  <2>1. PICK fault \in {{}, {"boot"}} : PowerUp(fault) /\ Show(Only(win), fault)
    BY <1>3 DEF StartCamera
  <2>2. preview' = "RUN" /\ (camera' <=> fault = {}) /\ fault \subseteq failed'
    BY <1>3, <2>1 DEF StartCamera, PowerUp, Show
  <2>3. QED BY <2>1, <2>2 DEF PowerInv
<1>4. CASE PreviewFails
  BY <1>4 DEF PreviewFails, NoneFailed, Confusing
<1>5. CASE UNCHANGED <<preview, camera>>
  BY <1>5 DEF PowerInv
<1>6. Boot \/ KeyWithoutMenu \/ HoldClosesMenu \/ CameraStarted \/ BeginUpdate \/ EndUpdate
      \/ DrawStep \/ Quiet \/ UNCHANGED vars => UNCHANGED <<preview, camera>>
  BY DEF Boot, KeyWithoutMenu, HoldClosesMenu, CameraStarted, BeginUpdate, EndUpdate, DrawStep,
         DrawTestsMenu, DrawUsesMenu, Quiet, vars
<1>7. QED BY <1>1, <1>2, <1>3, <1>4, <1>5, <1>6, Steps

LEMMA ClearInvStep == ASSUME TypeInv, ClearInv, [Next]_vars PROVE ClearInv'
<1> SUFFICES ASSUME NoneFailed(Confusing)' PROVE ScreenInv' /\ PowerInv'
  BY DEF ClearInv
<1>1. failed \subseteq failed'
  BY Steps DEF Boot, KeyWithoutMenu, HoldClosesMenu, StopCamera, StartFails, StartCamera,
     CameraStarted, BeginUpdate, EndUpdate, PreviewFails, DrawStep, DrawTestsMenu, DrawUsesMenu,
     HoldOpensMenu, HoldOnSpinbox, CallDialog, MoveFocus, Dismiss, DismissResult, EndMove,
     LowBattery, TogglePaused, Show, vars
<1>2. NoneFailed(Confusing) /\ ScreenInv /\ PowerInv
  BY <1>1 DEF ClearInv, NoneFailed
<1>a. PowerInv'
  BY <1>1, <1>2, PowerClear
<1> SUFFICES ScreenInv'
  BY <1>a
<1>3. CASE Boot
  <2>1. /\ busy = "boot" /\ busy' = "idle" /\ preview' = preview
        /\ win.dialogs = <<>> /\ win \in Windows /\ Show(ShowMenu(win), {})
    BY <1>2, <1>3 DEF Boot, ScreenInv, TypeInv
  <2>2. preview = "STOP" /\ Resting(win) /\ Absent({"RESULT"}, win.dialogs)
    BY <1>2, <2>1 DEF ScreenInv, TypeInv, Absent
  <2>3. PICK o \in ShowMenu(win) : win' = o.win
    BY <2>1, ShowClear
  <2>4. Resting(o.win)
    BY <2>1, <2>2, RestingAgain
  <2>5. Resting(win)'
    BY <2>3, <2>4 DEF Resting
  <2>6. QED BY <1>2, <2>1, <2>2, <2>5 DEF ScreenInv
<1>4. CASE KeyWithoutMenu \/ DrawStep \/ UNCHANGED vars
  <2>1. UNCHANGED <<win, busy, preview>>
    BY <1>4 DEF KeyWithoutMenu, DrawStep, DrawTestsMenu, DrawUsesMenu, vars
  <2>2. QED BY <1>2, <2>1 DEF ScreenInv, Resting, Aligning, Absent, HasTop
<1>5. CASE HoldClosesMenu
  <2>1. Unbusy
    BY <1>5 DEF HoldClosesMenu, Idle, Unbusy
  <2>2. QED BY <1>2, <1>5, <2>1, KeysClear
<1>6. CASE Quiet /\ (HoldOpensMenu \/ HoldOnSpinbox \/ CallDialog \/ MoveFocus \/ Dismiss
                     \/ DismissResult \/ EndMove \/ LowBattery \/ TogglePaused)
  <2>1. Unbusy
    BY <1>6 DEF Quiet, HoldOpensMenu, HoldOnSpinbox, CallDialog, MoveFocus, Dismiss,
                DismissResult, EndMove, LowBattery, TogglePaused, Idle, Unbusy
  <2>2. QED BY <1>2, <1>6, <2>1, KeysClear
<1>7. CASE StopCamera \/ StartFails \/ StartCamera \/ CameraStarted
  BY <1>2, <1>7, TogglesClear
<1>8. CASE BeginUpdate \/ EndUpdate
  BY <1>2, <1>8, UpdatesClear
<1>9. CASE PreviewFails
  BY <1>9 DEF PreviewFails, NoneFailed, Confusing
<1>10. QED BY <1>3, <1>4, <1>5, <1>6, <1>7, <1>8, <1>9, Steps

LEMMA ClearInvHolds == Spec => []ClearInv
<1>1. Init => ClearInv
  BY DEF Init, ClearInv, ScreenInv, PowerInv, Resting, Absent
<1>2. QED BY <1>1, TypeInvHolds, ClearInvStep, PTL DEF Spec

(* As long as no dialog, shutter or preview has failed, the screen and the
   devices agree: the dialog that moves the image is on the stack, once and
   under the button that ends it, exactly while the preview runs, and so
   long, and no longer, the camera has power, unless it did not boot in time. *)
THEOREM AligningShown == Spec => []AligningIsShown
BY TypeInvHolds, ClearInvHolds, ScreenInvAligns, PTL

(* Nothing but low voltage warnings covers the result of an update. *)
THEOREM ResultSeen == Spec => []ResultIsSeen
BY TypeInvHolds, ClearInvHolds, ScreenInvReports, PTL
-----------------------------------------------------------------------------
(* The session of GuiSession. *)

Reported(w) == \E i \in 1..Len(w.dialogs) : w.dialogs[i].id = "RESULT"

(* With the preview at rest and no update the phase is told by the result. *)
PhaseTold ==
  /\ preview = "RUN" /\ busy # "starting" => Phase = "aligning"
  /\ busy = "starting" => Phase = "browsing"
  /\ preview = "STOP" /\ busy # "updating" =>
       Phase = IF Reported(win) THEN "reporting" ELSE "browsing"
  /\ preview = "STOP" \/ preview = "RUN"

LEMMA SessionPhases == TypeInv /\ ScreenInv => PhaseTold
<1> SUFFICES ASSUME TypeInv, ScreenInv PROVE PhaseTold
  OBVIOUS
<1>1. win.dialogs \in Seq(Fits) /\ Len(win.dialogs) \in Nat /\ preview \in {"STOP", "RUN"}
  BY DEF TypeInv, Windows, ScreenInv
<1>2. ASSUME preview = "RUN", busy # "starting" PROVE Phase = "aligning"
  <2>1. PICK k \in 1..Len(win.dialogs) : MovedAt(win.dialogs, k)
    BY <1>2 DEF ScreenInv, Aligning
  <2>2. OnStack("MOVE_IR") /\ ~OnStack("RESULT") /\ busy = "idle"
    BY <1>1, <1>2, <2>1 DEF MovedAt, OnStack, ScreenInv
  <2>3. QED BY <2>2 DEF Phase
<1>3. ASSUME busy = "starting" PROVE Phase = "browsing"
  BY <1>1, <1>3 DEF ScreenInv, Absent, OnStack, Phase
<1>4. ASSUME preview = "STOP", busy # "updating"
      PROVE  Phase = IF Reported(win) THEN "reporting" ELSE "browsing"
  BY <1>4 DEF ScreenInv, Resting, Absent, OnStack, Phase, Reported
<1>5. QED BY <1>1, <1>2, <1>3, <1>4 DEF PhaseTold

LEMMA SessionPhasesNext == (TypeInv /\ ScreenInv => PhaseTold)'
BY SessionPhases, PTL

(* What is said of the windows before and after a step. *)
LEMMA ReportLeft ==
  ASSUME NEW s \in Seq(Fits), s # <<>>, Head(s).id # "RESULT"
  PROVE  (\E i \in 1..Len(s) : s[i].id = "RESULT")
           <=> (\E i \in 1..Len(Tail(s)) : Tail(s)[i].id = "RESULT")
<1>1. /\ Len(s) \in Nat \ {0} /\ Len(Tail(s)) = Len(s) - 1 /\ Head(s) = s[1]
      /\ \A i \in 1..Len(Tail(s)) : Tail(s)[i] = s[i + 1]
      /\ \A i \in 2..Len(s) : Tail(s)[i - 1] = s[i]
  BY Popped
<1>2. ASSUME NEW i \in 1..Len(s), s[i].id = "RESULT"
      PROVE  i - 1 \in 1..Len(Tail(s)) /\ Tail(s)[i - 1].id = "RESULT"
  BY <1>1, <1>2
<1>3. ASSUME NEW i \in 1..Len(Tail(s)), Tail(s)[i].id = "RESULT"
      PROVE  i + 1 \in 1..Len(s) /\ s[i + 1].id = "RESULT"
  BY <1>1, <1>3
<1>4. QED BY <1>2, <1>3

LEMMA ReportKept ==
  ASSUME NEW s \in Seq(Fits), NEW id \in Ids, id # "RESULT", NEW t, t = <<Dialog(id)>> \o s
  PROVE  (\E i \in 1..Len(s) : s[i].id = "RESULT") <=> (\E i \in 1..Len(t) : t[i].id = "RESULT")
<1>1. Dialog(id) \in Fits /\ Dialog(id).id = id
  BY DialogFits
<1>2. /\ t[1] = Dialog(id) /\ Len(s) \in Nat /\ Len(t) = Len(s) + 1
      /\ \A i \in 2..Len(t) : t[i] = s[i - 1]
      /\ \A i \in 1..Len(s) : t[i + 1] = s[i]
  BY <1>1, Pushed
<1>3. ASSUME NEW i \in 1..Len(t), t[i].id = "RESULT"
      PROVE  i - 1 \in 1..Len(s) /\ s[i - 1].id = "RESULT"
  <2>1. i # 1
    BY <1>1, <1>2, <1>3
  <2>2. QED BY <1>2, <1>3, <2>1
<1>4. ASSUME NEW i \in 1..Len(s), s[i].id = "RESULT"
      PROVE  i + 1 \in 1..Len(t) /\ t[i + 1].id = "RESULT"
  BY <1>2, <1>4
<1>5. QED BY <1>3, <1>4

LEMMA KeysPhase ==
  ASSUME TypeInv, TypeInv', ScreenInv, ScreenInv', Unbusy, NoneFailed(Confusing)',
         \/ HoldClosesMenu \/ HoldOpensMenu \/ HoldOnSpinbox \/ CallDialog \/ MoveFocus
         \/ Dismiss \/ EndMove \/ LowBattery \/ TogglePaused
  PROVE  Phase' = Phase
<1>1. win \in Windows /\ win.dialogs \in Seq(Fits)
  BY DEF TypeInv, Windows
<1>2. preview' = preview /\ busy' = "idle" /\ busy = "idle" /\ PhaseTold /\ PhaseTold'
  BY SessionPhases, SessionPhasesNext DEF Unbusy
<1>3. CASE preview = "RUN"
  BY <1>2, <1>3 DEF PhaseTold
<1>4. CASE preview = "STOP"
  <2>1. SUFFICES Reported(win') <=> Reported(win)
    BY <1>2, <1>4 DEF PhaseTold, Reported
  <2>2. CASE HoldClosesMenu
    BY <1>1, <2>2, OnlyClear, Closed DEF HoldClosesMenu, Reported
  <2>3. CASE HoldOpensMenu
    BY <1>1, <2>3, ShowClear, MenuShown DEF HoldOpensMenu, Reported
  <2>4. CASE HoldOnSpinbox \/ Dismiss
    <3>1. win' = Hide(win) /\ win.dialogs # <<>> /\ Head(win.dialogs).id # "RESULT"
      BY <2>4, OnlyClear DEF HoldOnSpinbox, Dismiss, Focused, HasTop
    <3>2. Hide(win).dialogs = Tail(win.dialogs)
      BY <1>1, <3>1, Hidden
    <3>3. QED BY <1>1, <3>1, <3>2, ReportLeft DEF Reported
  <2>5. CASE CallDialog \/ EndMove \/ LowBattery
    <3>1. PICK id \in Ids \ {"RESULT"} : Show(ShowDialog(win, id), {})
      BY <2>5 DEF CallDialog, EndMove, LowBattery, IrArray, Ids
    <3>2. win'.dialogs = <<Dialog(id)>> \o win.dialogs
      BY <1>1, <3>1, DialogClear
    <3>3. QED BY <1>1, <3>1, <3>2, ReportKept DEF Reported
  <2>6. CASE MoveFocus
    <3>1. PICK w \in Widgets(Head(win.dialogs).id) :
            Show(Only([win EXCEPT !.dialogs[1].widget = w]), {})
      BY <2>6 DEF MoveFocus
    <3>2. win' = [win EXCEPT !.dialogs[1].widget = w] /\ win.dialogs # <<>>
      BY <2>6, <3>1, OnlyClear DEF MoveFocus
    <3>3. /\ Len(win'.dialogs) = Len(win.dialogs)
          /\ \A i \in 1..Len(win.dialogs) : win'.dialogs[i].id = win.dialogs[i].id
      BY <1>1, <3>1, <3>2, MovedFocus
    <3>4. QED BY <3>3 DEF Reported
  <2>7. CASE TogglePaused
    BY <1>4, <2>7 DEF TogglePaused
  <2>8. QED BY <2>2, <2>3, <2>4, <2>5, <2>6, <2>7
<1>5. QED BY <1>2, <1>3, <1>4 DEF PhaseTold

LEMMA SessionStep ==
  ASSUME TypeInv, TypeInv', ScreenInv, ScreenInv', NoneFailed(Confusing)', [Next]_vars
  PROVE  [Session!Next]_Phase
<1>0. PhaseTold /\ PhaseTold'
  BY SessionPhases, SessionPhasesNext
<1>1. win \in Windows /\ win.dialogs \in Seq(Fits)
  BY DEF TypeInv, Windows
<1> DEFINE Go(from, to) == Phase = from /\ Phase' = to
<1>2. /\ Go("browsing", "aligning") \/ Go("aligning", "browsing") => [Session!Next]_Phase
      /\ Go("browsing", "updating") => [Session!Next]_Phase
      /\ Go("updating", "reporting") \/ Go("reporting", "browsing") => [Session!Next]_Phase
  BY DEF Session!Next, Session!Go
<1>3. CASE Boot
  <2>1. /\ busy = "boot" /\ busy' = "idle" /\ preview' = preview /\ win.dialogs = <<>>
        /\ preview = "STOP" /\ Show(ShowMenu(win), {})
    BY <1>3 DEF Boot, ScreenInv, TypeInv
  <2>2. win'.dialogs = <<>>
    BY <1>1, <2>1, ShowClear, MenuShown
  <2>3. Go("browsing", "browsing")
    BY <1>0, <2>1, <2>2 DEF PhaseTold, Reported
  <2>4. QED BY <2>3
<1>4. CASE KeyWithoutMenu \/ DrawStep \/ UNCHANGED vars
  <2>1. UNCHANGED <<win, busy>>
    BY <1>4 DEF KeyWithoutMenu, DrawStep, DrawTestsMenu, DrawUsesMenu, vars
  <2>2. QED BY <2>1 DEF Phase, OnStack
<1>5. CASE HoldClosesMenu
  <2>1. Unbusy
    BY <1>5 DEF HoldClosesMenu, Idle, Unbusy
  <2>2. QED BY <1>5, <2>1, KeysPhase
<1>6. CASE Quiet /\ (HoldOpensMenu \/ HoldOnSpinbox \/ CallDialog \/ MoveFocus \/ Dismiss
                     \/ EndMove \/ LowBattery \/ TogglePaused)
  <2>1. Unbusy
    BY <1>6 DEF Quiet, HoldOpensMenu, HoldOnSpinbox, CallDialog, MoveFocus, Dismiss,
                EndMove, LowBattery, TogglePaused, Idle, Unbusy
  <2>2. QED BY <1>6, <2>1, KeysPhase
<1>7. CASE Quiet /\ DismissResult
  <2>1. /\ win.dialogs # <<>> /\ Head(win.dialogs).id = "RESULT" /\ busy = "idle" /\ busy' = busy
        /\ preview' = preview
    BY <1>7 DEF DismissResult, Focused, HasTop, Idle, Quiet
  <2>2. Reported(win)
    BY <1>1, <2>1, Popped DEF Reported
  <2>3. preview = "STOP"
    BY <1>1, <2>1, AligningTop DEF ScreenInv, TypeInv
  <2>4. Hide(win) \in Windows /\ Absent({"RESULT"}, Hide(win).dialogs)
    BY <1>1, <2>1, <2>3, RestingHide, HiddenAny DEF ScreenInv
  <2>5. ~Reported(win')
    BY <1>7, <2>4, ShowClear, MenuShown DEF DismissResult, Reported, Absent
  <2>6. Go("reporting", "browsing")
    BY <1>0, <2>1, <2>2, <2>3, <2>5 DEF PhaseTold, Reported
  <2>7. QED BY <1>2, <2>6
<1>8. CASE StopCamera
  <2>1. preview = "RUN" /\ preview' = "STOP" /\ busy = "idle" /\ busy' = "idle"
    BY <1>8 DEF StopCamera, Idle
  <2>2. Aligning(win) /\ Head(win.dialogs).id \in {"IRARRAY_START", "IRARRAY_END"}
    BY <1>8, <2>1 DEF ScreenInv, StopCamera, Toggles, Focused, HasTop
  <2>3. Hide(Hide(win)) \in Windows /\ Absent({"RESULT"}, Hide(Hide(win)).dialogs)
    BY <1>1, <2>2, AligningTop, HiddenAny DEF Absent
  <2>4. Show(ShowMenu(Hide(Hide(win))), {})
    BY <1>8, ShowClear DEF StopCamera, Confusing
  <2>5. ~Reported(win')
    BY <2>3, <2>4, ShowClear, MenuShown DEF Reported, Absent
  <2>6. Go("aligning", "browsing")
    BY <1>0, <2>1, <2>5 DEF PhaseTold, Reported
  <2>7. QED BY <1>2, <2>6
<1>9. CASE StartFails
  <2>1. preview = "STOP" /\ preview' = "STOP" /\ busy = "idle" /\ busy' = "idle"
    BY <1>9 DEF StartFails, Idle
  <2>2. win' = Hide(win) /\ win.dialogs # <<>> /\ Head(win.dialogs).id # "RESULT"
    BY <1>9, OnlyClear DEF StartFails, Toggles, Focused, HasTop
  <2>3. Hide(win).dialogs = Tail(win.dialogs)
    BY <1>1, <2>2, Hidden
  <2>4. Reported(win') <=> Reported(win)
    BY <1>1, <2>2, <2>3, ReportLeft DEF Reported
  <2>5. Phase' = Phase
    BY <1>0, <2>1, <2>4 DEF PhaseTold, Reported
  <2>6. QED BY <2>5
<1>10. CASE StartCamera
  <2>1. /\ preview = "STOP" /\ busy = "idle" /\ busy' = "starting" /\ win' = win
        /\ win.dialogs # <<>> /\ Head(win.dialogs).id # "LOW_VOLTAGE"
    BY <1>10, OnlyClear DEF StartCamera, Idle, Toggles, Focused, HasTop
  <2>2. ~Reported(win)
    <3>1. preview' = "RUN"
      BY <1>10 DEF StartCamera
    <3>2. Absent({"MOVE_IR", "IRARRAY_END", "RESULT"}, win.dialogs)'
      BY <2>1, <3>1 DEF ScreenInv
    <3>3. QED BY <2>1, <3>2 DEF Absent, Reported
  <2>3. Go("browsing", "browsing")
    BY <1>0, <2>1, <2>2 DEF PhaseTold, Reported
  <2>4. QED BY <2>3
<1>11. CASE CameraStarted
  <2>1. preview = "RUN" /\ preview' = preview /\ busy = "starting" /\ busy' = "idle"
    BY <1>11 DEF CameraStarted, ScreenInv, TypeInv
  <2>2. Go("browsing", "aligning")
    BY <1>0, <2>1 DEF PhaseTold, Reported
  <2>3. QED BY <1>2, <2>2
<1>12. CASE BeginUpdate
  <2>1. /\ win.dialogs # <<>> /\ Head(win.dialogs).id = "FWUPDATE" /\ busy = "idle"
        /\ busy' = "updating" /\ win' = CloseMenu(Hide(win))
    BY <1>12, OnlyClear DEF BeginUpdate, Focused, HasTop, Idle
  <2>2. preview = "STOP"
    BY <1>1, <2>1, AligningTop DEF ScreenInv, TypeInv
  <2>3. Absent({"RESULT"}, Hide(win).dialogs) /\ Hide(win).dialogs = Tail(win.dialogs)
    BY <1>1, <2>1, <2>2, RestingHide, Hidden DEF ScreenInv
  <2>4. ~Reported(win)
    BY <1>1, <2>1, <2>3, ReportLeft DEF Reported, Absent
  <2>5. Go("browsing", "updating")
    <3>1. Phase = "browsing"
      BY <1>0, <2>1, <2>2, <2>4 DEF PhaseTold, Reported
    <3>2. Phase' = "updating"
      BY <2>1 DEF Phase
    <3>3. QED BY <3>1, <3>2
  <2>6. QED BY <1>2, <2>5
<1>13. CASE EndUpdate
  <2>1. /\ busy = "updating" /\ preview' = preview /\ busy' = "idle"
        /\ Show(ShowDialog(win, "RESULT"), {}) /\ "RESULT" \in Ids
    BY <1>13 DEF EndUpdate, Ids
  <2>2. preview = "STOP"
    BY <2>1 DEF ScreenInv, TypeInv
  <2>3. Reported(win')
    <3>1. win'.dialogs = <<Dialog("RESULT")>> \o win.dialogs
      BY <1>1, <2>1, DialogClear
    <3>2. /\ win'.dialogs[1] = Dialog("RESULT") /\ Len(win'.dialogs) = Len(win.dialogs) + 1
          /\ Len(win.dialogs) \in Nat /\ Dialog("RESULT").id = "RESULT"
      BY <1>1, <2>1, <3>1, DialogFits, Pushed
    <3>3. QED BY <3>2 DEF Reported
  <2>4. Phase = "updating"
    BY <2>1 DEF Phase
  <2>5. Go("updating", "reporting")
    BY <1>0, <2>1, <2>2, <2>3, <2>4 DEF PhaseTold, Reported
  <2>6. QED BY <1>2, <2>5
<1>14. CASE PreviewFails
  BY <1>14 DEF PreviewFails, NoneFailed, Confusing
<1>15. QED BY <1>3, <1>4, <1>5, <1>6, <1>7, <1>8, <1>9, <1>10, <1>11, <1>12, <1>13, <1>14, Steps

(* As long as no dialog, shutter or preview can fail, the GUI is the session of
   GuiSession.tla: an alignment and an update exclude each other, each begins and
   ends in the menu, and an update ends in a report that the operator dismisses.
   The menu and the camera's power may fail: that ends no phase. *)
THEOREM ImplementsSession == ASSUME MayFail \cap Confusing = {} PROVE Spec => SessionSpec
<1>1. Init => Session!Init
  BY DEF Init, Session!Init, Phase, OnStack
<1>2. TypeInv => NoneFailed(Confusing)
  BY DEF TypeInv, NoneFailed
<1>3. TypeInv' => NoneFailed(Confusing)'
  BY DEF TypeInv, NoneFailed
<1>4. TypeInv /\ TypeInv' /\ ClearInv /\ ClearInv' /\ [Next]_vars => [Session!Next]_Phase
  BY <1>2, <1>3, SessionStep DEF ClearInv
<1>5. QED BY <1>1, <1>4, TypeInvHolds, ClearInvHolds, PTL DEF Spec, SessionSpec, Session!Spec

-----------------------------------------------------------------------------
(* The menus.  What is on the lists of the menu and of its submenus, and what
   addItem refused when something is missing there. *)

Entries == Same \cup {"IRSHTR", "COMP_DMC", "IBIT"}
Lists == Seq(Seq(Entries))

LEMMA SubmenusOf ==
  ASSUME NEW m \in Menus
  PROVE  Submenus(m) \in Lists /\ Len(Submenus(m)) \in Nat \ {0}
<1>1. /\ distcorrect \in Seq(Entries) /\ anglecorrect \in Seq(Entries)
      /\ sensorcorrect \in Seq(Entries) /\ irarray \in Seq(Entries)
      /\ fwupdate \in Seq(Entries) /\ irconf \in Seq(Entries)
      /\ target \in Seq(Entries) /\ devconf \in Seq(Entries)
  <2>1. distcorrect \in Seq(Entries)
    BY DEF distcorrect, Entries, Same
  <2>2. anglecorrect \in Seq(Entries)
    BY DEF anglecorrect, Entries, Same
  <2>3. sensorcorrect \in Seq(Entries)
    BY DEF sensorcorrect, Entries, Same
  <2>4. irarray \in Seq(Entries)
    BY DEF irarray, Entries, Same
  <2>5. fwupdate \in Seq(Entries)
    BY DEF fwupdate, Entries, Same
  <2>6. irconf \in Seq(Entries)
    BY DEF irconf, Entries, Same
  <2>7. target \in Seq(Entries)
    BY DEF target, Entries, Same
  <2>8. devconf \in Seq(Entries)
    BY DEF devconf, Entries, Same
  <2>9. QED BY <2>1, <2>2, <2>3, <2>4, <2>5, <2>6, <2>7, <2>8
<1>2. ftmode \in Lists /\ Len(ftmode) = 5
  BY <1>1 DEF ftmode, Lists
<1>3. dvmode \in Lists /\ Len(dvmode) = 2
  BY <1>1 DEF dvmode, Lists
<1>4. irmode \in Lists /\ Len(irmode) = 3
  BY <1>1 DEF irmode, Lists
<1>5. m \in {"ftmode", "dvmode", "irmode"}
  BY MenusAssumption
<1>6. Submenus(m) \in {ftmode, dvmode, irmode}
  BY <1>5 DEF Submenus
<1>7. \A l \in {ftmode, dvmode, irmode} : l \in Lists /\ Len(l) \in {2, 3, 5}
  BY <1>2, <1>3, <1>4
<1>8. Submenus(m) \in Lists /\ Len(Submenus(m)) \in {2, 3, 5}
  BY <1>6, <1>7
<1>9. QED BY <1>8

LEMMA OnRing ==
  ASSUME NEW length \in Nat \ {0}, NEW n \in 1..length
  PROVE  Turns(n, length) \subseteq 1..length
<1>1. \A k \in Nat : k % length \in 0..(length - 1)
  OBVIOUS
<1>2. n + 1 - 1 \in Nat /\ n + length - 1 - 1 \in Nat
  OBVIOUS
<1>3. QED BY <1>1, <1>2 DEF Turns, Ring

Row == [at : Nat, items : Seq(Nat), focus : Nat]

(* Where the building is; a list that is empty has lost all it should hold. *)
BuildInv ==
  /\ next \in Nat \X Nat /\ part \in Seq(Nat)
  /\ Building => /\ next[1] \in DOMAIN Submenus(menu)
                 /\ next[2] \in 0..(Len(SpecOf(next[1])) + 1)
  /\ Building /\ next[2] > 0 /\ part = <<>> =>
       \A j \in 1..(next[2] - 1) : <<next[1], j>> \in refused

MenuLost ==
  /\ Building /\ focus = 0 => \A i \in 1..(next[1] - 1) : <<i, 0>> \in refused
  /\ phase = "shown" /\ focus = 0 => \A i \in DOMAIN Submenus(menu) : <<i, 0>> \in refused

SubmenusLost ==
  \A k \in DOMAIN items :
    /\ items[k].at \in DOMAIN Submenus(menu)
    /\ items[k].focus \in 0..Len(items[k].items)
    /\ items[k].focus = 0 => \A j \in DOMAIN SpecOf(items[k].at) : <<items[k].at, j>> \in refused

MenuTypes ==
  /\ phase \in {"none", "building", "shown", "crashed"} /\ menu \in Menus
  /\ items \in Seq(Row) /\ focus \in 0..Len(items)
  /\ focus = 0 => items = <<>>

MenuInv == MenuTypes /\ BuildInv /\ MenuLost /\ SubmenusLost /\ CrashCause

LEMMA MenuStart == MenuInit => MenuInv
BY DEF MenuInit, MenuInv, MenuTypes, BuildInv, MenuLost, SubmenusLost, CrashCause, Building

LEMMA BeginKeeps == MenuInv /\ Begin => MenuInv'
<1>1. SUFFICES ASSUME MenuInv, Begin PROVE MenuInv'
  OBVIOUS
<1>2. menu' \in Menus /\ Len(Submenus(menu')) \in Nat \ {0} /\ Submenus(menu') \in Lists
  BY <1>1, SubmenusOf DEF Begin
<1>3. 1 \in DOMAIN Submenus(menu') /\ Len(Submenus(menu')[1]) \in Nat
  BY <1>2 DEF Lists
<1>4. QED
  BY <1>1, <1>2, <1>3
     DEF Begin, MenuInv, MenuTypes, BuildInv, MenuLost, SubmenusLost, CrashCause, Building, SpecOf

LEMMA CreateSubmenuKeeps == MenuInv /\ CreateSubmenu => MenuInv'
<1>1. SUFFICES ASSUME MenuInv, CreateSubmenu PROVE MenuInv'
  OBVIOUS
<1>2. Len(SpecOf(next[1])) \in Nat /\ next[1] \in Nat
  BY <1>1, SubmenusOf DEF CreateSubmenu, MenuInv, MenuTypes, BuildInv, SpecOf, Lists
<1>3. MenuTypes' /\ MenuLost' /\ SubmenusLost' /\ CrashCause'
  BY <1>1 DEF CreateSubmenu, MenuInv, MenuTypes, BuildInv, MenuLost, SubmenusLost, CrashCause, Building, SpecOf
<1>4. BuildInv'
  BY <1>1, <1>2 DEF CreateSubmenu, MenuInv, BuildInv, Building, SpecOf
<1>5. QED BY <1>3, <1>4 DEF MenuInv

LEMMA AddSubmenuItemKeeps == MenuInv /\ AddSubmenuItem => MenuInv'
<1>1. SUFFICES ASSUME MenuInv, AddSubmenuItem PROVE MenuInv'
  OBVIOUS
<1>2. /\ Len(SpecOf(next[1])) \in Nat /\ next[1] \in Nat
      /\ next[2] \in 1..Len(SpecOf(next[1])) /\ next = <<next[1], next[2]>>
  <2>1. Submenus(menu) \in Lists /\ next[1] \in DOMAIN Submenus(menu) /\ next \in Nat \X Nat
    BY <1>1, SubmenusOf DEF AddSubmenuItem, MenuInv, MenuTypes, BuildInv
  <2>2. SpecOf(next[1]) \in Seq(Entries)
    BY <2>1 DEF SpecOf, Lists
  <2>3. next[2] \in DOMAIN SpecOf(next[1])
    BY <1>1 DEF AddSubmenuItem
  <2>4. next = <<next[1], next[2]>> /\ next[1] \in Nat
    BY <2>1
  <2>5. QED BY <2>2, <2>3, <2>4
<1>3. refused \subseteq refused'
  BY <1>1 DEF AddSubmenuItem
<1>4. MenuTypes' /\ CrashCause'
  BY <1>1 DEF AddSubmenuItem, MenuInv, MenuTypes, CrashCause, Building
<1>5. MenuLost' /\ SubmenusLost'
  BY <1>1, <1>2, <1>3 DEF AddSubmenuItem, MenuInv, MenuTypes, MenuLost, SubmenusLost, Building, SpecOf
<1>6. /\ next' \in Nat \X Nat /\ part' \in Seq(Nat)
      /\ next'[1] \in DOMAIN Submenus(menu')
      /\ next'[2] \in 0..(Len(SpecOf(next[1])') + 1)
  <2>1. next' = <<next[1], next[2] + 1>> /\ menu' = menu /\ next'[1] = next[1]
    BY <1>1, <1>2 DEF AddSubmenuItem
  <2>2. SpecOf(next[1])' = SpecOf(next[1])
    BY <2>1 DEF SpecOf
  <2>3. part' \in Seq(Nat)
    <3>1. part \in Seq(Nat) /\ next[2] \in Nat
      BY <1>1, <1>2 DEF MenuInv, BuildInv
    <3>2. Append(part, next[2]) \in Seq(Nat)
      BY <3>1
    <3>3. QED BY <1>1, <3>1, <3>2 DEF AddSubmenuItem
  <2>4. next[1] \in DOMAIN Submenus(menu)
    BY <1>1 DEF AddSubmenuItem, MenuInv, BuildInv
  <2>5. next'[2] \in 0..(Len(SpecOf(next[1])) + 1) /\ next' \in Nat \X Nat
    BY <1>2, <2>1
  <2>6. next'[2] \in 0..(Len(SpecOf(next[1])') + 1) /\ next'[1] \in DOMAIN Submenus(menu')
    BY <2>1, <2>2, <2>4, <2>5
  <2>7. QED BY <2>3, <2>5, <2>6
<1>7. ASSUME part' = <<>>, NEW j \in 1..(next'[2] - 1) PROVE <<next'[1], j>> \in refused'
  <2>1. part = <<>> /\ refused' = refused \cup {next}
    <3>1. part \in Seq(Nat) /\ next[2] \in Nat
      BY <1>1, <1>2 DEF MenuInv, BuildInv
    <3>2. Append(part, next[2]) # <<>>
      BY <3>1
    <3>3. QED BY <1>1, <1>7, <3>2 DEF AddSubmenuItem
  <2>2. next'[1] = next[1] /\ next'[2] = next[2] + 1
    BY <1>1, <1>2 DEF AddSubmenuItem
  <2>3. CASE j = next[2]
    BY <1>2, <2>1, <2>2, <2>3
  <2>4. CASE j \in 1..(next[2] - 1)
    BY <1>1, <1>2, <2>1, <2>2, <2>4 DEF AddSubmenuItem, MenuInv, BuildInv
  <2>5. QED BY <1>2, <1>7, <2>2, <2>3, <2>4
<1>8. BuildInv'
  BY <1>1, <1>2, <1>6, <1>7 DEF BuildInv, AddSubmenuItem, Building, SpecOf
<1>9. QED BY <1>4, <1>5, <1>8 DEF MenuInv

LEMMA AddMenuItemKeeps == MenuInv /\ AddMenuItem => MenuInv'
<1>1. SUFFICES ASSUME MenuInv, AddMenuItem PROVE MenuInv'
  OBVIOUS
<1> DEFINE i == next[1]
           row == [at |-> i, items |-> part, focus |-> IF part = <<>> THEN 0 ELSE 1]
           last == i = Len(Submenus(menu))
<1>2. /\ Submenus(menu) \in Lists /\ i \in 1..Len(Submenus(menu)) /\ next[2] \in Nat
      /\ Len(SpecOf(i)) \in Nat /\ next[2] = Len(SpecOf(i)) + 1 /\ Len(Submenus(menu)) \in Nat
  BY <1>1, SubmenusOf DEF AddMenuItem, MenuInv, MenuTypes, BuildInv, SpecOf, Lists
<1>3. refused \subseteq refused' /\ menu' = menu /\ next' = <<i + 1, 0>>
  BY <1>1 DEF AddMenuItem
<1>4. \A n \in 1..Len(Submenus(menu)) : Len(SpecOf(n)) \in Nat
  BY <1>2 DEF SpecOf, Lists
<1>5. BuildInv'
  BY <1>1, <1>2, <1>3, <1>4 DEF AddMenuItem, BuildInv, MenuInv, Building, SpecOf
<1>6. CASE items' = Append(items, row) /\ focus' = 1
  <2>1. /\ row \in Row /\ row.focus \in 0..Len(row.items) /\ row.at = i
        /\ row.focus = 0 => part = <<>>
    BY <1>1, <1>2 DEF Row, MenuInv, BuildInv
  <2>2. items' \in Seq(Row) /\ Len(items') = Len(items) + 1 /\ Len(items) \in Nat
    BY <1>1, <1>6, <2>1 DEF MenuInv, MenuTypes
  <2>3. MenuTypes'
    BY <1>1, <1>6, <2>2 DEF AddMenuItem, MenuInv, MenuTypes
  <2>4. MenuLost' /\ CrashCause'
    BY <1>1, <1>6 DEF AddMenuItem, MenuLost, CrashCause, Building
  <2>5. ASSUME row.focus = 0, NEW j \in DOMAIN SpecOf(i) PROVE <<i, j>> \in refused
    BY <1>1, <1>2, <2>1, <2>5 DEF AddMenuItem, MenuInv, BuildInv, Building
  <2>6. SubmenusLost'
    <3>1. SUFFICES ASSUME NEW k \in 1..Len(items')
                   PROVE  /\ items'[k].at \in DOMAIN Submenus(menu)
                          /\ items'[k].focus \in 0..Len(items'[k].items)
                          /\ items'[k].focus = 0 =>
                               \A j \in DOMAIN SpecOf(items'[k].at) : <<items'[k].at, j>> \in refused
      BY <1>3, <2>2 DEF SubmenusLost, SpecOf
    <3>2. CASE k \in 1..Len(items)
      <4>1. items'[k] = items[k] /\ k \in DOMAIN items
        BY <1>1, <1>6, <2>2, <3>2 DEF MenuInv, MenuTypes
      <4>2. QED BY <1>1, <4>1 DEF MenuInv, SubmenusLost
    <3>3. CASE k = Len(items) + 1
      <4>1. items'[k] = row
        BY <1>1, <1>6, <2>2, <3>3 DEF MenuInv, MenuTypes
      <4>2. QED BY <1>2, <2>1, <2>5, <4>1
    <3>4. QED BY <2>2, <3>2, <3>3
  <2>7. QED BY <1>5, <2>3, <2>4, <2>6 DEF MenuInv
<1>7. CASE refused' = refused \cup {<<i, 0>>} /\ UNCHANGED <<items, focus>>
  <2>1. MenuTypes' /\ CrashCause' /\ SubmenusLost'
    BY <1>1, <1>3, <1>7 DEF AddMenuItem, MenuInv, MenuTypes, CrashCause, SubmenusLost, SpecOf
  <2>2. ASSUME focus = 0, NEW n \in 1..i PROVE <<n, 0>> \in refused'
    <3>1. CASE n = i
      BY <1>7, <3>1
    <3>2. CASE n \in 1..(i - 1)
      BY <1>1, <1>2, <1>7, <2>2, <3>2 DEF AddMenuItem, MenuInv, MenuLost
    <3>3. QED BY <1>2, <2>2, <3>1, <3>2
  <2>3. MenuLost'
    BY <1>1, <1>2, <1>3, <1>7, <2>2 DEF AddMenuItem, MenuLost, Building
  <2>4. QED BY <1>5, <2>1, <2>3 DEF MenuInv
<1>8. QED BY <1>1, <1>6, <1>7 DEF AddMenuItem

LEMMA ClosesKeeps == MenuInv /\ Closes => MenuInv'
BY DEF Closes, MenuInv, MenuTypes, BuildInv, MenuLost, SubmenusLost, CrashCause, Building

(* A key that finds no focus finds a list that lost all its items. *)
LEMMA MenuKeysKeep == MenuInv /\ (MenuKey \/ SubmenuKey \/ Enter) => MenuInv'
<1>1. SUFFICES ASSUME MenuInv, phase = "shown", MenuKey \/ SubmenuKey \/ Enter PROVE MenuInv'
  BY DEF MenuKey, SubmenuKey, Enter
<1>2. CASE Crash /\ focus = 0
  BY <1>1, <1>2 DEF Crash, MenuInv, MenuTypes, BuildInv, MenuLost, SubmenusLost, CrashCause,
                    Building, SpecOf
<1>3. CASE Crash /\ focus # 0 /\ Here.focus = 0
  <2>1. focus \in DOMAIN items
    BY <1>1, <1>3 DEF MenuInv, MenuTypes
  <2>2. /\ Here.at \in DOMAIN Submenus(menu)
        /\ \A j \in DOMAIN SpecOf(Here.at) : <<Here.at, j>> \in refused
    BY <1>1, <1>3, <2>1 DEF MenuInv, SubmenusLost, Here
  <2>3. CrashCause'
    BY <1>3, <2>2 DEF Crash, CrashCause, SpecOf
  <2>4. QED
    BY <1>1, <1>3, <2>3 DEF Crash, MenuInv, MenuTypes, BuildInv, MenuLost, SubmenusLost,
                            Building, SpecOf
<1>4. CASE focus # 0 /\ MenuKey
  <2>1. Len(items) \in Nat \ {0} /\ focus \in 1..Len(items)
    BY <1>1, <1>4 DEF MenuInv, MenuTypes
  <2>2. focus' \in 1..Len(items)
    BY <1>4, <2>1, OnRing DEF MenuKey
  <2>3. QED
    BY <1>1, <1>4, <2>2 DEF MenuKey, MenuInv, MenuTypes, BuildInv, MenuLost, SubmenusLost,
                            CrashCause, Building, SpecOf
<1>5. CASE focus # 0 /\ Here.focus # 0 /\ SubmenuKey
  <2>1. focus \in 1..Len(items) /\ Here \in Row /\ Here.focus \in 1..Len(Here.items)
    <3>1. items \in Seq(Row) /\ focus \in 1..Len(items) /\ focus \in DOMAIN items
      BY <1>1, <1>5 DEF MenuInv, MenuTypes
    <3>2. Here \in Row
      BY <3>1 DEF Here
    <3>3. Here.focus \in 0..Len(Here.items)
      BY <1>1, <3>1 DEF MenuInv, SubmenusLost, Here
    <3>4. QED BY <1>5, <3>1, <3>2, <3>3 DEF Row
  <2>2. PICK n \in Turns(Here.focus, Len(Here.items)) : items' = [items EXCEPT ![focus].focus = n]
    BY <1>5 DEF SubmenuKey
  <2>3. n \in 1..Len(Here.items) /\ n \in Nat
    BY <2>1, OnRing DEF Row
  <2>4. /\ items' \in Seq(Row) /\ Len(items') = Len(items) /\ DOMAIN items' = DOMAIN items
        /\ items'[focus].focus = n /\ items'[focus].at = Here.at /\ items'[focus].items = Here.items
        /\ \A k \in DOMAIN items : k # focus => items'[k] = items[k]
    <3> DEFINE row == [Here EXCEPT !.focus = n]
    <3>1. items' = [items EXCEPT ![focus] = row]
      BY <2>2 DEF Here
    <3>2. row \in Row /\ row.focus = n /\ row.at = Here.at /\ row.items = Here.items
      BY <2>1, <2>3 DEF Row
    <3>3. items \in Seq(Row)
      BY <1>1 DEF MenuInv, MenuTypes
    <3>4. QED BY <2>1, <3>1, <3>2, <3>3
  <2>5. SubmenusLost'
    <3>1. SUFFICES ASSUME NEW k \in DOMAIN items
                   PROVE  /\ items'[k].at \in DOMAIN Submenus(menu)
                          /\ items'[k].focus \in 0..Len(items'[k].items)
                          /\ items'[k].focus = 0 =>
                               \A j \in DOMAIN SpecOf(items'[k].at) : <<items'[k].at, j>> \in refused
      BY <1>1, <1>5, <2>4 DEF SubmenusLost, SpecOf, SubmenuKey
    <3>2. CASE k = focus
      BY <1>1, <2>3, <2>4, <3>2 DEF MenuInv, SubmenusLost, Here
    <3>3. CASE k # focus
      BY <1>1, <2>4, <3>3 DEF MenuInv, SubmenusLost
    <3>4. QED BY <3>2, <3>3
  <2>6. MenuTypes' /\ BuildInv' /\ MenuLost' /\ CrashCause'
    BY <1>1, <1>5, <2>1, <2>4 DEF SubmenuKey, MenuInv, MenuTypes, BuildInv, MenuLost, CrashCause,
                                  Building, SpecOf
  <2>7. QED BY <2>5, <2>6 DEF MenuInv
<1>6. CASE focus # 0 /\ Here.focus # 0 /\ Enter
  BY <1>1, <1>6 DEF Enter, MenuInv, MenuTypes, BuildInv, MenuLost, SubmenusLost, CrashCause,
                    Building, SpecOf
<1>7. QED BY <1>1, <1>2, <1>3, <1>4, <1>5, <1>6 DEF MenuKey, SubmenuKey, Enter

LEMMA MenuStep == MenuInv /\ [MenuNext]_menuVars => MenuInv'
<1>1. SUFFICES ASSUME MenuInv, [MenuNext]_menuVars PROVE MenuInv'
  OBVIOUS
<1>2. CASE SubmenuFails \/ Close
  BY <1>1, <1>2, ClosesKeeps DEF SubmenuFails, Close
<1>3. CASE UNCHANGED menuVars
  BY <1>1, <1>3 DEF menuVars, MenuInv, MenuTypes, BuildInv, MenuLost, SubmenusLost, CrashCause,
                    Building, SpecOf
<1>4. QED
  BY <1>1, <1>2, <1>3, BeginKeeps, CreateSubmenuKeeps, AddSubmenuItemKeeps, AddMenuItemKeeps,
     MenuKeysKeep DEF MenuNext, Crashed

LEMMA MenuKept == MenuSpec => []MenuInv
BY MenuStart, MenuStep, PTL DEF MenuSpec

(* The types of the menu's variables (gui_menu.c, gui_submenu.c). *)
THEOREM MenuTyping == MenuSpec => []MenuTypeOK
<1>1. MenuInv => MenuTypeOK
  BY DEF MenuInv, MenuTypes, SubmenusLost, MenuTypeOK
<1>2. QED BY <1>1, MenuKept, PTL

(* For any set of menus and any number of failed allocations: a key dereferences
   null only when addItem refused every submenu of the menu, or every item of
   one of its submenus (guimgr_process_menu). *)
THEOREM MenuCrashes == MenuSpec => []CrashCause
<1>1. MenuInv => CrashCause
  BY DEF MenuInv
<1>2. QED BY <1>1, MenuKept, PTL
=============================================================================
