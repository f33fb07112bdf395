------------------------------ MODULE Dialogs ------------------------------
(***************************************************************************)
(* The life of one dialog: showDialog finds its creator in a table         *)
(* (core/guimgr.c), the creator allocates it and adds its widgets one by   *)
(* one (gui_dialog_creator.c), the keys move the focus and run callbacks   *)
(* (guimgr.c), and the dialog is destroyed with its widgets                *)
(* (gui_dialog.c, list.c).  Any allocation may fail; the creators test the *)
(* widget they make but never the result of addWidget.                     *)
(*                                                                         *)
(* Gui.tla has the stack the dialogs lie on and what the buttons start.    *)
(***************************************************************************)
EXTENDS NoticePlans, FactoryPlans, ObservePlans, Callbacks, Naturals, FiniteSets

CONSTANTS MaxFailures      \* bound: allocations that fail for one dialog

ASSUME DialogsAssumption == MaxFailures \in Nat

Colours      == {"MONO", "SEPIA", "SPECTRUM", "ISOTHERM"}
CoordSystems == {"GEODETIC", "UTM", "MGRS"}

\* The creator of every dialog: the plans it may come to.
dialog_table ==
  [OBMODE |-> {obmode}, ADJUST |-> {display_adjust(r) : r \in BOOLEAN},
   IREIS |-> {ireis(e) : e \in BOOLEAN}, IRCLR |-> {irclr(k) : k \in Colours},
   IRGLV |-> {irglv}, IRHEQ |-> {irheq(h) : h \in BOOLEAN},
   TARGET_LIST |-> {target_list},
   XMIT_OBLOC |-> {xmit_obloc(u, o) : u, o \in BOOLEAN},
   INPUT_GRIDVAR |-> {input_gridvar}, INPUT_OBLOC |-> {input_obloc},
   INPUT_RANGE |-> {input_range}, GNSS_STATUS |-> {gnss_status},
   SET_COORDSYS |-> {coordsys_selection(s) : s \in CoordSystems},
   TIME_CONFIG |-> {timeset(tm) : tm \in BOOLEAN}, EXTERN_VOUT |-> {evout},
   DMIF_TEST |-> {dmif_test}, SLEEP |-> {standby_mode},
   SYSTEM_INFO |-> {system_info}, TAQSEL |-> {taqsel},
   INVALID_OBLOC |-> {invalid_obloc}, USER_OBLOC |-> {user_obloc},
   AUTO_OBLOC |-> {auto_obloc}, INVALID_RANGE |-> {invalid_range},
   USER_RANGE |-> {user_range}, AUTO_RANGE |-> {auto_range},
   INVALID_GRIDVAR |-> {invalid_gridvar}, USER_GRIDVAR |-> {user_gridvar},
   AUTO_GRIDVAR |-> {auto_gridvar}, ERROR_ANGLE_LIMIT |-> {angle_error},
   ERROR_LRF_CTRL |-> {lrfctrl_error}, ERROR_SHTR_CTRL |-> {shtrctrl_error},
   ERROR_DISP_CTRL |-> {dispctrl_error},
   ERROR_IRCAM_CTRL |-> {ircamctrl_error},
   ERROR_IRCAM_POWER |-> {ircampwr_error},
   ERROR_EVOUT_CTRL |-> {evoutctrl_error}, UNKNOWN_ERROR |-> {unknown_error},
   ENTER_MAGCOMPMODE |-> {enter_magcompmode(k) : k \in BOOLEAN},
   EXIT_MAGCOMPMODE |-> {exit_magcompmode}, RETRY_MAGCOMP |-> {retry_magcomp},
   APPLY_MAGPARM |-> {apply_magparm}, MAGCOMP_OK |-> {success_magcomp},
   MAGCOMP_ERRFOM |-> {magcomp_errfom}, MAGCOMP_ERRCALC |-> {magcomp_errcalc},
   MAGCOMP_ERRDAQ |-> {magcomp_errdaq}, MAGCOMP_ERRINIT |-> {magcomp_initerr},
   XMIT_TALOC |-> {xmit_taloc}, SELECT_XMITINFO |-> {select_xmitifno},
   ERROR_ZERO_RANGE |-> {error_zero_range},
   ERROR_TARGET_SHIFT |-> {error_target_shift},
   ERROR_TARGET_SIZE |-> {error_target_size},
   ERROR_GEODCALC |-> {error_geodcalc},
   ERROR_DMC_OFFLINE |-> {error_dmc_offline},
   ERROR_GNSS_OFFLINE |-> {error_gnss_offline}, ERROR_TAQ |-> {error_taq},
   SUCCESS_XMIT |-> {success_xmit}, SUCCESS_DMIF_TEST |-> {success_dmif_test},
   ERROR_TIMEOUT |-> {timeout}, ERROR_NACK_CANPRO2 |-> {nack_cantpro2},
   ERROR_NACK_CANPRO15 |-> {nack_cantpro15},
   ERROR_NACK_CANPRO19 |-> {nack_cantpro19},
   ERROR_NACK_CANPRO25 |-> {nack_cantpro25},
   TERMTAQ |-> {termtaq(p) : p \in BOOLEAN},
   ERROR_GRIDVAR |-> {error_gridvar}, LOW_VOLTAGE |-> {low_voltage},
   XMIT_DATA |-> {auto_xmit(k) : k \in BOOLEAN}, BIT_PASS |-> {bit_pass},
   BIT_FAIL |-> {bit_fail}, EXEC_BIT |-> {exec_bit},
   SELECT_SHUTTER |-> {select_shutter(k) : k \in BOOLEAN},
   COVER_IRLENS |-> {cover_irlens}, DELETE_TARGET |-> {delete_target},
   TARGET_DETAIL |-> {target_detail},
   SELECT_XMITINFO_TLIST |-> {select_xmitifno_at_list},
   XMIT_TALOC_TLIST |-> {xmit_taloc_at_list},
   SHORTDIST |-> {short_distance_correct},
   MIDDIST |-> {middle_distance_correct},
   LONGDIST |-> {long_distance_correct},
   DISTCHECK |-> {distance_correct_check}, AZM |-> {azimuth_correct},
   ALTT |-> {altitude_correct}, ANGLECHECK |-> {angle_correct_check},
   SENSOR |-> {sensor_correct}, SENSORCHECK |-> {sensor_correct_check},
   IRARRAY |-> {ir_array(r) : r \in BOOLEAN}, IRCHECK |-> {ir_array_check},
   FWUPDATE |-> {firmware_update}, INIT |-> {correct_init},
   IRSCALEINPUT |-> {ir_scale_input}, MOVE_IR |-> {ir_move},
   NOFILE |-> {fwupdate_nofile}, SUCCESS_FWUPDATE |-> {fwupdate_success},
   FAIL_FWUPDATE |-> {fwupdate_fail}, NOSDCARD |-> {fwupdate_nosdcard}]

VARIABLES
    asked,      \* the dialog showDialog was asked for, or "none"
    phase,      \* "idle", "building", "open" or "hung"
    plan,       \* the plan its creator follows
    made,       \* widgets of the plan made so far
    list,       \* widgetList: the places in the plan of the widgets on it
    focus,      \* the place on the list of the focused widget, 0 for NULL
    heap,       \* places of the plan made and not freed, 0 the dialog
    dropped     \* history: places whose addWidget failed

dialogVars == <<asked, phase, plan, made, list, focus, heap, dropped>>

DialogInit ==
    /\ asked = "none" /\ phase = "idle"
    /\ plan = NoPlan /\ made = 0
    /\ list = <<>> /\ focus = 0
    /\ heap = {} /\ dropped = {}

-----------------------------------------------------------------------------
\* Helpers of gui_dialog.c.

Positions == 1..Len(list)
At(k)     == plan.widgets[list[k]]          \* the k-th widget on the list
Focused   == At(focus)
Has(type, name) == \E k \in Positions : Ident(At(k)) = <<type, name>>

\* focusNext and focusPrev: round the ring, past what cannot have the focus.
Ring(n)   == ((n - 1) % Len(list)) + 1
Turn(Place(_)) ==
    LET may == {d \in Positions : At(Place(d)).type \notin Unfocusable}
    IN  Place(CHOOSE d \in may : \A e \in may : d <= e)
focusNext == Turn(LAMBDA d : Ring(focus + d))
focusPrev == Turn(LAMBDA d : Ring(focus + Len(list) - d))

(* Mutant: the focus is left where addWidget put it. *)
setFocusOnHead(ident) == IF list = <<>> THEN 0 ELSE 1
\* setFocus: the first widget with the identifier; without one, no change.
setFocus(ident) ==
    LET found == {k \in Positions : Ident(At(k)) = ident}
    IN  IF found = {} THEN focus ELSE CHOOSE k \in found : \A j \in found : k <= j

(* Mutant: the case of the spin box is missing. *)
FreedButSpinboxes == {"BUTTON", "CAPTION", "QSEL", "SLIDER", "SVPLOT"}
Freed == {"BUTTON", "CAPTION", "QSEL", "SLIDER", "SPINBOX", "SVPLOT"}

\* What gui_dialog_remove_widgets frees of the widgets on the list.
remove_widgets == {list[k] : k \in {j \in Positions : At(j).type \in Freed}}

-----------------------------------------------------------------------------
\* Building.

\* A menu item or an event asks for a dialog; the one before is forgotten.
Ask(id) ==
    /\ phase = "idle" /\ asked = "none"
    /\ asked' = id
    /\ plan' = NoPlan /\ made' = 0 /\ heap' = {} /\ dropped' = {}
    /\ UNCHANGED <<phase, list, focus>>

\* gui_dialog_create, once the creator has looked at what it shows.
Create ==
    /\ phase = "idle" /\ asked # "none"
    /\ \E p \in dialog_table[asked] :
         IF p = NoPlan
           THEN asked' = "none" /\ UNCHANGED <<phase, plan, made, heap, dropped>>
           ELSE /\ phase' = "building" /\ plan' = p /\ UNCHANGED asked
                /\ made' = 0 /\ heap' = {0} /\ dropped' = {}
    /\ UNCHANGED <<list, focus>>

\* The dialog or its list cannot be allocated.
CreateFails ==
    /\ phase = "idle" /\ asked # "none" /\ MaxFailures > 0
    /\ asked' = "none"
    /\ UNCHANGED <<phase, plan, made, list, focus, heap, dropped>>

Building == phase = "building" /\ made < Len(plan.widgets)

\* addWidget puts the focus back on the head of the list.
AddWidget ==
    /\ Building
    /\ made' = made + 1
    /\ heap' = heap \cup {made'}
    /\ list' = Append(list, made')
    /\ focus' = 1
    /\ UNCHANGED <<asked, phase, plan, dropped>>

\* The list takes no more: the widget is made, and nobody has it.
AddFails ==
    /\ Building
    /\ Cardinality(dropped) < MaxFailures
    /\ made' = made + 1
    /\ heap' = heap \cup {made'}
    /\ dropped' = dropped \cup {made'}
    /\ UNCHANGED <<asked, phase, plan, list, focus>>

\* gui_dialog_destroy.
Destroyed ==
    /\ phase' = "idle"
    /\ heap' = heap \ ({0} \cup remove_widgets)
    /\ list' = <<>> /\ focus' = 0
    /\ UNCHANGED <<plan, made, dropped>>

\* A widget cannot be made, or a row of the grid, which is made by then and on
\* no list: the creator destroys the dialog.
WidgetFails ==
    /\ Building
    /\ Cardinality(dropped) < MaxFailures
    /\ \/ Destroyed
       \/ /\ plan.widgets[made + 1].type = "GRID"
          /\ phase' = "idle"
          /\ heap' = (heap \ ({0} \cup remove_widgets)) \cup {made + 1}
          /\ list' = <<>> /\ focus' = 0
          /\ UNCHANGED <<plan, made, dropped>>
    /\ asked' = "none"

\* The creator is done: it sets the focus and the dialog is pushed.
Show ==
    /\ phase = "building" /\ made = Len(plan.widgets) /\ plan.complete
    /\ focus' = setFocus(plan.focus)
    /\ phase' = "open"
    /\ UNCHANGED <<asked, plan, made, list, heap, dropped>>

GiveUp ==
    /\ phase = "building" /\ made = Len(plan.widgets) /\ ~plan.complete
    /\ Destroyed /\ asked' = "none"

-----------------------------------------------------------------------------
\* Keys: guimgr_process_dialog.

Attends  == focus # 0 /\ Focused.type \notin Unfocusable
On(type) == phase = "open" /\ focus # 0 /\ Focused.type = type

\* The dialog is hidden and `next` shown in its place.
Replace(next) == Destroyed /\ asked' = next
Hide == Replace("none")

\* findWidget never ends when it does not find: its loop has no bound.
Spin == phase' = "hung" /\ UNCHANGED <<asked, plan, made, list, focus, heap, dropped>>
Missing(callback) ==
    \E i \in DOMAIN Reads(callback) : ~Has("SPINBOX", Reads(callback)[i])

\* LEFT and RIGHT on a button or spin box, UP and DOWN on a slider.
MoveFocus ==
    /\ On("BUTTON") \/ On("SPINBOX") \/ On("SLIDER")
    /\ focus' \in {focusNext, focusPrev}
    /\ UNCHANGED <<asked, phase, plan, made, list, heap, dropped>>

\* UP and DOWN on a button are for the rows of the target list: what
\* move_focus returns there is taken for the result of the button.
MoveRow ==
    /\ On("BUTTON") /\ plan.id = "TARGET_LIST"
    /\ IF Has("GRID", "TARGET_LIST") THEN Hide ELSE Spin

\* What may be shown after ENTER on the focused button: guimgr_post_process_button.
AfterButton ==
    CASE plan.id = "OBMODE"  -> {"none", "ERROR_IRCAM_POWER", "ERROR_SHTR_CTRL"}
      [] plan.id = "IRARRAY" -> {"none", "MOVE_IR"}
      [] plan.id = "FWUPDATE" /\ Focused.name = "YES"
                             -> {"NOFILE", "SUCCESS_FWUPDATE", "FAIL_FWUPDATE", "NOSDCARD"}
      [] OTHER               -> {"none"}

PressButton ==
    /\ On("BUTTON")
    /\ IF Missing(Focused.callback) THEN Spin
       ELSE \E next \in AfterButton : Replace(next)

\* ENTER held on a button, in observation mode only.
HoldButton == On("BUTTON") /\ Hide

\* LEFT and RIGHT on a slider: the device may refuse.
SlideFails ==
    /\ On("SLIDER") /\ plan.id \in {"ADJUST", "IRGLV"}
    /\ \E next \in {"ERROR_IRCAM_CTRL", "ERROR_DISP_CTRL"} : Replace(next)

\* ENTER, short or long, on a slider; ENTER held on a spin box.
CloseSlider  == On("SLIDER") /\ Hide
CloseSpinbox == On("SPINBOX") /\ Hide

\* UP and DOWN on a spin box change it and run its callback.
ChangeValue ==
    /\ On("SPINBOX")
    /\ IF Missing(Focused.callback) THEN Spin ELSE UNCHANGED dialogVars

\* A key of the quick selection: its callback decides; the dialog that moves
\* the IR image stays.
Select ==
    /\ On("QSEL")
    /\ \/ UNCHANGED dialogVars
       \/ plan.id = "TAQSEL" /\ Hide

\* Keys for a widget that takes none, or for none.
IgnoreKey ==
    /\ phase = "open"
    /\ ~Attends
    /\ UNCHANGED dialogVars

KeepSpinning == phase = "hung" /\ UNCHANGED dialogVars

-----------------------------------------------------------------------------
Build == Create \/ CreateFails \/ AddWidget \/ AddFails \/ WidgetFails
         \/ Show \/ GiveUp
Key   == MoveFocus \/ MoveRow \/ PressButton \/ HoldButton \/ SlideFails
         \/ CloseSlider \/ CloseSpinbox \/ ChangeValue \/ Select \/ IgnoreKey
DialogNext == (\E id \in DOMAIN dialog_table : Ask(id)) \/ Build \/ Key \/ KeepSpinning
DialogSpec == DialogInit /\ [][DialogNext]_dialogVars

-----------------------------------------------------------------------------
Places == 0..Len(plan.widgets)

\* The types of the variables.
DialogTypeOK ==
    /\ asked \in DOMAIN dialog_table \cup {"none"}
    /\ phase \in {"idle", "building", "open", "hung"}
    /\ made \in Places /\ heap \subseteq Places /\ dropped \subseteq Places
    /\ \A k \in Positions : list[k] \in Places \ {0}
    /\ focus \in 0..Len(list)

Lost(ident) == \E i \in dropped : Ident(plan.widgets[i]) = ident

\* A callback looks for widgets by number in a dialog built elsewhere, and a
\* number that is not there means a GUI thread that never comes back
\* (gui_dialog_find_widget).  It happens only after an addWidget that failed
\* unnoticed: every number a callback looks for is one the creator used.
HangCause ==
    phase = "hung" => \E i \in dropped : plan.widgets[i].type \in {"SPINBOX", "GRID"}

\* A dialog whose focus is on a caption ignores every key and cannot be closed.
\* addWidget moves the focus to the head of the list, a caption as often as
\* not, and only setFocus after the last one moves it off: a deaf dialog has
\* lost the widget that was to have the focus, or all that could.
DeafCause ==
    phase = "open" /\ ~Attends =>
        \/ Lost(plan.focus)
        \/ \A i \in DOMAIN plan.widgets :
             plan.widgets[i].type \notin Unfocusable => i \in dropped

\* When a dialog is gone, closed or given up half built, so is what was made
\* for it, but for the grid, which remove_widgets passes over, and the widgets
\* addWidget refused.
NothingLeaks ==
    phase = "idle" => \A i \in heap :
        i \in dropped \/ (i # 0 /\ plan.widgets[i].type = "GRID")
=============================================================================
