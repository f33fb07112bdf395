------------------------------- MODULE Menus -------------------------------
(***************************************************************************)
(* The main menu and its submenus: how core/guimgr.c builds them from      *)
(* gui/gui_menu.c and gui_submenu.c, what the keys do while the menu has   *)
(* the focus.  Any allocation may fail; of the results only that of a      *)
(* submenu's creation is looked at.  What is freed is left out.            *)
(*                                                                         *)
(* This build shows the factory menu.  The menus of the two observation    *)
(* modes are built by the same code and are here for it.                   *)
(***************************************************************************)
EXTENDS Naturals, Sequences, FiniteSets

CONSTANTS Menus,           \* the menus that may be shown
          MaxFailures      \* bound: allocations that fail for one menu

ASSUME MenusAssumption ==
    Menus \subseteq {"ftmode", "dvmode", "irmode"} /\ MaxFailures \in Nat

\* The items of the submenus.
distcorrect   == <<"SHORTDIST", "MIDDIST", "LONGDIST", "DISTCHECK">>
anglecorrect  == <<"AZM", "ALTT", "ANGLECHECK">>
sensorcorrect == <<"SENSOR", "SENSORCHECK">>
irarray       == <<"IRARRAY", "IRSCALEINPUT", "IRCHECK">>
fwupdate      == <<"FWUPDATE", "INIT">>
irconf        == <<"IREIS", "IRCLR", "IRGLV", "IRHEQ", "IRSHTR">>
target        == <<"TARGET_LIST", "XMIT_OBLOC", "COMP_DMC", "INPUT_GRIDVAR",
                   "INPUT_OBLOC", "INPUT_RANGE", "GNSS_STATUS">>
devconf       == <<"SET_COORDSYS", "TIME_CONFIG", "EXTERN_VOUT", "XMIT_DATA",
                   "DMIF_TEST", "IBIT", "SLEEP", "SYSTEM_INFO">>

\* The submenus of a menu, in its order.
ftmode == <<distcorrect, anglecorrect, sensorcorrect, irarray, fwupdate>>
dvmode == <<target, devconf>>
irmode == <<irconf, target, devconf>>
Submenus(menu) ==
    CASE menu = "ftmode" -> ftmode [] menu = "dvmode" -> dvmode [] OTHER -> irmode

\* The dialog of an item: its own name, but for three.
Renamed == [IRSHTR |-> "SELECT_SHUTTER", COMP_DMC |-> "ENTER_MAGCOMPMODE",
            IBIT |-> "EXEC_BIT"]
Same ==
    {"IREIS", "IRCLR", "IRGLV", "IRHEQ", "TARGET_LIST", "XMIT_OBLOC",
     "INPUT_GRIDVAR", "INPUT_OBLOC", "INPUT_RANGE", "GNSS_STATUS", "SET_COORDSYS",
     "TIME_CONFIG", "EXTERN_VOUT", "DMIF_TEST", "SLEEP", "SYSTEM_INFO", "XMIT_DATA",
     "SHORTDIST", "MIDDIST", "LONGDIST", "DISTCHECK", "AZM", "ALTT", "ANGLECHECK",
     "SENSOR", "SENSORCHECK", "IRARRAY", "IRSCALEINPUT", "IRCHECK", "FWUPDATE", "INIT"}
guiid_table ==
    [i \in Same \cup DOMAIN Renamed |-> IF i \in Same THEN i ELSE Renamed[i]]

VARIABLES
    phase,      \* "none", "building", "shown", or "crashed" on a null focus
    menu,       \* which menu it is
    next,       \* the submenu and item to add next: <<i, j>>
    part,       \* the submenu being built: the items on its list
    items,      \* the menu's list: [at, items, focus], a submenu each
    focus,      \* the focused menu item, 0 for NULL
    refused,    \* history: <<i, j>> for the items addItem refused
    asked       \* the dialog the last key asked for, "none" or "unknown"

menuVars == <<phase, menu, next, part, items, focus, refused, asked>>

MenuInit ==
    /\ phase = "none" /\ menu \in Menus /\ next = <<1, 0>>
    /\ part = <<>> /\ items = <<>> /\ focus = 0
    /\ refused = {} /\ asked = "none"

-----------------------------------------------------------------------------
\* Building: guimgr_show_menu(true).

SpecOf(i) == Submenus(menu)[i]

Begin ==
    /\ phase = "none"
    /\ menu' \in Menus
    /\ phase' = "building" /\ next' = <<1, 0>>
    /\ refused' = {} /\ items' = <<>> /\ focus' = 0
    /\ UNCHANGED <<part, asked>>

Building  == phase = "building"
MayRefuse == Cardinality(refused) < MaxFailures

CreateSubmenu ==
    /\ Building /\ next[2] = 0
    /\ next' = <<next[1], 1>>
    /\ part' = <<>>
    /\ UNCHANGED <<phase, menu, items, focus, refused, asked>>

\* addItem of the submenu; a refused item is freed and nobody is told.
AddSubmenuItem ==
    /\ Building /\ next[2] \in DOMAIN SpecOf(next[1])
    /\ next' = <<next[1], next[2] + 1>>
    /\ \/ /\ part' = Append(part, next[2])
          /\ UNCHANGED refused
       \/ /\ MayRefuse
          /\ refused' = refused \cup {next}
          /\ UNCHANGED part
    /\ UNCHANGED <<phase, menu, items, focus, asked>>

\* addItem of the menu; a refused item leaves its submenu to nobody.
AddMenuItem ==
    /\ Building /\ next[2] > Len(SpecOf(next[1]))
    /\ \/ /\ items' = Append(items, [at |-> next[1], items |-> part,
                                     focus |-> IF part = <<>> THEN 0 ELSE 1])
          /\ focus' = 1
          /\ UNCHANGED refused
       \/ /\ MayRefuse
          /\ refused' = refused \cup {<<next[1], 0>>}
          /\ UNCHANGED <<items, focus>>
    /\ part' = <<>>
    /\ next' = <<next[1] + 1, 0>>
    /\ phase' = IF next[1] = Len(Submenus(menu)) THEN "shown" ELSE "building"
    /\ UNCHANGED <<menu, asked>>

\* gui_menu_destroy.
Closes ==
    /\ phase' = "none" /\ items' = <<>> /\ focus' = 0 /\ part' = <<>>
    /\ asked' = "none"
    /\ UNCHANGED <<menu, next, refused>>

\* No submenu, no menu.
SubmenuFails == Building /\ next[2] = 0 /\ MayRefuse /\ Closes

-----------------------------------------------------------------------------
\* Keys on the menu: guimgr_process_menu.

Ring(n, length) == ((n - 1) % length) + 1
Here      == items[focus]
(* Mutant: the places are counted from 0. *)
TurnsFromZero(n, length) == {n % length, (n + length - 2) % length}
Turns(n, length) == {Ring(n + 1, length), Ring(n + length - 1, length)}

\* getFocus of a menu or submenu without items: a null dereference.
Crash ==
    /\ phase' = "crashed"
    /\ UNCHANGED <<menu, next, part, items, focus, refused, asked>>

\* LEFT and RIGHT.
MenuKey ==
    /\ phase = "shown"
    /\ IF focus = 0 THEN Crash
       ELSE /\ focus' \in Turns(focus, Len(items))
            /\ asked' = "none"
            /\ UNCHANGED <<phase, menu, next, part, items, refused>>

\* UP and DOWN.
SubmenuKey ==
    /\ phase = "shown"
    /\ IF focus = 0 THEN Crash
       ELSE IF Here.focus = 0 THEN Crash
       ELSE /\ \E n \in Turns(Here.focus, Len(Here.items)) :
                 items' = [items EXCEPT ![focus].focus = n]
            /\ asked' = "none"
            /\ UNCHANGED <<phase, menu, next, part, focus, refused>>

\* ENTER: guimgr_call_submenu_dialog.
Chosen == SpecOf(Here.at)[Here.items[Here.focus]]
Enter ==
    /\ phase = "shown"
    /\ IF focus = 0 THEN Crash
       ELSE IF Here.focus = 0 THEN Crash
       ELSE /\ asked' = IF Chosen \in DOMAIN guiid_table THEN guiid_table[Chosen]
                        ELSE "unknown"
            /\ UNCHANGED <<phase, menu, next, part, items, focus, refused>>

\* ENTER held, or a dialog that works without the menu: guimgr_show_menu(false).
Close == phase = "shown" /\ Closes

Crashed == phase = "crashed" /\ UNCHANGED menuVars

MenuNext == Begin \/ CreateSubmenu \/ AddSubmenuItem \/ AddMenuItem \/ SubmenuFails
        \/ MenuKey \/ SubmenuKey \/ Enter \/ Close \/ Crashed
MenuSpec == MenuInit /\ [][MenuNext]_menuVars

-----------------------------------------------------------------------------
\* The types of the variables.
MenuTypeOK ==
    /\ phase \in {"none", "building", "shown", "crashed"}
    /\ menu \in Menus
    /\ focus \in 0..Len(items)
    /\ \A k \in DOMAIN items :
         items[k].focus \in 0..Len(items[k].items) /\ items[k].at \in DOMAIN Submenus(menu)

\* The results of addItem are ignored: a menu lacks the items that could not be
\* added and works without them.  A key dereferences null only when a submenu,
\* or the menu, lost every one of its items.
CrashCause ==
    phase = "crashed" =>
        \/ \A i \in DOMAIN Submenus(menu) : <<i, 0>> \in refused
        \/ \E i \in DOMAIN Submenus(menu) : \A j \in DOMAIN SpecOf(i) : <<i, j>> \in refused

=============================================================================
