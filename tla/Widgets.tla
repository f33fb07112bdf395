------------------------------ MODULE Widgets ------------------------------
(***************************************************************************)
(* What a dialog creator (gui_dialog_creator.c) hands to its dialog.  A    *)
(* plan is the identifier the dialog is created with, the widgets in the   *)
(* order the creator makes and adds them, and the widget it puts the focus *)
(* on after the last one.  The source numbers widgets GUIID_<TYPE>_<NAME>: *)
(* here the pair of type and name is the identifier.  Positions, titles,   *)
(* fonts and the values shown are left out.                                *)
(***************************************************************************)
EXTENDS Sequences

NULL == "NULL"                          \* a button or spin box without callback

\* One creation and addWidget call.
Widget(type, name, callback) ==
    [type |-> type, name |-> name, callback |-> callback]

Button(name, callback)  == Widget("BUTTON", name, callback)
Caption(name)           == Widget("CAPTION", name, NULL)
Spinbox(name)           == Widget("SPINBOX", name, NULL)
Slider(name, callback)  == Widget("SLIDER", name, callback)
Captions(names)         == [i \in DOMAIN names |-> Caption(names[i])]
Spinboxes(names)        == [i \in DOMAIN names |-> Spinbox(names[i])]

Ident(widget) == <<widget.type, widget.name>>

\* A creator that runs to its end; one that gives up after its widgets; and
\* one that returns before it has made anything.
Plan(id, widgets, focus) ==
    [id |-> id, widgets |-> widgets, focus |-> focus, complete |-> TRUE]
GivesUp(id, widgets) ==
    [id |-> id, widgets |-> widgets, focus |-> <<>>, complete |-> FALSE]
NoPlan == GivesUp("none", <<>>)

\* A caption and a CONFIRM button that only closes the dialog.
NoticePlan(id, caption) ==
    Plan(id, <<Caption(caption), Button("CONFIRM", NULL)>>,
         <<"BUTTON", "CONFIRM">>)

\* Two buttons and a caption, the focus on one of the buttons.
ChoicePlan(id, first, second, caption, focus) ==
    Plan(id, <<first, second, Caption(caption)>>, <<"BUTTON", focus>>)

\* The widgets gui_dialog_focus_next_widget and _prev_widget skip.
Unfocusable == {"CAPTION", "GRID", "SVPLOT"}
=============================================================================
