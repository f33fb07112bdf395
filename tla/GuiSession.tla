----------------------------- MODULE GuiSession ------------------------------
(***************************************************************************)
(* What the operator can rely on: aligning the IR image and updating the   *)
(* firmware exclude each other, each is entered from browsing the menu and *)
(* leads back to it, and an update is left through a report that the       *)
(* operator dismisses.  Gui.tla shows that core/guimgr.c implements it as  *)
(* long as no device and no allocation fails.                              *)
(***************************************************************************)

VARIABLE phase

Init == phase = "browsing"

Go(from, to) == phase = from /\ phase' = to

Next ==
  \/ Go("browsing", "aligning")  \/ Go("aligning", "browsing")
  \/ Go("browsing", "updating")
  \/ Go("updating", "reporting") \/ Go("reporting", "browsing")

Spec == Init /\ [][Next]_phase
=============================================================================
