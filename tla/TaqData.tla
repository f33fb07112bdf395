------------------------------ MODULE TaqData ------------------------------
(***************************************************************************)
(* core/taqdata_manager.c: a ring of target data, the newest at the head,  *)
(* with a focus, as the target acquisition manager uses it for its buffer. *)
(*                                                                         *)
(* A ring is its data from head to tail and the index of the focus, 0 when *)
(* there is none.                                                          *)
(***************************************************************************)
EXTENDS Naturals, Sequences, SequencesExt

CONSTANT MAXNUM_TAQDATA

(* A square takes three points. *)
ASSUME TaqDataAssumption == MAXNUM_TAQDATA \in Nat \ 0..2

Rings(Data) ==
  {r \in [items : UNION {[1..n -> Data] : n \in 0..MAXNUM_TAQDATA}, focus : 0..MAXNUM_TAQDATA] :
     r.focus <= Len(r.items) /\ (r.focus = 0 <=> r.items = <<>>)}

taqdata_manager_create == [items |-> <<>>, focus |-> 0]

(* taqdata_manager_add_taqdata: a full ring drops its tail. *)
addData(r, data) ==
  LET kept == IF Len(r.items) = MAXNUM_TAQDATA THEN Front(r.items) ELSE r.items
  IN  [items |-> <<data>> \o kept, focus |-> 1]

(* taqdata_manager_remove_taqdata: the focused one; the focus goes to the next at
   the head, to the one before elsewhere. *)
removeData(r) ==
  IF r.items = <<>> THEN r
  ELSE [items |-> RemoveAt(r.items, r.focus),
        focus |-> IF Len(r.items) > 1 /\ r.focus = 1 THEN 1 ELSE r.focus - 1]

setFocus(r, idx) == IF idx < Len(r.items) THEN [r EXCEPT !.focus = idx + 1] ELSE r

(* The caller of getData dereferences what it gets. *)
hasData(r, idx) == idx < Len(r.items)
getData(r, idx) == r.items[idx + 1]

removeNewest(r) == removeData(setFocus(r, 0))

=============================================================================
