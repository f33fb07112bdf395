----------------------------- MODULE SdCard_proofs -----------------------------
(***************************************************************************)
(* Theorems about SdCard for any cards and bounds: the types, the flags    *)
(* against the kernel's mount table, and how long a dead mount may last.   *)
(***************************************************************************)
EXTENDS SdCard, SequenceTheorems, TLAPS

USE SdCardAssumption

Removals(q) == \E i \in 1..Len(q) : q[i] = "remove"

(* An event that is appended keeps the removals of the queue and may add one. *)
LEMMA AppendRemoval ==
  ASSUME NEW q \in Seq({"add", "remove"}), NEW e \in {"add", "remove"}
  PROVE  /\ Append(q, e) \in Seq({"add", "remove"})
         /\ Removals(q) => Removals(Append(q, e))
         /\ e = "remove" => Removals(Append(q, e))
<1>1. /\ Append(q, e) \in Seq({"add", "remove"})
      /\ Len(Append(q, e)) = Len(q) + 1
      /\ \A i \in 1..Len(q) : Append(q, e)[i] = q[i]
      /\ Append(q, e)[Len(q) + 1] = e
  BY AppendProperties
<1>2. Len(q) \in Nat
  BY LenProperties
<1>3. ASSUME Removals(q) PROVE Removals(Append(q, e))
  <2>1. PICK i \in 1..Len(q) : q[i] = "remove"
    BY <1>3 DEF Removals
  <2>2. i \in 1..Len(Append(q, e)) /\ Append(q, e)[i] = "remove"
    BY <1>1, <1>2, <2>1
  <2>3. QED BY <2>2 DEF Removals
<1>4. ASSUME e = "remove" PROVE Removals(Append(q, e))
  <2>1. Len(q) + 1 \in 1..Len(Append(q, e))
    BY <1>1, <1>2
  <2>2. QED BY <1>1, <1>4, <2>1 DEF Removals
<1>5. QED BY <1>1, <1>3, <1>4

(* A removal in the queue is taken next or stays in the queue. *)
LEMMA TakeRemoval ==
  ASSUME NEW q \in Seq({"add", "remove"}), q # <<>>
  PROVE  /\ Head(q) \in {"add", "remove"} /\ Tail(q) \in Seq({"add", "remove"})
         /\ Removals(q) => Head(q) = "remove" \/ Removals(Tail(q))
<1>1. /\ Head(q) \in {"add", "remove"}
      /\ Tail(q) \in Seq({"add", "remove"})
      /\ Len(Tail(q)) = Len(q) - 1
      /\ \A i \in 1..Len(Tail(q)) : Tail(q)[i] = q[i + 1]
      /\ Head(q) = q[1]
  BY HeadTailProperties
<1>2. ASSUME NEW i \in 1..Len(q), q[i] = "remove", i # 1 PROVE Removals(Tail(q))
  <2>1. i - 1 \in 1..Len(Tail(q)) /\ Tail(q)[i - 1] = q[(i - 1) + 1]
    BY <1>1, <1>2, LenProperties
  <2>2. Tail(q)[i - 1] = "remove"
    BY <1>2, <2>1
  <2>3. QED BY <2>1, <2>2 DEF Removals
<1>3. QED BY <1>1, <1>2 DEF Removals

-----------------------------------------------------------------------------
(* Before sdcard_create has looked, nothing is mounted. *)
CardInv ==
  /\ TypeOK
  /\ FlagMatchesKernel
  /\ StaleMountEnds
  /\ caller = "check" => ~mount

LEMMA CardInvInit == Init => CardInv
<1> SUFFICES ASSUME Init PROVE CardInv
  OBVIOUS
<1>1. uevents \in Seq({"add", "remove"}) /\ changes \in 0..MaxChanges /\ faults \in 0..MaxFaults
  BY EmptySeq DEF Init
<1>2. TypeOK
  BY <1>1 DEF Init, TypeOK
<1>3. mount = FALSE /\ volume = NoCard
  BY DEF Init
<1>4. QED BY <1>2, <1>3 DEF CardInv, FlagMatchesKernel, StaleMountEnds

(* sdcard_check_insertion only ever sets its flag. *)
LEMMA Checking ==
  ASSUME TypeOK, Found \/ NotFound
  PROVE  /\ insertion' \in BOOLEAN /\ (insertion => insertion')
         /\ faults' \in 0..MaxFaults /\ faults' >= faults
<1>1. faults' \in 0..MaxFaults /\ faults' >= faults
  BY DEF TypeOK, Found, NotFound, Fault
<1>2. CASE insertion' = TRUE
  BY <1>1, <1>2
<1>3. CASE insertion' = insertion
  BY <1>1, <1>3 DEF TypeOK
<1>4. QED BY <1>2, <1>3 DEF Found, NotFound

(* What a call of sdcard_mount may change, and what it keeps true. *)
LEMMA Mounting ==
  ASSUME TypeOK, FlagMatchesKernel, MountVolume
  PROVE  /\ volume' \in Cards \cup {NoCard} /\ mount' \in BOOLEAN
         /\ faults' \in 0..MaxFaults /\ faults' >= faults
         /\ mount' <=> volume' # NoCard
         /\ mount' => insertion
         /\ mount' /\ volume' # slot => mount /\ volume # slot
<1>1. CASE /\ insertion /\ ~mount /\ slot # NoCard
           /\ mount' = TRUE /\ volume' = slot /\ faults' = faults
  BY <1>1 DEF TypeOK
<1>2. CASE mount' = mount /\ volume' = volume /\ (faults' = faults \/ Fault)
  <2>1. faults' \in 0..MaxFaults /\ faults' >= faults
    BY <1>2 DEF TypeOK, Fault
  <2>2. QED BY <1>2, <2>1 DEF TypeOK, FlagMatchesKernel
<1>3. QED BY <1>1, <1>2 DEF MountVolume

(* The same for sdcard_unmount. *)
LEMMA Unmounting ==
  ASSUME TypeOK, FlagMatchesKernel, UnmountVolume
  PROVE  /\ volume' \in Cards \cup {NoCard} /\ mount' \in BOOLEAN
         /\ faults' \in 0..MaxFaults /\ faults' >= faults
         /\ mount' <=> volume' # NoCard
         /\ mount' => insertion
         /\ mount' => mount /\ volume' = volume /\ faults' > 0
<1>1. CASE mount /\ mount' = FALSE /\ volume' = NoCard /\ faults' = faults
  <2>1. ~mount' /\ mount' \in BOOLEAN
    BY <1>1
  <2>2. faults' \in 0..MaxFaults /\ faults' >= faults
    BY <1>1 DEF TypeOK
  <2>3. QED BY <1>1, <2>1, <2>2
<1>2. CASE mount' = mount /\ volume' = volume /\ ((~mount /\ faults' = faults) \/ Fault)
  <2>1. /\ faults' \in 0..MaxFaults /\ faults' >= faults
        /\ mount => faults' > 0
    BY <1>2 DEF TypeOK, Fault
  <2>2. QED BY <1>2, <2>1 DEF TypeOK, FlagMatchesKernel
<1>3. QED BY <1>1, <1>2 DEF UnmountVolume

LEMMA CardInvStep == CardInv /\ [Next]_vars => CardInv'
<1> SUFFICES ASSUME CardInv, [Next]_vars PROVE CardInv'
  OBVIOUS
<1> USE DEF CardInv, FlagMatchesKernel, StaleMountEnds, RemovalPending, picture, Fault
<1>1. ASSUME NEW c \in Cards \cup {NoCard}, NEW e \in {"add", "remove"}, Change(c, e),
             c # NoCard => slot = NoCard, c = NoCard => e = "remove"
      PROVE  CardInv'
  <2>1. /\ uevents' \in Seq({"add", "remove"})
        /\ Removals(uevents) => Removals(uevents')
        /\ Bound /\ e = "remove" => Removals(uevents')
    BY <1>1, AppendRemoval DEF Change, TypeOK
  <2>2. TypeOK'
    BY <1>1, <2>1 DEF Change, TypeOK
  <2>3. FlagMatchesKernel' /\ (caller' = "check" => ~mount')
    BY <1>1 DEF Change
  <2>4. StaleMountEnds'
    BY <1>1, <2>1 DEF Change, TypeOK, Removals
  <2>5. QED BY <2>2, <2>3, <2>4
<1>2. CASE Insert
  BY <1>1, <1>2 DEF Insert
<1>3. CASE Remove
  BY <1>1, <1>3 DEF Remove
<1>4. CASE CreateCheck
  <2>1. /\ insertion' \in BOOLEAN /\ faults' \in 0..MaxFaults
        /\ caller' \in {"mount", "spawn"} /\ mount' = mount /\ ~mount
    BY <1>4, Checking DEF CreateCheck
  <2>2. TypeOK'
    BY <1>4, <2>1 DEF CreateCheck, TypeOK
  <2>3. FlagMatchesKernel'
    BY <1>4, <2>1 DEF CreateCheck
  <2>4. QED BY <2>1, <2>2, <2>3
<1>5. CASE CreateMount
  <2>1. TypeOK'
    BY <1>5, Mounting DEF CreateMount, TypeOK
  <2>2. FlagMatchesKernel' /\ (caller' = "check" => ~mount')
    BY <1>5, Mounting DEF CreateMount
  <2>3. StaleMountEnds'
    BY <1>5, Mounting DEF CreateMount, TypeOK
  <2>4. QED BY <2>1, <2>2, <2>3
<1>6. CASE CreateSpawn BY <1>6 DEF CreateSpawn, TypeOK
<1>7. CASE Destroy BY <1>7 DEF Destroy, TypeOK
<1>8. CASE Join BY <1>8 DEF Join, TypeOK
<1>9. CASE DestroyUnmount
  <2>1. TypeOK'
    BY <1>9, Unmounting DEF DestroyUnmount, TypeOK
  <2>2. FlagMatchesKernel' /\ StaleMountEnds' /\ (caller' = "check" => ~mount')
    BY <1>9, Unmounting DEF DestroyUnmount
  <2>3. QED BY <2>1, <2>2
<1>10. CASE Start BY <1>10 DEF Start, Step, TypeOK
<1>11. CASE Bind BY <1>11 DEF Bind, Step, TypeOK
<1>12. CASE Leave BY <1>12 DEF Leave, Step, TypeOK
<1>13. CASE Receive
  <2>1. /\ Head(uevents) \in {"add", "remove"}
        /\ Tail(uevents) \in Seq({"add", "remove"})
        /\ Removals(uevents) => Head(uevents) = "remove" \/ Removals(Tail(uevents))
    BY <1>13, TakeRemoval DEF Receive, TypeOK
  <2>2. TypeOK'
    BY <1>13, <2>1 DEF Receive, Step, TypeOK
  <2>3. StaleMountEnds'
    BY <1>13, <2>1 DEF Receive, Step, Removals, TypeOK
  <2>4. QED BY <1>13, <2>2, <2>3 DEF Receive
<1>14. CASE HandleAdd
  <2>1. /\ insertion' \in BOOLEAN /\ (insertion => insertion')
        /\ faults' \in 0..MaxFaults /\ faults' >= faults
        /\ thread = "add" /\ thread' \in {"mount", "loop"}
    BY <1>14, Checking DEF HandleAdd, Step
  <2>2. TypeOK'
    BY <1>14, <2>1 DEF HandleAdd, TypeOK
  <2>3. FlagMatchesKernel' /\ (caller' = "check" => ~mount')
    BY <1>14, <2>1 DEF HandleAdd
  <2>4. StaleMountEnds'
    BY <1>14, <2>1 DEF HandleAdd, TypeOK
  <2>5. QED BY <2>2, <2>3, <2>4
<1>15. CASE HandleMount
  <2>1. TypeOK'
    BY <1>15, Mounting DEF HandleMount, Step, TypeOK
  <2>2. FlagMatchesKernel' /\ (caller' = "check" => ~mount')
    BY <1>15, Mounting DEF HandleMount, Step, TypeOK
  <2>3. StaleMountEnds'
    BY <1>15, Mounting DEF HandleMount, Step, TypeOK
  <2>4. QED BY <2>1, <2>2, <2>3
<1>16. CASE HandleRemove
  <2>1. TypeOK'
    BY <1>16, Unmounting DEF HandleRemove, Step, TypeOK
  <2>2. FlagMatchesKernel' /\ StaleMountEnds' /\ (caller' = "check" => ~mount')
    BY <1>16, Unmounting DEF HandleRemove, Step, TypeOK
  <2>3. QED BY <2>1, <2>2
<1>17. CASE UNCHANGED vars BY <1>17 DEF vars, TypeOK
<1>18. QED
  BY <1>2, <1>3, <1>4, <1>5, <1>6, <1>7, <1>8, <1>9, <1>10, <1>11, <1>12, <1>13, <1>14,
     <1>15, <1>16, <1>17 DEF Next, User, Caller, Thread

(* The variables keep their types. *)
THEOREM Typing == Spec => []TypeOK
<1>1. CardInv => TypeOK BY DEF CardInv
<1>2. QED BY <1>1, CardInvInit, CardInvStep, PTL DEF Spec

(* `mount` agrees with the kernel's mount table at every moment. *)
THEOREM MountFlag == Spec => []FlagMatchesKernel
<1>1. CardInv => FlagMatchesKernel BY DEF CardInv
<1>2. QED BY <1>1, CardInvInit, CardInvStep, PTL DEF Spec

(* A card that is gone is reported as mounted only while its removal is still
   to be handled, or after a missed event, a failed call or a destroy. *)
THEOREM StaleMount == Spec => []StaleMountEnds
<1>1. CardInv => StaleMountEnds BY DEF CardInv
<1>2. QED BY <1>1, CardInvInit, CardInvStep, PTL DEF Spec
=============================================================================
