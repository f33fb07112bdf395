------------------------ MODULE FirmwareUpdate_proofs ------------------------
(***************************************************************************)
(* Theorems about FirmwareUpdate for any cards, files, cylinder size and   *)
(* layout of the eMMC: the types, that progress is durable, that a         *)
(* finished image stays whole, that the rest stays as it was, and that     *)
(* success with the card left in place means the whole card.               *)
(***************************************************************************)
EXTENDS FirmwareUpdate, SequenceTheorems, TLAPS

CardProofs == INSTANCE SdCard_proofs

-----------------------------------------------------------------------------
(* The layout of the eMMC: done images lie below the one being written, the
   images to come above it. *)

LEMMA Stages ==
  /\ ImageOf(1) = "uboot" /\ ImageOf(2) = "uimage"
  /\ ImageOf(3) = "rootfs" /\ ImageOf(4) = "rootfs"
  /\ ~Erasing(1) /\ ~Erasing(2) /\ Erasing(3) /\ ~Erasing(4)
BY DEF ImageOf, Erasing, Tasks

LEMMA Spaces ==
  /\ EndOf("uboot") = Offset["uimage"] /\ LastStage("uboot") = 1 /\ FirstStage("uboot") = 1
  /\ EndOf("uimage") = Offset["rootfs"] /\ LastStage("uimage") = 2 /\ FirstStage("uimage") = 2
  /\ EndOf("rootfs") = Limit["rootfs"] /\ LastStage("rootfs") = 4 /\ FirstStage("rootfs") = 3
BY DEF EndOf, LastStage, FirstStage

LEMMA Layout ==
  ASSUME NEW t \in 1..4, NEW i \in Images
  PROVE  /\ ImageOf(t) \in Images
         /\ Offset[i] \in Nat /\ Limit[i] \in Nat /\ EndOf(i) \in Nat
         /\ Offset[i] < Limit[i] /\ Limit[i] <= EmmcSize /\ EndOf(i) <= EmmcSize
         /\ LastStage(i) < t => EndOf(i) <= Offset[ImageOf(t)]
         /\ t < FirstStage(i) => EndOf(ImageOf(t)) <= Offset[i]
         /\ i # ImageOf(t) =>
              EndOf(i) <= Offset[ImageOf(t)] \/ EndOf(ImageOf(t)) <= Offset[i]
         /\ LastStage(i) < t + 1 => LastStage(i) < t \/ (i = ImageOf(t) /\ ~Erasing(t))
         /\ t + 1 < FirstStage(i) => t < FirstStage(i)
         /\ t < FirstStage(i) => i # ImageOf(t)
         /\ ~(LastStage(i) < 1)
<1>1. /\ \A j \in Images : /\ Offset[j] \in Nat /\ Limit[j] \in Nat
                           /\ Offset[j] < Limit[j] /\ Limit[j] <= EmmcSize
      /\ Offset["uboot"] < Offset["uimage"] /\ Offset["uimage"] < Offset["rootfs"]
      /\ EmmcSize \in Nat
  BY FirmwareAssumption
<1>2. i \in {"uboot", "uimage", "rootfs"} /\ {"uboot", "uimage", "rootfs"} = Images
  BY DEF Images
<1>3. t = 1 \/ t = 2 \/ t = 3 \/ t = 4
  OBVIOUS
<1>4. ImageOf(t) \in Images
  BY <1>2, <1>3, Stages
<1>5. EndOf(i) \in Nat /\ EndOf(i) <= EmmcSize
  BY <1>1, <1>2, Spaces
<1>6. /\ LastStage(i) < t => EndOf(i) <= Offset[ImageOf(t)]
      /\ t < FirstStage(i) => EndOf(ImageOf(t)) <= Offset[i]
      /\ i # ImageOf(t) =>
           EndOf(i) <= Offset[ImageOf(t)] \/ EndOf(ImageOf(t)) <= Offset[i]
      /\ LastStage(i) < t + 1 => LastStage(i) < t \/ (i = ImageOf(t) /\ ~Erasing(t))
  <2>1. CASE i = "uboot"
    BY <1>1, <1>2, <1>3, <2>1, Stages, Spaces
  <2>2. CASE i = "uimage"
    BY <1>1, <1>2, <1>3, <2>2, Stages, Spaces
  <2>3. CASE i = "rootfs"
    BY <1>1, <1>2, <1>3, <2>3, Stages, Spaces
  <2>4. QED BY <1>2, <2>1, <2>2, <2>3
<1>7. /\ t + 1 < FirstStage(i) => t < FirstStage(i)
      /\ t < FirstStage(i) => i # ImageOf(t)
      /\ ~(LastStage(i) < 1)
  BY <1>2, <1>3, Stages, Spaces
<1>8. QED BY <1>1, <1>4, <1>5, <1>6, <1>7

LEMMA Length == ASSUME TypeOK, NEW i \in Images
                PROVE  /\ image[i].size \in Nat /\ image[i].valid \in BOOLEAN
                       /\ image[i].valid <=> image[i].size # 0
BY DEF TypeOK

-----------------------------------------------------------------------------
(* The card.  Its invariant is that of SdCard_proofs; the update itself can only
   add to its count of failed calls. *)

LEMMA CardAssumption == CardProofs!SdCardAssumption
BY FirmwareAssumption DEF FirmwareAssumption, CardProofs!SdCardAssumption

LEMMA CardTypes == CardProofs!CardInv => SD!TypeOK
BY DEF CardProofs!CardInv, CardProofs!TypeOK, SD!TypeOK

LEMMA CardKept ==
  ASSUME CardProofs!CardInv, UNCHANGED cardVars, faults' = faults \/ SD!Fault
  PROVE  CardProofs!CardInv' /\ SD!TypeOK'
<1>0. CardProofs!TypeOK
  BY DEF CardProofs!CardInv
<1>a. faults \in 0..MaxFaults /\ MaxFaults \in Nat
  BY <1>0, FirmwareAssumption DEF CardProofs!TypeOK, FirmwareAssumption
<1>b. faults' = faults \/ (faults < MaxFaults /\ faults' = faults + 1)
  BY DEF SD!Fault
<1>1. faults' \in 0..MaxFaults /\ faults' >= faults
  BY <1>a, <1>b
<1>2. CardProofs!TypeOK'
  BY <1>0, <1>1 DEF CardProofs!TypeOK, cardVars
<1>3. CardProofs!FlagMatchesKernel' /\ (caller' = "check" => ~mount')
  BY DEF CardProofs!CardInv, CardProofs!FlagMatchesKernel, cardVars
<1>4. faults > 0 => faults' > 0
  BY <1>1, <1>a
<1>5. CardProofs!StaleMountEnds'
  BY <1>4 DEF CardProofs!CardInv, CardProofs!StaleMountEnds, CardProofs!RemovalPending, cardVars
<1>6. QED BY <1>2, <1>3, <1>5 DEF CardProofs!CardInv, CardProofs!TypeOK, SD!TypeOK

LEMMA CardSteps ==
  ASSUME CardProofs!CardInv, Card
  PROVE  CardProofs!CardInv' /\ SD!TypeOK'
<1> SUFFICES CardProofs!CardInv'
  BY DEF CardProofs!CardInv, CardProofs!TypeOK, SD!TypeOK
<1>1. CardProofs!Next => CardProofs!CardInv'
  BY CardAssumption, CardProofs!CardInvStep
<1>2. CASE SD!User
  <2>1. CardProofs!User
    BY <1>2 DEF SD!User, SD!Insert, SD!Remove, SD!Change, SD!Bound, SD!picture,
                CardProofs!User, CardProofs!Insert, CardProofs!Remove, CardProofs!Change,
                CardProofs!Bound, CardProofs!picture
  <2>2. CardProofs!Next
    BY <2>1 DEF CardProofs!Next
  <2>3. QED BY <1>1, <2>2
<1>3. CASE SD!CreateCheck \/ SD!CreateMount \/ SD!CreateSpawn
  <2>1. CardProofs!Caller
    BY <1>3 DEF CardProofs!Caller, CardProofs!CreateCheck, CardProofs!CreateMount,
                CardProofs!CreateSpawn, CardProofs!Found, CardProofs!NotFound,
                CardProofs!MountVolume, CardProofs!Fault, CardProofs!picture,
                SD!CreateCheck, SD!CreateMount, SD!CreateSpawn, SD!Found, SD!NotFound,
                SD!MountVolume, SD!Fault, SD!picture
  <2>2. CardProofs!Next
    BY <2>1 DEF CardProofs!Next
  <2>3. QED BY <1>1, <2>2
<1>4. CASE SD!Thread
  <2>1. CardProofs!Thread
    BY <1>4 DEF SD!Thread, SD!Start, SD!Bind, SD!Leave, SD!Receive, SD!HandleAdd,
                SD!HandleMount, SD!HandleRemove, SD!Step, SD!picture, SD!Found, SD!NotFound,
                SD!MountVolume, SD!UnmountVolume, SD!Fault,
                CardProofs!Thread, CardProofs!Start, CardProofs!Bind, CardProofs!Leave,
                CardProofs!Receive, CardProofs!HandleAdd, CardProofs!HandleMount,
                CardProofs!HandleRemove, CardProofs!Step, CardProofs!picture,
                CardProofs!Found, CardProofs!NotFound, CardProofs!MountVolume,
                CardProofs!UnmountVolume, CardProofs!Fault
  <2>2. CardProofs!Next
    BY <2>1 DEF CardProofs!Next
  <2>3. QED BY <1>1, <2>2
<1>5. QED BY <1>2, <1>3, <1>4 DEF Card

-----------------------------------------------------------------------------
(* The invariant. *)

(* A task is only being done for a valid image. *)
Task ==
  pc \in {"open", "write", "sync", "error"} =>
    /\ stage <= 4
    /\ image[ImageOf(stage)].valid
    /\ nwrite <= image[ImageOf(stage)].size

Fresh == pc = "open" => writeSize = 0 /\ nwrite = image[ImageOf(stage)].size

(* While it is copied, the progress is what has been written, and that fits. *)
Copy ==
  pc \in {"write", "sync"} =>
    /\ fd # NoCard /\ (fd = Zero <=> Erasing(stage))
    /\ writeSize = Done
    /\ Offset[ImageOf(stage)] + Done <= Limit[ImageOf(stage)]
    /\ fd # Zero => Done <= FileSize[fd][ImageOf(stage)]

Round ==
  pc = "sync" =>
    /\ nwrite # 0 /\ cache = Written /\ Room >= Want
    /\ fd # Zero => Done + Want <= FileSize[fd][ImageOf(stage)]

(* Only cells of the image being written are dirty. *)
Dirty ==
  /\ pc \notin {"sync", "error"} => DOMAIN cache = {}
  /\ \A a \in DOMAIN cache : a \in Reach(ImageOf(stage))

(* The size of an image is that of the file that was measured. *)
SizeOfMeasured ==
  \A i \in Images : image[i].valid =>
    measured[i] \in Cards /\ image[i].size = FileSize[measured[i]][i]

(* The units of image i are those of a file of card c, which is as long as the
   image, or longer and not the file that was measured. *)
FromCard(i, c) ==
  /\ Holds(i, c, image[i].size)
  /\ \/ image[i].size = FileSize[c][i]
     \/ c # measured[i] /\ image[i].size < FileSize[c][i]

LEMMA AsFromCard ==
  ASSUME NEW i \in Images
  PROVE  Whole(i) \/ CutShort(i) <=> \E c \in Cards : FromCard(i, c)
BY DEF Whole, CutShort, FromCard

Started == pc \notin {"idle", "off"} => updates > 0 /\ result = "none"

Untouched ==
  /\ pc \in Images \cup {"check"} => stage = 1 /\ emmc = before
  /\ updates > 0 /\ ~Programmed => emmc = before

DoneFits ==
  \A i \in Images :
    image[i].valid /\ LastStage(i) < stage => Offset[i] + image[i].size <= Limit[i]

IInv ==
  /\ CardProofs!CardInv
  /\ TypeOK
  /\ Task /\ Fresh /\ Copy /\ Round /\ Dirty /\ Started /\ Untouched /\ DoneFits
  /\ SizeOfMeasured
  /\ ProgressIsDurable /\ DoneIsWhole /\ RestIsIntact

-----------------------------------------------------------------------------
(* What one round writes: units of the image from Pos on, inside the device. *)
LEMMA RoundWrites ==
  ASSUME TypeOK, Task, Copy, pc \in {"write", "sync"}, nwrite # 0
  PROVE  /\ Done \in Nat /\ Done < image[ImageOf(stage)].size
         /\ Pos \in Nat /\ Room \in Nat /\ Want \in Nat \ {0}
         /\ Want <= nwrite /\ Pos = Offset[ImageOf(stage)] + Done
         /\ DOMAIN Written = Pos..(Pos + Room - 1)
         /\ Room > 0 => Pos + Room <= Limit[ImageOf(stage)]
         /\ DOMAIN Written \subseteq Addrs
         /\ \A a \in DOMAIN Written : Written[a] \in Cells
         /\ \A a \in DOMAIN Written : a \in Reach(ImageOf(stage))
<1> DEFINE img == ImageOf(stage)
<1>0. /\ stage \in 1..4 /\ nwrite \in Nat
      /\ stage = 1 \/ stage = 2 \/ stage = 3 \/ stage = 4
  BY DEF TypeOK, Task
<1>1. /\ stage \in 1..4 /\ img \in Images /\ image[img].valid
      /\ image[img].size \in Nat /\ nwrite <= image[img].size /\ nwrite \in Nat
      /\ Cyl \in Nat \ {0} /\ EmmcSize \in Nat
      /\ Offset[img] \in Nat /\ Limit[img] \in Nat /\ Limit[img] <= EmmcSize
      /\ EndOf(img) \in Nat
  <2>1. img \in Images
    BY <1>0, Stages DEF img, Images
  <2>2. /\ Offset[img] \in Nat /\ Limit[img] \in Nat /\ Limit[img] <= EmmcSize
        /\ EndOf(img) \in Nat
    BY <1>0, <2>1, Layout
  <2>3. image[img].size \in Nat
    BY <2>1, Length
  <2>4. image[img].valid /\ nwrite <= image[img].size
    BY DEF Task
  <2>5. QED BY <1>0, <2>1, <2>2, <2>3, <2>4, FirmwareAssumption
<1> HIDE DEF img
<1>2. Done \in Nat /\ Done < image[img].size /\ Done = image[img].size - nwrite
  BY <1>1 DEF Done, img
<1>3. Want \in Nat \ {0} /\ Want <= nwrite
  BY <1>1 DEF Want, Smaller
<1>4. Pos \in Nat /\ Pos = Offset[img] + Done
  BY <1>1, <1>2 DEF Pos, img
<1>5. /\ Room \in Nat /\ Room <= Cyl
      /\ Room > 0 => Pos + Room <= Limit[img]
  BY <1>1, <1>4 DEF Room, Smaller, img
<1>6. DOMAIN Written = Pos..(Pos + Room - 1)
  BY DEF Written
<1>7. DOMAIN Written \subseteq Addrs
  <2> SUFFICES ASSUME NEW a \in DOMAIN Written PROVE a \in Addrs
    OBVIOUS
  <2>1. a \in Nat /\ a < Pos + Room /\ Room > 0
    BY <1>4, <1>5, <1>6
  <2>2. Pos + Room <= EmmcSize
    BY <1>1, <1>4, <1>5, <2>1
  <2>3. QED BY <1>1, <1>4, <1>5, <2>1, <2>2 DEF Addrs
<1>8. ASSUME NEW a \in DOMAIN Written PROVE Written[a] \in Cells
  <2>1. a \in Nat /\ a >= Pos /\ a - Pos \in Nat
    BY <1>4, <1>5, <1>6
  <2>2. Written[a] = IF a - Pos < Want THEN Unit(a - Pos) ELSE Zero
    BY <1>6 DEF Written
  <2>3. fd \in Cards \cup {Zero}
    BY DEF TypeOK, Copy
  <2>4. Unit(a - Pos) \in Cells
    BY <1>1, <1>2, <2>1, <2>3 DEF Unit, Cells, Units, img
  <2>5. QED BY <2>2, <2>4 DEF Cells
<1>9. ASSUME NEW a \in DOMAIN Written PROVE a \in Reach(img)
  <2>1. a \in Nat /\ Pos <= a /\ a < Pos + Room /\ Room > 0 /\ a \in Addrs
    BY <1>4, <1>5, <1>6, <1>7
  <2>2. a < Limit[img] /\ a < Offset[img] + Done + Cyl /\ Offset[img] <= a
    BY <1>1, <1>2, <1>4, <1>5, <2>1
  <2>3. a < Offset[img] + image[img].size + (Cyl - 1)
    BY <1>1, <1>2, <2>1, <2>2
  <2>4. QED BY <2>1, <2>2, <2>3 DEF Reach
<1>10. QED BY <1>1, <1>2, <1>3, <1>4, <1>5, <1>6, <1>7, <1>8, <1>9 DEF img

(* Parts of the cache that reach the eMMC leave the units of a finished image as
   they are, when every image fits its space. *)
LEMMA DoneKept ==
  ASSUME IInv, pc \in {"sync", "error"}, NEW kept \in SUBSET DOMAIN cache,
         emmc' = [a \in Addrs |-> IF a \in kept THEN cache[a] ELSE emmc[a]],
         \A i \in Images : Fits(i), NEW i \in Images, image[i].valid, LastStage(i) < stage,
         NEW k \in 0..(image[i].size - 1)
  PROVE  emmc'[Offset[i] + k] = emmc[Offset[i] + k]
<1>1. stage \in 1..4 /\ ImageOf(stage) \in Images
  BY Layout DEF IInv, Task, TypeOK
<1>2. \A a \in kept : a \in Nat /\ Offset[ImageOf(stage)] <= a
  BY DEF IInv, TypeOK, Dirty, Addrs, Reach
<1>3. image[i].size \in Nat /\ Offset[i] + image[i].size <= EndOf(i)
  BY <1>1, Layout, Length DEF IInv, DoneFits, Fits, Confined
<1>4. Offset[i] + k < EndOf(i) /\ Offset[i] + k \in Addrs
  <2>1. Offset[i] \in Nat /\ EndOf(i) \in Nat /\ EndOf(i) <= EmmcSize
    BY <1>1, Layout
  <2>2. EmmcSize \in Nat
    BY FirmwareAssumption
  <2>3. QED BY <1>3, <2>1, <2>2 DEF Addrs
<1>5. Offset[i] + k \notin kept
  BY <1>1, <1>2, <1>3, <1>4, Layout
<1>6. QED BY <1>4, <1>5

(* Parts of the cache that reach the eMMC disturb neither an image that is done
   nor a cell beyond the image being written. *)
LEMMA Reaches ==
  ASSUME IInv, NEW kept \in SUBSET DOMAIN cache,
         emmc' = [a \in Addrs |-> IF a \in kept THEN cache[a] ELSE emmc[a]],
         UNCHANGED <<image, measured, before, updates, stage>>, Programmed' <=> Programmed
  PROVE  /\ emmc' \in [Addrs -> Cells]
         /\ DoneIsWhole' /\ RestIsIntact'
         /\ updates' > 0 /\ ~Programmed' => emmc' = before'
<1>1. /\ emmc \in [Addrs -> Cells] /\ stage \in 1..5
      /\ \A a \in DOMAIN cache : a \in Addrs /\ cache[a] \in Cells
  BY DEF IInv, TypeOK
<1>2. emmc' \in [Addrs -> Cells]
  BY <1>1
<1>3. CASE kept = {}
  <2>1. emmc' = emmc
    BY <1>1, <1>3
  <2>2. DoneIsWhole' /\ RestIsIntact'
    BY <2>1 DEF IInv, DoneIsWhole, RestIsIntact, Fits, Confined, Whole, CutShort, Holds, Reach
  <2>3. QED BY <1>2, <2>1, <2>2 DEF IInv, Untouched
<1>4. CASE kept # {}
  <2>1. pc \in {"sync", "error"}
    BY <1>4 DEF IInv, Dirty
  <2>2. Programmed /\ Programmed'
    BY <2>1 DEF IInv, Started, Programmed
  <2>3. stage \in 1..4 /\ ImageOf(stage) \in Images /\ image[ImageOf(stage)].valid
    <3>1. stage <= 4 /\ image[ImageOf(stage)].valid
      BY <2>1 DEF IInv, Task
    <3>2. stage = 1 \/ stage = 2 \/ stage = 3 \/ stage = 4
      BY <1>1, <3>1
    <3>3. QED BY <3>1, <3>2, Stages DEF Images
  <2>4. \A a \in kept : a \in Reach(ImageOf(stage))
    BY <1>1 DEF IInv, Dirty
  <2>5. ASSUME \A i \in Images : Fits(i), NEW i \in Images, image[i].valid,
               LastStage(i) < stage, NEW k \in 0..(image[i].size - 1)
        PROVE  emmc'[Offset[i] + k] = emmc[Offset[i] + k]
    BY <2>1, <2>5, DoneKept
  <2>6. FirstStage(ImageOf(stage)) <= stage
    BY <2>3, Layout, Spaces DEF Images
  <2>7. DoneIsWhole'
    <3> SUFFICES ASSUME \A i \in Images : Fits(i), NEW i \in Images, image[i].valid,
                        LastStage(i) < stage
                 PROVE  (Whole(i) \/ CutShort(i))'
      BY DEF DoneIsWhole, Fits, Confined
    <3>1. PICK c \in Cards : FromCard(i, c)
      BY <2>2, AsFromCard DEF IInv, DoneIsWhole
    <3>2. \A k \in 0..(image[i].size - 1) : emmc'[Offset[i] + k] = emmc[Offset[i] + k]
      BY <2>5
    <3>3. QED BY <3>1, <3>2 DEF FromCard, Whole, CutShort, Holds
  <2>8. RestIsIntact'
    <3> SUFFICES ASSUME updates > 0, NEW a \in Addrs, emmc'[a] # before[a]
                 PROVE  \E i \in Images :
                          image[i].valid /\ FirstStage(i) <= stage /\ a \in Reach(i)
      BY <2>2 DEF RestIsIntact, Reach
    <3>1. CASE a \in kept
      BY <2>3, <2>4, <2>6, <3>1
    <3>2. CASE a \notin kept
      <4>1. emmc'[a] = emmc[a]
        BY <3>2
      <4>2. QED BY <4>1 DEF IInv, RestIsIntact
    <3>3. QED BY <3>1, <3>2
  <2>9. QED BY <1>2, <2>2, <2>7, <2>8
<1>5. QED BY <1>3, <1>4

(* A step that leaves the eMMC alone. *)
LEMMA Rests ==
  ASSUME IInv, UNCHANGED <<emmc, image, measured, before, updates, stage>>, Programmed' <=> Programmed
  PROVE  DoneIsWhole' /\ RestIsIntact' /\ (updates' > 0 /\ ~Programmed' => emmc' = before')
BY DEF IInv, Untouched, DoneIsWhole, RestIsIntact, Fits, Confined, Whole, CutShort, Holds,
       Reach

-----------------------------------------------------------------------------
(* The steps. *)

LEMMA NoCells == DOMAIN <<>> = {}
OBVIOUS

LEMMA Inits == Init => IInv
<1> SUFFICES ASSUME Init PROVE IInv
  OBVIOUS
<1>1. CardProofs!CardInv /\ SD!TypeOK
  <2>1. CardProofs!Init
    BY DEF Init, SD!Init, CardProofs!Init
  <2>2. CardProofs!CardInv
    BY <2>1, CardAssumption, CardProofs!CardInvInit
  <2>3. QED BY <2>2, CardTypes
<1>2. TypeOK
  <2>1. emmc \in [Addrs -> Cells] /\ before \in [Addrs -> Cells]
    BY DEF Init, Cells
  <2>2. /\ image \in [Images -> [valid : BOOLEAN, size : Nat]]
        /\ \A i \in Images : image[i].valid <=> image[i].size # 0
    BY DEF Init
  <2>3. DOMAIN cache = {}
    BY NoCells DEF Init
  <2>4. MaxUpdates \in Nat
    BY FirmwareAssumption
  <2>5. updates \in 0..MaxUpdates /\ steady \in BOOLEAN /\ result = "none"
    <3>1. updates = 0 /\ steady = FALSE /\ result = "none"
      BY DEF Init
    <3>2. steady \in BOOLEAN
      BY <3>1
    <3>3. updates \in 0..MaxUpdates
      BY <2>4, <3>1
    <3>4. QED BY <3>1, <3>2, <3>3
  <2>6. /\ pc = "idle" /\ stage = 1 /\ updateTask = "STANDBY" /\ updateError = "WRITE_UBOOT"
        /\ writeSize = 0 /\ totalSize = 0 /\ nwrite = 0 /\ fd = NoCard
    BY DEF Init
  <2>7. measured \in [Images -> Cards \cup {NoCard}]
    BY DEF Init
  <2>8. QED BY <1>1, <2>1, <2>2, <2>3, <2>5, <2>6, <2>7 DEF TypeOK
<1>3. Task /\ Fresh /\ Copy /\ Round /\ Dirty /\ Started /\ Untouched /\ ProgressIsDurable
  BY NoCells DEF Init, Task, Fresh, Copy, Round, Dirty, Started, Untouched, ProgressIsDurable
<1>4. DoneFits /\ DoneIsWhole /\ RestIsIntact /\ SizeOfMeasured
  BY DEF Init, DoneFits, DoneIsWhole, RestIsIntact, Programmed, SizeOfMeasured
<1>5. QED BY <1>1, <1>2, <1>3, <1>4 DEF IInv

LEMMA StepBegin == ASSUME IInv, Begin PROVE IInv'
<1>1. CardProofs!CardInv' /\ SD!TypeOK'
  BY CardKept DEF IInv, Begin
<1>2. TypeOK'
  <2>1. updates' \in 0..MaxUpdates /\ updates' > 0
    BY FirmwareAssumption DEF IInv, TypeOK, Begin
  <2>2. steady' \in BOOLEAN
    BY DEF Begin
  <2>3. pc' \in {"uboot", "idle"} /\ result' \in {"none", "NOSDCARD"} /\ before' = emmc
    BY DEF Begin, Return
  <2>4. QED BY <1>1, <2>1, <2>2, <2>3 DEF IInv, Begin, TypeOK, Images, diskVars
<1>3. Task' /\ Fresh' /\ Copy' /\ Round' /\ ProgressIsDurable'
  BY DEF Begin, Return, Task, Fresh, Copy, Round, ProgressIsDurable
<1>4. Dirty' /\ Started' /\ Untouched'
  <2>1. /\ emmc' = emmc /\ before' = emmc /\ cache' = cache /\ stage' = 1
        /\ \/ pc' = "uboot" /\ result' = "none"
           \/ pc' = "idle" /\ result' = "NOSDCARD"
    BY DEF Begin, Return, diskVars
  <2>2. DOMAIN cache = {} /\ updates' > 0
    BY DEF IInv, TypeOK, Begin, Dirty
  <2>3. QED BY <2>1, <2>2 DEF Dirty, Started, Untouched, Programmed
<1>5. DoneFits' /\ DoneIsWhole' /\ SizeOfMeasured'
  BY Spaces DEF Begin, DoneFits, DoneIsWhole, SizeOfMeasured, Images, IInv
<1>6. RestIsIntact'
  BY DEF Begin, RestIsIntact, diskVars
<1>7. QED BY <1>1, <1>2, <1>3, <1>4, <1>5, <1>6 DEF IInv

LEMMA StepSetImage == ASSUME IInv, SetImage PROVE IInv'
<1>1. CardProofs!CardInv' /\ SD!TypeOK'
  BY CardKept DEF IInv, SetImage
<1>2. /\ pc \in Images /\ pc' \in Images \cup {"check"} /\ pc' \notin {"open", "write", "sync", "error"}
      /\ UNCHANGED <<stage, emmc, before, cache, updates, result>>
  <2>1. pc = "uboot" \/ pc = "uimage" \/ pc = "rootfs"
    BY DEF SetImage, Images
  <2>2. pc' = "uimage" \/ pc' = "rootfs" \/ pc' = "check"
    BY <2>1 DEF SetImage
  <2>3. QED BY <2>1, <2>2 DEF SetImage, Images, diskVars, histVars
<1>3. PICK size \in SizeSeen(pc) :
        image' = [image EXCEPT ![pc] = [valid |-> size # 0, size |-> size]]
  BY DEF SetImage
<1>4. size \in Nat
  BY <1>2, FirmwareAssumption DEF SizeSeen, IInv, TypeOK, SD!TypeOK
<1>5. /\ image' \in [Images -> [valid : BOOLEAN, size : Nat]]
      /\ \A i \in Images : image'[i].valid <=> image'[i].size # 0
  <2>1. [valid |-> size # 0, size |-> size] \in [valid : BOOLEAN, size : Nat]
    BY <1>4
  <2>2. image \in [Images -> [valid : BOOLEAN, size : Nat]]
    BY DEF IInv, TypeOK
  <2>3. image' \in [Images -> [valid : BOOLEAN, size : Nat]]
    BY <1>3, <2>1, <2>2
  <2>4. image'[pc].valid <=> image'[pc].size # 0
    BY <1>2, <1>3, <2>2
  <2>5. ASSUME NEW i \in Images, i # pc PROVE image'[i].valid <=> image'[i].size # 0
    BY <1>3, <2>2, <2>5 DEF IInv, TypeOK
  <2>6. QED BY <2>3, <2>4, <2>5
<1>6. TypeOK'
  <2>1. measured' \in [Images -> Cards \cup {NoCard}]
    BY DEF IInv, TypeOK, SD!TypeOK, SetImage
  <2>2. QED BY <1>1, <1>2, <1>5, <2>1 DEF IInv, SetImage, TypeOK
<1>7. Task' /\ Fresh' /\ Copy' /\ Round' /\ ProgressIsDurable' /\ Started'
  BY <1>2 DEF IInv, Task, Fresh, Copy, Round, ProgressIsDurable, Started, Images
<1>8. stage = 1 /\ emmc = before /\ DOMAIN cache = {} /\ Programmed
  BY <1>2 DEF IInv, Untouched, Dirty, Started, Programmed, Images
<1>9. Dirty' /\ Untouched'
  BY <1>2, <1>8 DEF IInv, Dirty, Untouched, Programmed
<1>10. DoneFits' /\ DoneIsWhole'
  BY <1>2, <1>8, Spaces DEF DoneFits, DoneIsWhole, Images
<1>11. RestIsIntact'
  BY <1>2, <1>8 DEF RestIsIntact
<1>12. SizeOfMeasured'
  <2> SUFFICES ASSUME NEW i \in Images, image'[i].valid
               PROVE  measured'[i] \in Cards /\ image'[i].size = FileSize[measured'[i]][i]
    BY DEF SizeOfMeasured
  <2>1. /\ image \in [Images -> [valid : BOOLEAN, size : Nat]]
        /\ measured \in [Images -> Cards \cup {NoCard}] /\ volume \in Cards \cup {NoCard}
    BY DEF IInv, TypeOK, SD!TypeOK
  <2>2. measured' = [measured EXCEPT ![pc] = volume]
    BY DEF SetImage
  <2>3. CASE i = pc
    <3>1. image'[i].size = size /\ size # 0 /\ measured'[i] = volume
      BY <1>3, <2>1, <2>2, <2>3
    <3>2. volume \in Cards /\ size = FileSize[volume][i]
      BY <1>3, <2>1, <2>3, <3>1 DEF SizeSeen
    <3>3. QED BY <3>1, <3>2
  <2>4. CASE i # pc
    <3>1. image'[i] = image[i] /\ measured'[i] = measured[i]
      BY <1>3, <2>1, <2>2, <2>4
    <3>2. QED BY <3>1 DEF IInv, SizeOfMeasured
  <2>5. QED BY <2>3, <2>4
<1>13. QED BY <1>1, <1>6, <1>7, <1>9, <1>10, <1>11, <1>12 DEF IInv

LEMMA StepCheckImages == ASSUME IInv, CheckImages PROVE IInv'
<1>1. CardProofs!CardInv' /\ SD!TypeOK'
  BY CardKept DEF IInv, CheckImages
<1>2. TypeOK'
  BY <1>1 DEF IInv, CheckImages, Return, TypeOK, progVars, diskVars, histVars
<1>3. stage = 1 /\ emmc = before /\ DOMAIN cache = {} /\ Programmed
  BY DEF CheckImages, IInv, Untouched, Dirty, Started, Programmed
<1>4. Task' /\ Fresh' /\ Copy' /\ Round' /\ ProgressIsDurable'
  BY DEF CheckImages, Return, Task, Fresh, Copy, Round, ProgressIsDurable
<1>5. Started' /\ Dirty' /\ Untouched'
  BY <1>3 DEF IInv, CheckImages, Return, Started, Dirty, Untouched, progVars, diskVars,
              histVars, Images
<1>6. DoneFits' /\ DoneIsWhole' /\ SizeOfMeasured'
  BY <1>3, Spaces DEF CheckImages, DoneFits, DoneIsWhole, Images, IInv, SizeOfMeasured,
                      progVars, histVars
<1>7. RestIsIntact'
  BY <1>3 DEF CheckImages, RestIsIntact, diskVars, histVars
<1>8. QED BY <1>1, <1>2, <1>4, <1>5, <1>6, <1>7 DEF IInv

LEMMA StepSkipTask == ASSUME IInv, SkipTask PROVE IInv'
<1>1. CardProofs!CardInv' /\ SD!TypeOK'
  BY CardKept DEF IInv, SkipTask
<1>2. /\ stage \in 1..4 /\ stage' = stage + 1 /\ ~image[ImageOf(stage)].valid
      /\ UNCHANGED <<pc, image, measured, emmc, cache, before, updates, result>> /\ pc = "program"
  BY DEF IInv, TypeOK, SkipTask, progVars, diskVars, histVars
<1>3. TypeOK'
  BY <1>1, <1>2 DEF IInv, SkipTask, TypeOK, progVars, diskVars, histVars
<1>4. /\ Task' /\ Fresh' /\ Copy' /\ Round' /\ ProgressIsDurable'
      /\ Started' /\ Dirty' /\ Untouched'
  BY <1>2 DEF IInv, Task, Fresh, Copy, Round, ProgressIsDurable, Started, Dirty, Untouched,
              Programmed, Images
<1>5. \A i \in Images : image[i].valid /\ LastStage(i) < stage + 1 => LastStage(i) < stage
  BY <1>2, Layout
<1>6. DoneFits' /\ SizeOfMeasured'
  BY <1>2, <1>5 DEF IInv, DoneFits, SizeOfMeasured
<1>7. DoneIsWhole'
  BY <1>2, <1>5 DEF IInv, DoneIsWhole, Programmed, Fits, Confined, Whole, CutShort, Holds
<1>8. RestIsIntact'
  <2>1. \A i \in Images : FirstStage(i) <= stage => FirstStage(i) <= stage + 1
    BY <1>2, Spaces DEF Images
  <2>2. QED BY <1>2, <2>1 DEF IInv, RestIsIntact, Programmed, Reach
<1>9. QED BY <1>1, <1>3, <1>4, <1>6, <1>7, <1>8 DEF IInv

LEMMA StepBeginTask == ASSUME IInv, BeginTask PROVE IInv'
<1>1. CardProofs!CardInv' /\ SD!TypeOK'
  BY CardKept DEF IInv, BeginTask
<1>2. /\ stage \in 1..4 /\ image[ImageOf(stage)].valid /\ pc = "program" /\ pc' = "open"
      /\ UNCHANGED <<stage, image, measured, emmc, cache, before, updates, result>>
      /\ writeSize' = 0 /\ nwrite' = image[ImageOf(stage)].size
  BY DEF IInv, TypeOK, BeginTask, diskVars, histVars
<1>3. ImageOf(stage) \in Images /\ image[ImageOf(stage)].size \in Nat
  <2>1. ImageOf(stage) \in Images
    BY <1>2, Stages DEF Images
  <2>2. QED BY <2>1, Length DEF IInv
<1>4. TypeOK'
  <2>1. updateTask' \in {"WRITE_UBOOT", "WRITE_UIMAGE", "ERASE_ROOTFS", "WRITE_ROOTFS"}
    BY <1>2 DEF BeginTask, Tasks
  <2>2. totalSize' \in Nat /\ writeSize' \in Nat /\ nwrite' \in Nat
    BY <1>2, <1>3 DEF BeginTask
  <2>3. QED BY <1>1, <1>2, <2>1, <2>2 DEF IInv, BeginTask, TypeOK, diskVars, histVars
<1>5. /\ Task' /\ Fresh' /\ Copy' /\ Round' /\ ProgressIsDurable'
      /\ Started' /\ Dirty'
  BY <1>2, <1>3 DEF IInv, Task, Fresh, Copy, Round, ProgressIsDurable, Started, Dirty
<1>6. DoneIsWhole' /\ RestIsIntact' /\ Untouched'
  BY <1>2, Rests DEF Programmed, Untouched, Images
<1>7. DoneFits' /\ SizeOfMeasured'
  BY <1>2 DEF IInv, DoneFits, SizeOfMeasured
<1>8. QED BY <1>1, <1>4, <1>5, <1>6, <1>7 DEF IInv

LEMMA StepOpenImage == ASSUME IInv, OpenImage PROVE IInv'
<1>1. CardProofs!CardInv' /\ SD!TypeOK'
  <2>1. UNCHANGED cardVars /\ (faults' = faults \/ SD!Fault)
    BY DEF OpenImage
  <2>2. QED BY <2>1, CardKept DEF IInv
<1>2. /\ pc = "open" /\ pc' \in {"write", "error"}
      /\ UNCHANGED <<stage, image, measured, emmc, cache, before, updates, result, writeSize, nwrite>>
      /\ pc' = "write" => /\ fd' # NoCard /\ fd' \in Cards \cup {Zero}
                          /\ (fd' = Zero <=> Erasing(stage))
      /\ fd' \in Cards \cup {NoCard, Zero}
  <2>1. volume \in Cards \cup {NoCard} /\ NoCard \notin Cards /\ Zero \notin Cards \cup {NoCard}
    BY FirmwareAssumption DEF IInv, TypeOK, SD!TypeOK
  <2>2. fd \in Cards \cup {NoCard, Zero}
    BY DEF IInv, TypeOK
  <2>3. QED BY <2>1, <2>2 DEF OpenImage, Error, progVars, diskVars, histVars
<1>3. /\ stage \in 1..4 /\ image[ImageOf(stage)].valid
      /\ writeSize = 0 /\ nwrite = image[ImageOf(stage)].size
  BY <1>2 DEF IInv, TypeOK, Task, Fresh
<1>4. TypeOK'
  BY <1>1, <1>2 DEF IInv, OpenImage, TypeOK, progVars, diskVars, histVars
<1>5. ImageOf(stage) \in Images /\ image[ImageOf(stage)].size \in Nat
  <2>1. ImageOf(stage) \in Images
    BY <1>3, Stages DEF Images
  <2>2. QED BY <2>1, Length DEF IInv
<1>6. Task' /\ Fresh' /\ Round' /\ Started' /\ Dirty' /\ DoneFits' /\ SizeOfMeasured'
  BY <1>2, <1>3, <1>5 DEF IInv, Task, Fresh, Round, Started, Dirty, DoneFits, SizeOfMeasured,
                          Reach
<1>7. ProgressIsDurable'
  BY <1>2, <1>3 DEF ProgressIsDurable
<1>8. Copy'
  <2>1. Offset[ImageOf(stage)] \in Nat /\ Offset[ImageOf(stage)] <= Limit[ImageOf(stage)]
    BY <1>3, <1>5, Layout
  <2>2. Done' = 0
    BY <1>2, <1>3, <1>5 DEF Done
  <2>3. pc' = "write" /\ fd' # Zero => FileSize[fd'][ImageOf(stage)] \in Nat
    BY <1>2, <1>5, FirmwareAssumption
  <2>4. QED BY <1>2, <1>3, <2>1, <2>2, <2>3 DEF Copy
<1>9. DoneIsWhole' /\ RestIsIntact' /\ Untouched'
  BY <1>2, Rests DEF Programmed, Untouched, Images
<1>10. QED BY <1>1, <1>4, <1>6, <1>7, <1>8, <1>9 DEF IInv

LEMMA StepWriteCylinder == ASSUME IInv, WriteCylinder PROVE IInv'
<1>1. CardProofs!CardInv' /\ SD!TypeOK'
  BY CardKept DEF IInv, WriteCylinder
<1>2. /\ pc = "write" /\ pc' = "sync" /\ nwrite # 0 /\ Room >= Want /\ cache' = Written
      /\ UNCHANGED <<stage, image, measured, emmc, before, updates, result, writeSize, nwrite, fd>>
  BY DEF WriteCylinder, progVars, histVars
<1>3. /\ DOMAIN Written \subseteq Addrs
      /\ \A a \in DOMAIN Written : Written[a] \in Cells
      /\ \A a \in DOMAIN Written : a \in Reach(ImageOf(stage))
  BY <1>2, RoundWrites DEF IInv
<1>4. TypeOK'
  BY <1>1, <1>2, <1>3 DEF IInv, WriteCylinder, TypeOK, progVars, histVars
<1>5. Task' /\ Fresh' /\ Started' /\ DoneFits' /\ SizeOfMeasured'
  BY <1>2 DEF IInv, Task, Fresh, Started, DoneFits, SizeOfMeasured
<1>6. Copy'
  BY <1>2 DEF IInv, Copy, Done
<1>7. Round'
  <2>1. Written' = Written
    BY <1>2 DEF Written, Unit, Pos, Room, Want, Done, Smaller
  <2>2. Room' = Room /\ Want' = Want
    BY <1>2 DEF Pos, Room, Want, Done, Smaller
  <2>3. fd # Zero => Done + Want <= FileSize[fd][ImageOf(stage)]
    BY DEF WriteCylinder, Readable
  <2>4. Done' = Done
    BY <1>2 DEF Done
  <2>5. QED BY <1>2, <2>1, <2>2, <2>3, <2>4 DEF Round
<1>8. Dirty'
  BY <1>2, <1>3 DEF Dirty, Reach
<1>9. ProgressIsDurable'
  BY <1>2 DEF IInv, ProgressIsDurable
<1>10. DoneIsWhole' /\ RestIsIntact' /\ Untouched'
  BY <1>2, Rests DEF Programmed, Untouched, Images
<1>11. QED BY <1>1, <1>4, <1>5, <1>6, <1>7, <1>8, <1>9, <1>10 DEF IInv

LEMMA StepReadFails == ASSUME IInv, ReadFails PROVE IInv'
<1>1. CardProofs!CardInv' /\ SD!TypeOK'
  BY CardKept DEF IInv, ReadFails
<1>2. /\ pc = "write" /\ pc' = "error"
      /\ UNCHANGED <<stage, image, measured, emmc, cache, before, updates, result, writeSize, nwrite, fd>>
  BY DEF ReadFails, Error, progVars, diskVars, histVars
<1>3. TypeOK'
  BY <1>1, <1>2 DEF IInv, ReadFails, TypeOK, progVars, histVars
<1>4. /\ Task' /\ Fresh' /\ Copy' /\ Round' /\ Dirty' /\ Started' /\ DoneFits'
      /\ SizeOfMeasured' /\ ProgressIsDurable'
  BY <1>2 DEF IInv, Task, Fresh, Copy, Round, Dirty, Reach, Started, DoneFits, SizeOfMeasured,
              ProgressIsDurable
<1>5. DoneIsWhole' /\ RestIsIntact' /\ Untouched'
  BY <1>2, Rests DEF Programmed, Untouched, Images
<1>6. QED BY <1>1, <1>3, <1>4, <1>5 DEF IInv

LEMMA StepWriteFails == ASSUME IInv, WriteFails PROVE IInv'
<1>1. CardProofs!CardInv' /\ SD!TypeOK'
  <2>1. UNCHANGED cardVars /\ (faults' = faults \/ SD!Fault)
    BY DEF WriteFails
  <2>2. QED BY <2>1, CardKept DEF IInv
<1>2. /\ pc = "write" /\ pc' = "error" /\ nwrite # 0 /\ cache' \in {cache, Written}
      /\ UNCHANGED <<stage, image, measured, emmc, before, updates, result, writeSize, nwrite, fd>>
  BY DEF WriteFails, Error, progVars, histVars
<1>3. DOMAIN cache = {}
  BY <1>2 DEF IInv, Dirty
<1>4. /\ DOMAIN cache' \subseteq Addrs
      /\ \A a \in DOMAIN cache' : cache'[a] \in Cells
      /\ \A a \in DOMAIN cache' : a \in Reach(ImageOf(stage))
  <2>1. CASE cache' = cache
    BY <1>3, <2>1
  <2>2. CASE cache' = Written
    BY <1>2, <2>2, RoundWrites DEF IInv
  <2>3. QED BY <1>2, <2>1, <2>2
<1>5. TypeOK'
  BY <1>1, <1>2, <1>4 DEF IInv, WriteFails, TypeOK, progVars, histVars
<1>6. /\ Task' /\ Fresh' /\ Copy' /\ Round' /\ Started' /\ DoneFits' /\ SizeOfMeasured'
      /\ ProgressIsDurable'
  BY <1>2 DEF IInv, Task, Fresh, Copy, Round, Started, DoneFits, SizeOfMeasured,
              ProgressIsDurable
<1>7. Dirty'
  BY <1>2, <1>4 DEF Dirty, Reach
<1>8. DoneIsWhole' /\ RestIsIntact' /\ Untouched'
  BY <1>2, Rests DEF Programmed, Untouched, Images
<1>9. QED BY <1>1, <1>5, <1>6, <1>7, <1>8 DEF IInv

(* Sync brings the whole cache to the eMMC. *)
LEMMA Synced ==
  ASSUME IInv, Sync, UNCHANGED <<image, measured, before, updates, stage>>, Programmed' <=> Programmed
  PROVE  /\ emmc' \in [Addrs -> Cells] /\ DOMAIN cache' = {}
         /\ DoneIsWhole' /\ RestIsIntact'
         /\ updates' > 0 /\ ~Programmed' => emmc' = before'
<1>1. emmc' = [a \in Addrs |-> IF a \in DOMAIN cache THEN cache[a] ELSE emmc[a]]
  BY DEF Sync, Content, Cached
<1>2. DOMAIN cache' = {}
  BY NoCells DEF Sync
<1>3. DOMAIN cache \in SUBSET DOMAIN cache
  OBVIOUS
<1>4. QED BY <1>1, <1>2, <1>3, Reaches

LEMMA StepFail == ASSUME IInv, Fail PROVE IInv'
<1>1. CardProofs!CardInv' /\ SD!TypeOK'
  BY CardKept DEF IInv, Fail
<1>2. /\ pc = "error" /\ pc' = "idle" /\ result' = "FAIL" /\ Sync /\ fd' = NoCard
      /\ UNCHANGED <<stage, image, measured, before, updates, writeSize, nwrite>>
  BY DEF Fail, Return, histVars
<1>3. Programmed /\ Programmed' /\ stage \in 1..4
  BY <1>2 DEF IInv, TypeOK, Started, Programmed, Task
<1>4. /\ emmc' \in [Addrs -> Cells] /\ DOMAIN cache' = {}
      /\ DoneIsWhole' /\ RestIsIntact'
  BY <1>2, <1>3, Synced
<1>5. TypeOK'
  <2>1. updateError' \in {"WRITE_UBOOT", "WRITE_UIMAGE", "ERASE_ROOTFS", "WRITE_ROOTFS"}
    BY <1>3 DEF Fail, Tasks
  <2>2. QED BY <1>1, <1>2, <1>4, <2>1 DEF IInv, Fail, TypeOK, histVars
<1>6. Task' /\ Fresh' /\ Copy' /\ Round' /\ Dirty' /\ Started' /\ ProgressIsDurable'
  BY <1>2, <1>4 DEF Task, Fresh, Copy, Round, Dirty, Started, ProgressIsDurable
<1>7. DoneFits' /\ SizeOfMeasured' /\ Untouched'
  BY <1>2, <1>3 DEF IInv, DoneFits, SizeOfMeasured, Untouched, Images
<1>8. QED BY <1>1, <1>4, <1>5, <1>6, <1>7 DEF IInv

LEMMA StepSyncCylinder == ASSUME IInv, SyncCylinder PROVE IInv'
<1> DEFINE img == ImageOf(stage)
<1>1. CardProofs!CardInv' /\ SD!TypeOK'
  BY CardKept DEF IInv, SyncCylinder
<1>2. /\ pc = "sync" /\ pc' = "write" /\ Sync /\ nwrite' = nwrite - Want
      /\ writeSize' = Done + Want
      /\ UNCHANGED <<stage, image, measured, before, updates, result, fd>>
  BY DEF SyncCylinder, histVars
<1>3. /\ nwrite # 0 /\ cache = Written /\ Room >= Want /\ writeSize = Done
      /\ fd # NoCard /\ (fd = Zero <=> Erasing(stage))
      /\ stage \in 1..4 /\ image[img].valid /\ nwrite <= image[img].size /\ nwrite \in Nat
  BY <1>2 DEF IInv, Round, Copy, Task, TypeOK
<1>4. /\ Done \in Nat /\ Done < image[img].size
      /\ Pos \in Nat /\ Room \in Nat /\ Want \in Nat \ {0}
      /\ Want <= nwrite /\ Pos = Offset[img] + Done
      /\ DOMAIN Written = Pos..(Pos + Room - 1)
      /\ Room > 0 => Pos + Room <= Limit[img]
      /\ DOMAIN Written \subseteq Addrs
  BY <1>2, <1>3, RoundWrites DEF IInv
<1>5. /\ img \in Images /\ image[img].size \in Nat /\ Offset[img] \in Nat /\ Limit[img] \in Nat
      /\ Limit[img] <= EmmcSize /\ EmmcSize \in Nat
  <2>1. img \in Images
    BY <1>3, Stages DEF Images
  <2>2. QED BY <1>3, <2>1, Length, Layout, FirmwareAssumption DEF IInv
<1>6. Programmed' <=> Programmed
  BY <1>2 DEF Programmed
<1>7. /\ emmc' \in [Addrs -> Cells] /\ DOMAIN cache' = {}
      /\ DoneIsWhole' /\ RestIsIntact' /\ (updates' > 0 /\ ~Programmed' => emmc' = before')
  BY <1>2, <1>6, Synced
<1>8. Done' = Done + Want /\ nwrite' \in Nat /\ nwrite' <= image[img].size
  <2> DEFINE size == image[img].size
  <2>1. Done = size - nwrite /\ Done' = size - nwrite'
    BY <1>2 DEF Done
  <2>2. /\ size \in Nat /\ nwrite \in Nat /\ nwrite <= size /\ nwrite' = nwrite - Want
        /\ Want \in Nat /\ Want <= nwrite
    BY <1>2, <1>3, <1>4, <1>5
  <2> HIDE DEF size, img
  <2>3. Done' = Done + Want /\ nwrite' \in Nat /\ nwrite' <= size
    BY <2>1, <2>2
  <2>4. QED BY <2>3 DEF size
<1>9. TypeOK'
  BY <1>1, <1>2, <1>4, <1>7, <1>8 DEF IInv, SyncCylinder, TypeOK, histVars
<1>10. /\ Task' /\ Fresh' /\ Round' /\ Dirty' /\ Started' /\ DoneFits' /\ Untouched'
       /\ SizeOfMeasured'
  BY <1>2, <1>3, <1>7, <1>8 DEF IInv, Task, Fresh, Round, Dirty, Started, DoneFits,
                                Untouched, SizeOfMeasured, Images
<1> HIDE DEF img
<1>11. Offset[img] + Done + Want <= Limit[img]
  <2>1. Room >= Want /\ Room \in Nat /\ Want \in Nat \ {0}
    BY <1>3, <1>4
  <2>2. Pos + Room <= Limit[img]
    BY <1>4, <2>1
  <2>3. Pos = Offset[img] + Done /\ Offset[img] \in Nat /\ Done \in Nat /\ Limit[img] \in Nat
    BY <1>4, <1>5
  <2>4. QED BY <2>1, <2>2, <2>3
<1>12. Copy'
  <2>1. writeSize' = Done'
    BY <1>2, <1>8
  <2>2. Offset[ImageOf(stage)] + Done' <= Limit[ImageOf(stage)]
    <3>1. Offset[img] + (Done + Want) <= Limit[img]
      BY <1>4, <1>5, <1>11
    <3>2. QED BY <1>8, <3>1 DEF img
  <2>3. stage' = stage /\ fd' = fd /\ fd # NoCard /\ (fd = Zero <=> Erasing(stage))
    BY <1>2, <1>3
  <2>4. ASSUME fd # Zero PROVE Done' <= FileSize[fd][ImageOf(stage)]
    BY <1>2, <1>8, <2>4 DEF IInv, Round
  <2>5. QED BY <2>1, <2>2, <2>3, <2>4 DEF Copy
<1>13. ASSUME NEW k \in 0..(Done + Want - 1)
       PROVE  emmc'[Offset[img] + k] =
                IF fd = Zero THEN Zero ELSE [card |-> fd, img |-> img, at |-> k]
  <2>a. Done \in Nat /\ Want \in Nat /\ Room \in Nat /\ Want <= Room
    BY <1>3, <1>4
  <2>b. k \in Nat /\ k < Done + Want
    BY <2>a
  <2>c. Pos = Offset[img] + Done /\ DOMAIN Written = Pos..(Pos + Room - 1)
    BY <1>4
  <2>d. Offset[img] \in Nat /\ Limit[img] \in Nat /\ EmmcSize \in Nat /\ Limit[img] <= EmmcSize
    BY <1>5
  <2>0. /\ k \in Nat /\ k < Done + Want /\ Done \in Nat /\ Want \in Nat /\ Room \in Nat
        /\ Offset[img] \in Nat /\ Pos = Offset[img] + Done /\ Want <= Room
        /\ DOMAIN Written = Pos..(Pos + Room - 1)
    BY <2>a, <2>b, <2>c, <2>d
  <2>1. Offset[img] + k \in Addrs
    <3>1. Offset[img] + k \in Nat /\ Offset[img] + k < Offset[img] + Done + Want
      BY <2>a, <2>b, <2>d
    <3>2. Offset[img] + k < Limit[img]
      BY <1>11, <2>a, <2>d, <3>1
    <3>3. Offset[img] + k <= EmmcSize - 1
      BY <2>d, <3>1, <3>2
    <3>4. QED BY <2>d, <3>1, <3>3 DEF Addrs
  <2>2. CASE k < Done
    <3>1. Offset[img] + k \notin DOMAIN cache
      BY <1>3, <2>0, <2>2
    <3>2. emmc'[Offset[img] + k] = emmc[Offset[img] + k]
      BY <1>2, <2>1, <3>1 DEF Sync, Content, Cached
    <3>3. k \in 0..(writeSize - 1)
      BY <1>3, <2>0, <2>2
    <3>4. QED BY <1>2, <3>2, <3>3 DEF IInv, ProgressIsDurable, img
  <2>3. CASE ~(k < Done)
    <3>1. /\ k - Done \in Nat /\ k - Done < Want /\ Done + (k - Done) = k
          /\ Offset[img] + k \in DOMAIN Written /\ (Offset[img] + k) - Pos = k - Done
      <4>1. k \in Nat /\ Done \in Nat /\ Want \in Nat /\ k < Done + Want /\ ~(k < Done)
        BY <2>0, <2>3
      <4>2. k - Done \in Nat /\ k - Done < Want /\ Done + (k - Done) = k
        BY <4>1
      <4>3. Offset[img] \in Nat /\ Pos = Offset[img] + Done /\ Want <= Room /\ Room \in Nat
        BY <2>0
      <4>4. (Offset[img] + k) - Pos = k - Done
        BY <4>1, <4>3
      <4>5. Offset[img] + k \in Pos..(Pos + Room - 1)
        BY <4>1, <4>2, <4>3
      <4>6. QED BY <2>0, <4>2, <4>4, <4>5
    <3>2. emmc'[Offset[img] + k] = Written[Offset[img] + k]
      BY <1>2, <1>3, <2>1, <3>1 DEF Sync, Content, Cached
    <3>3. Written[Offset[img] + k] = Unit(k - Done)
      BY <2>0, <3>1 DEF Written
    <3>4. QED BY <3>1, <3>2, <3>3 DEF Unit, img
  <2>4. QED BY <2>2, <2>3
<1>14. ProgressIsDurable'
  <2>1. ASSUME NEW k \in 0..(writeSize' - 1)
        PROVE  emmc'[Offset[ImageOf(stage)] + k] =
                 IF fd = Zero THEN Zero ELSE [card |-> fd, img |-> ImageOf(stage), at |-> k]
    <3>1. k \in 0..(Done + Want - 1)
      <4>1. writeSize' = Done + Want
        BY <1>2
      <4>2. Done \in Nat /\ Want \in Nat
        BY <1>4
      <4>3. QED BY <4>1, <4>2
    <3>2. QED BY <1>13, <3>1 DEF img
  <2>2. QED BY <1>2, <2>1 DEF ProgressIsDurable
<1>15. QED BY <1>1, <1>7, <1>9, <1>10, <1>12, <1>14 DEF IInv

LEMMA StepEndTask == ASSUME IInv, EndTask PROVE IInv'
<1> DEFINE img == ImageOf(stage)
<1>1. CardProofs!CardInv' /\ SD!TypeOK'
  BY CardKept DEF IInv, EndTask
<1>2. /\ pc = "write" /\ pc' = "program" /\ nwrite = 0 /\ stage' = stage + 1
      /\ UNCHANGED <<image, measured, emmc, cache, before, updates, result>>
  BY DEF EndTask, progVars, diskVars, histVars
<1>3. /\ stage \in 1..4 /\ image[img].valid /\ writeSize = Done
      /\ fd \in Cards \cup {Zero} /\ (fd = Zero <=> Erasing(stage))
      /\ Offset[img] + Done <= Limit[img] /\ Programmed /\ DOMAIN cache = {}
  BY <1>2 DEF IInv, TypeOK, Task, Copy, Started, Programmed, Dirty
<1>4. img \in Images /\ image[img].size \in Nat /\ Done = image[img].size
  <2>1. img \in Images
    BY <1>3, Stages DEF Images
  <2>2. image[img].size \in Nat
    BY <2>1, Length DEF IInv
  <2>3. QED BY <1>2, <2>1, <2>2 DEF Done
<1>5. TypeOK'
  BY <1>1, <1>2, <1>3 DEF IInv, EndTask, TypeOK, progVars, diskVars, histVars
<1>6. /\ Task' /\ Fresh' /\ Copy' /\ Round' /\ Dirty' /\ Started' /\ Untouched'
      /\ ProgressIsDurable'
  BY <1>2, <1>3 DEF IInv, Task, Fresh, Copy, Round, Dirty, Started, Untouched,
                    ProgressIsDurable, Programmed, Images
<1>7. \A i \in Images : LastStage(i) < stage + 1 =>
        LastStage(i) < stage \/ (i = img /\ ~Erasing(stage))
  BY <1>3, Layout
<1>8. DoneFits' /\ SizeOfMeasured'
  BY <1>2, <1>3, <1>4, <1>7 DEF IInv, DoneFits, SizeOfMeasured
<1>9. ~Erasing(stage) => \E c \in Cards : FromCard(img, c)
  <2> SUFFICES ASSUME ~Erasing(stage) PROVE FromCard(img, fd) /\ fd \in Cards
    OBVIOUS
  <2>1. fd \in Cards /\ fd # Zero
    BY <1>3
  <2>2. \A k \in 0..(image[img].size - 1) :
          emmc[Offset[img] + k] = [card |-> fd, img |-> img, at |-> k]
    BY <1>2, <1>3, <1>4, <2>1 DEF IInv, ProgressIsDurable
  <2>3. image[img].size <= FileSize[fd][img] /\ FileSize[fd][img] \in Nat
    BY <1>2, <1>4, <2>1, FirmwareAssumption DEF IInv, Copy
  <2>4. image[img].size = FileSize[measured[img]][img]
    BY <1>3, <1>4 DEF IInv, SizeOfMeasured
  <2>5. QED BY <1>4, <2>1, <2>2, <2>3, <2>4 DEF FromCard, Holds
<1>10. DoneIsWhole'
  <2> HIDE DEF img
  <2> SUFFICES ASSUME \A i \in Images : Fits(i), NEW i \in Images, image[i].valid,
                      LastStage(i) < stage + 1
               PROVE  Whole(i) \/ CutShort(i)
    BY <1>2 DEF DoneIsWhole, Fits, Confined, Whole, CutShort, Holds
  <2>1. CASE LastStage(i) < stage
    BY <1>3, <2>1 DEF IInv, DoneIsWhole
  <2>2. CASE i = img /\ ~Erasing(stage)
    BY <1>9, <2>2, AsFromCard
  <2>3. QED BY <1>7, <2>1, <2>2
<1>11. RestIsIntact'
  <2>1. \A i \in Images : FirstStage(i) <= stage => FirstStage(i) <= stage + 1
    BY <1>3, Spaces DEF Images
  <2>2. QED BY <1>2, <2>1 DEF IInv, RestIsIntact, Programmed, Reach
<1>12. QED BY <1>1, <1>5, <1>6, <1>8, <1>10, <1>11 DEF IInv

LEMMA StepSucceed == ASSUME IInv, Succeed PROVE IInv'
<1>1. CardProofs!CardInv' /\ SD!TypeOK'
  BY CardKept DEF IInv, Succeed
<1>2. /\ pc = "program" /\ pc' = "idle" /\ result' = "OK"
      /\ UNCHANGED <<stage, image, measured, emmc, cache, before, updates>>
  BY DEF Succeed, Return, diskVars, histVars
<1>3. TypeOK'
  BY <1>1, <1>2 DEF IInv, Succeed, TypeOK, diskVars, histVars
<1>4. Programmed /\ Programmed' /\ DOMAIN cache = {}
  BY <1>2 DEF IInv, Started, Programmed, Dirty
<1>5. /\ Task' /\ Fresh' /\ Copy' /\ Round' /\ Dirty' /\ Started' /\ DoneFits'
      /\ SizeOfMeasured' /\ ProgressIsDurable'
  BY <1>2, <1>4 DEF IInv, Task, Fresh, Copy, Round, Dirty, Started, DoneFits, SizeOfMeasured,
                    ProgressIsDurable
<1>6. DoneIsWhole' /\ RestIsIntact' /\ Untouched'
  BY <1>2, <1>4, Rests DEF Untouched, Images
<1>7. QED BY <1>1, <1>3, <1>5, <1>6 DEF IInv

LEMMA StepPowerLoss == ASSUME IInv, PowerLoss PROVE IInv'
<1>1. CardProofs!CardInv' /\ SD!TypeOK'
  BY CardKept DEF IInv, PowerLoss
<1>2. /\ pc' = "off" /\ DOMAIN cache' = {}
      /\ UNCHANGED <<stage, image, measured, before, updates, result>>
  BY NoCells DEF PowerLoss, progVars, histVars
<1>3. PICK kept \in SUBSET DOMAIN cache :
        emmc' = [a \in Addrs |-> IF a \in kept THEN cache[a] ELSE emmc[a]]
  BY DEF PowerLoss
<1>4. Programmed' <=> Programmed
  BY <1>2 DEF Programmed
<1>5. /\ emmc' \in [Addrs -> Cells]
      /\ DoneIsWhole' /\ RestIsIntact' /\ (updates' > 0 /\ ~Programmed' => emmc' = before')
  BY <1>2, <1>3, <1>4, Reaches
<1>6. TypeOK'
  BY <1>1, <1>2, <1>5 DEF IInv, PowerLoss, TypeOK, progVars, histVars
<1>7. /\ Task' /\ Fresh' /\ Copy' /\ Round' /\ Dirty' /\ Started' /\ DoneFits' /\ Untouched'
      /\ SizeOfMeasured' /\ ProgressIsDurable'
  BY <1>2, <1>5 DEF IInv, Task, Fresh, Copy, Round, Dirty, Started, DoneFits, Untouched,
                    SizeOfMeasured, ProgressIsDurable, Images
<1>8. QED BY <1>1, <1>5, <1>6, <1>7 DEF IInv

(* The card and its thread, or nothing, moves. *)
LEMMA StepCard ==
  ASSUME IInv, CardProofs!CardInv', SD!TypeOK', steady' \in BOOLEAN,
         UNCHANGED <<pc, stage, progVars, fd, nwrite, diskVars, histVars, result>>
  PROVE  IInv'
<1>1. TypeOK'
  BY DEF IInv, TypeOK, progVars, diskVars, histVars
<1>2. UNCHANGED <<pc, stage, updateTask, updateError, image, writeSize, totalSize, fd, nwrite,
                  emmc, cache, before, measured, updates, result>>
  BY DEF progVars, diskVars, histVars
<1>3. /\ Task' /\ Fresh' /\ Copy' /\ Dirty' /\ Started' /\ DoneFits'
      /\ SizeOfMeasured' /\ ProgressIsDurable'
  BY <1>2 DEF IInv, Task, Fresh, Copy, Done, Dirty, Reach, Started, DoneFits,
              SizeOfMeasured, ProgressIsDurable
<1>4. Round'
  <2>1. Written' = Written
    BY <1>2 DEF Written, Unit, Pos, Room, Want, Done, Smaller
  <2>2. Room' = Room /\ Want' = Want
    BY <1>2 DEF Pos, Room, Want, Done, Smaller
  <2>3. Done' = Done
    BY <1>2 DEF Done
  <2>4. QED BY <1>2, <2>1, <2>2, <2>3 DEF IInv, Round
<1>5. DoneIsWhole' /\ RestIsIntact' /\ Untouched'
  BY <1>2, Rests DEF IInv, Programmed, Untouched
<1>6. QED BY <1>1, <1>3, <1>4, <1>5 DEF IInv

LEMMA Steps == IInv /\ [Next]_vars => IInv'
<1> SUFFICES ASSUME IInv, [Next]_vars PROVE IInv'
  OBVIOUS
<1>1. CASE Begin
  BY <1>1, StepBegin
<1>2. CASE Update
  BY <1>2, StepSetImage, StepCheckImages, StepSkipTask, StepBeginTask, StepOpenImage,
     StepWriteCylinder, StepReadFails, StepWriteFails, StepFail, StepSyncCylinder, StepEndTask,
     StepSucceed
     DEF Update
<1>3. CASE PowerLoss
  BY <1>3, StepPowerLoss
<1>4. CASE Card
  <2>1. CardProofs!CardInv' /\ SD!TypeOK'
    BY <1>4, CardSteps DEF IInv
  <2>2. steady' \in BOOLEAN
    BY <1>4 DEF Card
  <2>3. UNCHANGED <<pc, stage, progVars, fd, nwrite, diskVars, histVars, result>>
    BY <1>4 DEF Card
  <2>4. QED BY <2>1, <2>2, <2>3, StepCard
<1>5. CASE UNCHANGED vars
  <2>1. CardProofs!CardInv' /\ SD!TypeOK'
    <3>1. UNCHANGED cardVars /\ faults' = faults
      BY <1>5 DEF vars
    <3>2. QED BY <3>1, CardKept DEF IInv
  <2>2. steady' \in BOOLEAN
    BY <1>5 DEF vars, IInv, TypeOK
  <2>3. UNCHANGED <<pc, stage, progVars, fd, nwrite, diskVars, histVars, result>>
    BY <1>5 DEF vars
  <2>4. QED BY <2>1, <2>2, <2>3, StepCard
<1>6. QED BY <1>1, <1>2, <1>3, <1>4, <1>5 DEF Next

LEMMA Invariant == Spec => []IInv
BY Inits, Steps, PTL DEF Spec

-----------------------------------------------------------------------------
(* The variables keep their types, those of the card included. *)
THEOREM Typing == Spec => []TypeOK
<1>1. IInv => TypeOK BY DEF IInv
<1>2. QED BY <1>1, Invariant, PTL

(* What writeSize counts is durable and in its place. *)
THEOREM DurableProgress == Spec => []ProgressIsDurable
<1>1. IInv => ProgressIsDurable BY DEF IInv
<1>2. QED BY <1>1, Invariant, PTL

(* An image whose tasks are done is one card's file, whole unless the card was
   swapped after the image was measured, whatever happens after: later tasks,
   errors, loss of power. *)
THEOREM WholeImages == Spec => []DoneIsWhole
<1>1. IInv => DoneIsWhole BY DEF IInv
<1>2. QED BY <1>1, Invariant, PTL

(* An update changes no cell beyond the last cylinder of an image it has come
   to, however it ends. *)
THEOREM IntactRest == Spec => []RestIsIntact
<1>1. IInv => RestIsIntact BY DEF IInv
<1>2. QED BY <1>1, Invariant, PTL

-----------------------------------------------------------------------------
(* Success is the whole card. *)

(* Between its first test and its return, with the card left in place. *)
Undisturbed == steady /\ pc \notin {"idle", "off"}

(* The card then is the mounted one, and no removal event is on its way. *)
InPlace ==
  Undisturbed => /\ volume \in Cards /\ slot = volume /\ mount
                 /\ ~SD!RemovalPending

(* The images setImages has come to were measured on that card, ... *)
Measured(i) == CASE i = "uboot"  -> pc # "uboot"
                 [] i = "uimage" -> pc \notin {"uboot", "uimage"}
                 [] i = "rootfs" -> pc \notin Images

SizesOfCard ==
  Undisturbed => \A i \in Images : Measured(i) => image[i].size = FileSize[volume][i]

(* ... each is read from it ... *)
ReadFromCard == Undisturbed /\ pc \in {"write", "sync"} => fd \in {volume, Zero}

(* ... and the finished ones are on the eMMC. *)
DoneFromCard ==
  (Undisturbed /\ \A i \in Images : Fits(i)) =>
    \A i \in Images :
      image[i].valid /\ LastStage(i) < stage => Holds(i, volume, image[i].size)

WholeInv == InPlace /\ SizesOfCard /\ ReadFromCard /\ DoneFromCard /\ SuccessIsWholeCard

LEMMA AllMeasured == ASSUME pc \notin Images PROVE \A i \in Images : Measured(i)
BY DEF Measured, Images

LEMMA Ended == ASSUME pc' \in {"idle", "off"}, SuccessIsWholeCard' PROVE WholeInv'
BY DEF WholeInv, Undisturbed, InPlace, SizesOfCard, ReadFromCard, DoneFromCard

LEMMA GoesOn ==
  ASSUME IInv', pc' \notin {"idle", "off"}, InPlace', SizesOfCard', ReadFromCard', DoneFromCard'
  PROVE  WholeInv'
BY DEF WholeInv, SuccessIsWholeCard, IInv, Started

(* A step of the update, before its return. *)
LEMMA CardStays ==
  ASSUME InPlace, pc \notin {"idle", "off"}, UNCHANGED <<cardVars, steady>>
  PROVE  InPlace'
BY DEF InPlace, Undisturbed, cardVars, SD!RemovalPending

LEMMA FilesStay ==
  ASSUME SizesOfCard, pc \notin Images \cup {"idle", "off"}, pc' \notin Images,
         UNCHANGED <<volume, steady, image>>
  PROVE  SizesOfCard'
BY AllMeasured DEF SizesOfCard, Undisturbed

LEMMA DoneStays ==
  ASSUME DoneFromCard, pc \notin {"idle", "off"}, UNCHANGED <<volume, steady, image, emmc>>,
         \A i \in Images : image[i].valid /\ LastStage(i) < stage' => LastStage(i) < stage
  PROVE  DoneFromCard'
<1> SUFFICES ASSUME Undisturbed', \A i \in Images : Fits(i)', NEW i \in Images, image'[i].valid,
                    LastStage(i) < stage'
             PROVE  Holds(i, volume, image[i].size)'
  BY DEF DoneFromCard
<1>1. Undisturbed /\ image[i].valid /\ LastStage(i) < stage
  BY DEF Undisturbed
<1>2. \A j \in Images : Fits(j)
  BY DEF Fits, Confined
<1>3. Holds(i, volume, image[i].size)
  BY <1>1, <1>2 DEF DoneFromCard
<1>4. QED BY <1>3 DEF Holds

LEMMA WholeBegin == ASSUME IInv, IInv', Begin PROVE WholeInv'
<1>1. CASE pc' = "uboot"
  <2>1. /\ volume' = volume /\ slot' = slot /\ mount' = mount
        /\ SD!RemovalPending' = SD!RemovalPending
    BY DEF Begin, cardVars, SD!RemovalPending
  <2>2. SD!GetMount = 0 /\ stage' = 1
    BY <1>1 DEF Begin, Return
  <2>3. mount /\ volume \in Cards
    BY <2>2, FirmwareAssumption
       DEF SD!GetMount, IInv, CardProofs!CardInv, CardProofs!FlagMatchesKernel, TypeOK, SD!TypeOK
  <2>4. InPlace'
    BY <2>1, <2>3 DEF InPlace, Undisturbed, Begin
  <2>5. SizesOfCard'
    <3>1. \A i \in Images : ~Measured(i)'
      BY <1>1 DEF Measured, Images
    <3>2. QED BY <3>1 DEF SizesOfCard
  <2>6. ReadFromCard' /\ DoneFromCard'
    BY <1>1, <2>2, Spaces DEF ReadFromCard, DoneFromCard, Images
  <2>7. QED BY <1>1, <2>4, <2>5, <2>6, GoesOn
<1>2. CASE pc' = "idle" /\ result' = "NOSDCARD"
  BY <1>2, Ended DEF SuccessIsWholeCard
<1>3. QED BY <1>1, <1>2 DEF Begin, Return

LEMMA WholeSetImage == ASSUME IInv, IInv', WholeInv, SetImage PROVE WholeInv'
<1>1. /\ pc \in Images /\ pc \notin {"idle", "off", "write", "sync"}
      /\ UNCHANGED <<cardVars, steady>> /\ volume' = volume /\ slot' = slot
      /\ stage' = stage /\ stage = 1
  BY DEF SetImage, Images, cardVars, IInv, Untouched
<1>2. \/ pc = "uboot" /\ pc' = "uimage"
      \/ pc = "uimage" /\ pc' = "rootfs"
      \/ pc = "rootfs" /\ pc' = "check"
  BY <1>1 DEF SetImage, Images
<1>3. InPlace'
  BY <1>1, CardStays DEF WholeInv
<1>4. SizesOfCard'
  <2> SUFFICES ASSUME Undisturbed', NEW i \in Images, Measured(i)'
               PROVE  image'[i].size = FileSize[volume][i]
    BY <1>1 DEF SizesOfCard
  <2>1. Undisturbed /\ volume \in Cards /\ slot = volume
    BY <1>1 DEF Undisturbed, WholeInv, InPlace
  <2>2. PICK size \in SizeSeen(pc) :
          image' = [image EXCEPT ![pc] = [valid |-> size # 0, size |-> size]]
    BY DEF SetImage
  <2>3. size = FileSize[volume][pc]
    BY <2>1, FirmwareAssumption DEF SizeSeen
  <2>4. image \in [Images -> [valid : BOOLEAN, size : Nat]]
    BY DEF IInv, TypeOK
  <2>5. CASE i = pc
    BY <1>1, <2>2, <2>3, <2>4, <2>5
  <2>6. CASE i # pc
    <3>1. Measured(i)
      <4>1. CASE i = "uboot"
        BY <2>6, <4>1 DEF Measured
      <4>2. CASE i = "uimage"
        BY <1>2, <2>6, <4>2 DEF Measured
      <4>3. CASE i = "rootfs"
        BY <1>2, <2>6, <4>3 DEF Measured, Images
      <4>4. QED BY <4>1, <4>2, <4>3 DEF Images
    <3>2. image[i].size = FileSize[volume][i]
      BY <2>1, <3>1 DEF WholeInv, SizesOfCard
    <3>3. QED BY <2>2, <2>4, <2>6, <3>2
  <2>7. QED BY <2>5, <2>6
<1>5. ReadFromCard' /\ DoneFromCard'
  BY <1>1, <1>2, Spaces DEF ReadFromCard, DoneFromCard, Images
<1>6. QED BY <1>2, <1>3, <1>4, <1>5, GoesOn

(* The steps that end an update without success. *)
LEMMA WholeFail ==
  ASSUME Fail \/ (CheckImages /\ pc' = "idle") PROVE WholeInv'
<1>1. pc' = "idle" /\ result' # "OK"
  BY DEF Fail, CheckImages, Return
<1>2. QED BY <1>1, Ended DEF SuccessIsWholeCard

(* The steps that neither change the eMMC nor finish an image. *)
LEMMA WholeQuiet ==
  ASSUME IInv, IInv', WholeInv,
         \/ CheckImages /\ pc' = "program"
         \/ SkipTask \/ BeginTask \/ OpenImage \/ WriteCylinder \/ ReadFails \/ WriteFails
  PROVE  WholeInv'
<1>1. /\ UNCHANGED <<cardVars, steady>> /\ volume' = volume /\ image' = image /\ emmc' = emmc
      /\ pc \in {"check", "program", "open", "write"}
  BY DEF CheckImages, SkipTask, BeginTask, OpenImage, WriteCylinder, ReadFails, WriteFails,
         cardVars, progVars, diskVars
<1>2. pc' \in {"program", "open", "write", "sync", "error"}
  BY DEF CheckImages, SkipTask, BeginTask, OpenImage, WriteCylinder, ReadFails, WriteFails, Error
<1>3. \A i \in Images : image[i].valid /\ LastStage(i) < stage' => LastStage(i) < stage
  <2>1. CASE stage' = stage
    BY <2>1
  <2>2. CASE stage \in 1..4 /\ stage' = stage + 1 /\ ~image[ImageOf(stage)].valid
    BY <2>2, Layout
  <2>3. QED BY <2>1, <2>2
           DEF CheckImages, SkipTask, BeginTask, OpenImage, WriteCylinder, ReadFails, WriteFails,
               IInv, TypeOK
<1>4. ReadFromCard'
  <2>1. CASE OpenImage
    BY <1>1, <2>1 DEF OpenImage, Error, ReadFromCard
  <2>2. CASE WriteCylinder
    BY <1>1, <1>2, <2>2 DEF WriteCylinder, ReadFromCard, Undisturbed, WholeInv
  <2>3. CASE ~OpenImage /\ ~WriteCylinder
    <3>1. pc' \notin {"write", "sync"}
      BY <2>3 DEF CheckImages, SkipTask, BeginTask, ReadFails, WriteFails, Error
    <3>2. QED BY <3>1 DEF ReadFromCard
  <2>4. QED BY <2>1, <2>2, <2>3
<1>5. InPlace'
  BY <1>1, CardStays DEF WholeInv
<1>6. SizesOfCard'
  <2>1. pc \notin Images \cup {"idle", "off"} /\ pc' \notin Images
    BY <1>1, <1>2 DEF Images
  <2>2. QED BY <1>1, <2>1, FilesStay DEF WholeInv
<1>7. DoneFromCard'
  BY <1>1, <1>3, DoneStays DEF WholeInv
<1>8. QED BY <1>2, <1>4, <1>5, <1>6, <1>7, GoesOn

(* The cache that reaches the eMMC leaves the finished images alone. *)
LEMMA WholeSync == ASSUME IInv, IInv', WholeInv, SyncCylinder PROVE WholeInv'
<1>1. /\ UNCHANGED <<cardVars, steady>> /\ volume' = volume /\ image' = image
      /\ stage' = stage /\ fd' = fd /\ pc = "sync" /\ pc' = "write" /\ Sync
  BY DEF SyncCylinder, cardVars
<1>2. InPlace'
  BY <1>1, CardStays DEF WholeInv
<1>3. SizesOfCard'
  BY <1>1, FilesStay DEF WholeInv, Images
<1>4. ReadFromCard'
  BY <1>1 DEF WholeInv, ReadFromCard, Undisturbed
<1>5. DoneFromCard'
  <2> SUFFICES ASSUME Undisturbed', \A i \in Images : Fits(i)', NEW i \in Images,
                      image[i].valid, LastStage(i) < stage
               PROVE  Holds(i, volume, image[i].size)'
    BY <1>1 DEF DoneFromCard
  <2>1. Undisturbed /\ \A j \in Images : Fits(j)
    BY <1>1 DEF Undisturbed, Fits, Confined
  <2>2. Holds(i, volume, image[i].size)
    BY <2>1 DEF WholeInv, DoneFromCard
  <2>3. emmc' = [a \in Addrs |-> IF a \in DOMAIN cache THEN cache[a] ELSE emmc[a]]
    BY <1>1 DEF Sync, Content, Cached
  <2>4. \A k \in 0..(image[i].size - 1) : emmc'[Offset[i] + k] = emmc[Offset[i] + k]
    BY <1>1, <2>1, <2>3, DoneKept
  <2>5. QED BY <1>1, <2>2, <2>4 DEF Holds
<1>6. QED BY <1>1, <1>2, <1>3, <1>4, <1>5, GoesOn

(* An image is finished: what is durable came from the card. *)
LEMMA WholeEndTask == ASSUME IInv, IInv', WholeInv, EndTask PROVE WholeInv'
<1> DEFINE img == ImageOf(stage)
<1>1. /\ UNCHANGED <<cardVars, steady>> /\ volume' = volume /\ image' = image /\ emmc' = emmc
      /\ stage' = stage + 1 /\ pc = "write" /\ pc' = "program" /\ nwrite = 0
  BY DEF EndTask, cardVars, progVars, diskVars
<1>2. InPlace'
  BY <1>1, CardStays DEF WholeInv
<1>3. SizesOfCard'
  BY <1>1, FilesStay DEF WholeInv, Images
<1>4. ReadFromCard'
  BY <1>1 DEF ReadFromCard
<1>5. stage \in 1..4 /\ (fd = Zero <=> Erasing(stage)) /\ writeSize = Done
  BY <1>1 DEF IInv, TypeOK, Task, Copy
<1>6. img \in Images /\ Done = image[img].size
  <2>1. img \in Images
    BY <1>5, Stages DEF Images
  <2>2. image[img].size \in Nat
    BY <2>1, Length DEF IInv
  <2>3. QED BY <1>1, <2>1, <2>2 DEF Done
<1>7. ASSUME Undisturbed, ~Erasing(stage) PROVE Holds(img, volume, image[img].size)
  <2>1. fd = volume /\ fd # Zero
    BY <1>1, <1>5, <1>7 DEF WholeInv, ReadFromCard
  <2>2. \A k \in 0..(writeSize - 1) :
          emmc[Offset[img] + k] = [card |-> fd, img |-> img, at |-> k]
    BY <1>1, <2>1 DEF IInv, ProgressIsDurable
  <2>3. QED BY <1>5, <1>6, <2>1, <2>2 DEF Holds
<1>8. DoneFromCard'
  <2> HIDE DEF img
  <2> SUFFICES ASSUME Undisturbed', \A i \in Images : Fits(i)', NEW i \in Images,
                      image[i].valid, LastStage(i) < stage + 1
               PROVE  Holds(i, volume, image[i].size)'
    BY <1>1 DEF DoneFromCard
  <2>1. Undisturbed /\ \A j \in Images : Fits(j)
    BY <1>1 DEF Undisturbed, Fits, Confined
  <2>2. LastStage(i) < stage \/ (i = img /\ ~Erasing(stage))
    BY <1>5, Layout DEF img
  <2>3. Holds(i, volume, image[i].size)
    <3>1. CASE LastStage(i) < stage
      BY <2>1, <3>1 DEF WholeInv, DoneFromCard
    <3>2. CASE i = img /\ ~Erasing(stage)
      BY <1>7, <2>1, <3>2
    <3>3. QED BY <2>2, <3>1, <3>2
  <2>4. QED BY <1>1, <2>3 DEF Holds
<1>9. QED BY <1>1, <1>2, <1>3, <1>4, <1>8, GoesOn

(* Success: every image is finished, and an image without a file is empty. *)
LEMMA WholeSucceed == ASSUME IInv, WholeInv, Succeed PROVE WholeInv'
<1>1. /\ pc = "program" /\ pc' = "idle" /\ stage = 5
      /\ steady' = steady /\ image' = image /\ emmc' = emmc
  BY DEF Succeed, Return, diskVars, IInv, TypeOK
<1>2. SuccessIsWholeCard'
  <2> SUFFICES ASSUME steady, \A i \in Images : Fits(i)'
               PROVE  (\E c \in Cards : \A i \in Images : Holds(i, c, FileSize[c][i]))'
    BY <1>1 DEF SuccessIsWholeCard
  <2>1. Undisturbed /\ volume \in Cards /\ \A j \in Images : Fits(j)
    BY <1>1 DEF Undisturbed, WholeInv, InPlace, Fits, Confined
  <2>2. ASSUME NEW i \in Images PROVE Holds(i, volume, FileSize[volume][i])
    <3>1. image[i].size = FileSize[volume][i]
      BY <1>1, <2>1, AllMeasured DEF WholeInv, SizesOfCard, Images
    <3>2. LastStage(i) < 5
      BY Spaces DEF Images
    <3>3. CASE image[i].valid
      BY <1>1, <2>1, <3>1, <3>2, <3>3 DEF WholeInv, DoneFromCard
    <3>4. CASE ~image[i].valid
      <4>1. FileSize[volume][i] = 0
        BY <3>1, <3>4, Length DEF IInv
      <4>2. QED BY <4>1 DEF Holds
    <3>5. QED BY <3>3, <3>4
  <2>3. QED BY <1>1, <2>1, <2>2 DEF Holds
<1>3. QED BY <1>1, <1>2, Ended

(* What is on the eMMC stays when nothing is cached. *)
LEMMA SuccessStays ==
  ASSUME SuccessIsWholeCard, UNCHANGED <<emmc, image, result>>, steady' => steady
  PROVE  SuccessIsWholeCard'
<1> SUFFICES ASSUME result = "OK", steady, \A i \in Images : Fits(i)'
             PROVE  (\E c \in Cards : \A i \in Images : Holds(i, c, FileSize[c][i]))'
  BY DEF SuccessIsWholeCard
<1>1. \A i \in Images : Fits(i)
  BY DEF Fits, Confined
<1>2. PICK c \in Cards : \A i \in Images : Holds(i, c, FileSize[c][i])
  BY <1>1 DEF SuccessIsWholeCard
<1>3. QED BY <1>2 DEF Holds

LEMMA WholePowerLoss == ASSUME IInv, WholeInv, PowerLoss PROVE WholeInv'
<1>1. pc' = "off" /\ steady' = steady /\ image' = image /\ result' = result
  BY DEF PowerLoss, progVars
<1>2. CASE result # "OK"
  BY <1>1, <1>2, Ended DEF SuccessIsWholeCard
<1>3. CASE result = "OK"
  <2>1. pc \in {"idle", "off"} /\ DOMAIN cache = {}
    BY <1>3 DEF IInv, Started, Dirty
  <2>2. emmc' = [a \in Addrs |-> emmc[a]] /\ emmc \in [Addrs -> Cells]
    BY <2>1 DEF PowerLoss, IInv, TypeOK
  <2>3. emmc' = emmc
    BY <2>2
  <2>4. QED BY <1>1, <2>3, SuccessStays, Ended DEF WholeInv
<1>4. QED BY <1>2, <1>3

(* A card that stays where it is, with no removal to come, stays mounted. *)
LEMMA CardInPlace ==
  ASSUME IInv, InPlace, Undisturbed, Card, slot' = slot
  PROVE  volume' = volume /\ mount' = mount /\ ~SD!RemovalPending'
<1>1. mount = TRUE /\ slot \in Cards /\ slot # NoCard /\ ~SD!RemovalPending
  BY FirmwareAssumption DEF InPlace, IInv, TypeOK, SD!TypeOK
<1>2. uevents \in Seq({"add", "remove"}) /\ thread # "remove"
  BY <1>1 DEF IInv, TypeOK, SD!TypeOK, SD!RemovalPending
<1>3. SD!MountVolume => volume' = volume /\ mount' = mount
  BY <1>1 DEF SD!MountVolume
<1>4. ~SD!User
  <2>1. ~SD!Insert
    BY <1>1 DEF SD!Insert
  <2>2. ~SD!Remove
    BY <1>1 DEF SD!Remove, SD!Change
  <2>3. QED BY <2>1, <2>2 DEF SD!User
<1>5. CASE SD!Receive
  <2>1. Head(uevents) \in {"add", "remove"} /\ uevents' = Tail(uevents) /\ uevents # <<>>
    BY <1>2, <1>5, HeadTailProperties DEF SD!Receive
  <2>2. Head(uevents) = uevents[1] /\ 1 \in 1..Len(uevents)
    BY <1>2, <2>1, HeadTailProperties, LenProperties, EmptySeq
  <2>3. Head(uevents) # "remove"
    BY <1>1, <2>2 DEF SD!RemovalPending
  <2>4. /\ Len(Tail(uevents)) = Len(uevents) - 1
        /\ \A i \in 1..Len(Tail(uevents)) : Tail(uevents)[i] = uevents[i + 1]
        /\ Len(uevents) \in Nat
    BY <1>2, <2>1, HeadTailProperties, LenProperties
  <2>5. \A i \in 1..Len(uevents') : uevents'[i] # "remove"
    BY <1>1, <2>1, <2>4 DEF SD!RemovalPending
  <2>6. thread' # "remove"
    BY <1>5, <2>3 DEF SD!Receive, SD!Step
  <2>7. volume' = volume /\ mount' = mount
    BY <1>5 DEF SD!Receive, SD!picture
  <2>8. QED BY <2>5, <2>6, <2>7 DEF SD!RemovalPending
<1>6. CASE SD!Thread /\ ~SD!Receive
  <2>1. uevents' = uevents /\ thread' # "remove" /\ ~SD!HandleRemove
    BY <1>2, <1>6 DEF SD!Thread, SD!Start, SD!Bind, SD!Leave, SD!HandleAdd, SD!HandleMount,
                      SD!HandleRemove, SD!Step
  <2>2. volume' = volume /\ mount' = mount
    BY <1>3, <1>6, <2>1 DEF SD!Thread, SD!Start, SD!Bind, SD!Leave, SD!HandleAdd,
                            SD!HandleMount, SD!picture
  <2>3. QED BY <1>1, <2>1, <2>2 DEF SD!RemovalPending
<1>7. CASE SD!CreateCheck \/ SD!CreateMount \/ SD!CreateSpawn
  <2>1. uevents' = uevents /\ thread' # "remove"
    BY <1>2, <1>7 DEF SD!CreateCheck, SD!CreateMount, SD!CreateSpawn
  <2>2. volume' = volume /\ mount' = mount
    BY <1>3, <1>7 DEF SD!CreateCheck, SD!CreateMount, SD!CreateSpawn, SD!picture
  <2>3. QED BY <1>1, <2>1, <2>2 DEF SD!RemovalPending
<1>8. QED BY <1>4, <1>5, <1>6, <1>7 DEF Card

LEMMA WholeCardStep == ASSUME IInv, IInv', WholeInv, Card PROVE WholeInv'
<1>1. /\ UNCHANGED <<pc, stage, fd, image, emmc, result>> /\ pc # "off"
      /\ steady' <=> steady /\ (pc = "idle" \/ slot' = slot)
  BY DEF Card, progVars, diskVars
<1>2. CASE ~Undisturbed
  <2>1. ~Undisturbed'
    BY <1>1, <1>2 DEF Undisturbed
  <2>2. SuccessIsWholeCard'
    BY <1>1, SuccessStays DEF WholeInv
  <2>3. QED BY <2>1, <2>2 DEF WholeInv, InPlace, SizesOfCard, ReadFromCard, DoneFromCard
<1>3. CASE Undisturbed /\ slot' # slot
  <2>1. ~Undisturbed'
    BY <1>1, <1>3 DEF Undisturbed
  <2>2. SuccessIsWholeCard'
    BY <1>1, SuccessStays DEF WholeInv
  <2>3. QED BY <2>1, <2>2 DEF WholeInv, InPlace, SizesOfCard, ReadFromCard, DoneFromCard
<1>4. CASE Undisturbed /\ slot' = slot
  <2>1. volume' = volume /\ mount' = mount /\ ~SD!RemovalPending'
    BY <1>4, CardInPlace DEF WholeInv
  <2>2. InPlace'
    BY <1>4, <2>1 DEF WholeInv, InPlace
  <2>3. SizesOfCard'
    <3>1. \A i \in Images : Measured(i)' = Measured(i)
      BY <1>1 DEF Measured
    <3>2. QED BY <1>1, <1>4, <2>1, <3>1 DEF WholeInv, SizesOfCard
  <2>4. ReadFromCard'
    BY <1>1, <1>4, <2>1 DEF WholeInv, ReadFromCard
  <2>5. DoneFromCard'
    BY <1>1, <1>4, <2>1 DEF WholeInv, DoneFromCard, Fits, Confined, Holds
  <2>6. SuccessIsWholeCard'
    BY <1>1, SuccessStays DEF WholeInv
  <2>7. QED BY <2>2, <2>3, <2>4, <2>5, <2>6 DEF WholeInv
<1>5. QED BY <1>2, <1>3, <1>4

LEMMA WholeStutter == ASSUME WholeInv, UNCHANGED vars PROVE WholeInv'
<1>1. UNCHANGED <<cardVars, pc, stage, fd, image, emmc, result, steady>> /\ volume' = volume
  BY DEF vars, cardVars, progVars, diskVars
<1>2. SuccessIsWholeCard'
  BY <1>1, SuccessStays DEF WholeInv
<1>3. InPlace' /\ ReadFromCard'
  BY <1>1 DEF WholeInv, InPlace, ReadFromCard, Undisturbed, cardVars, SD!RemovalPending
<1>4. SizesOfCard'
  BY <1>1 DEF WholeInv, SizesOfCard, Undisturbed, Measured
<1>5. DoneFromCard'
  BY <1>1 DEF WholeInv, DoneFromCard, Undisturbed, Fits, Confined, Holds
<1>6. QED BY <1>2, <1>3, <1>4, <1>5 DEF WholeInv

LEMMA WholeSteps == IInv /\ IInv' /\ WholeInv /\ [Next]_vars => WholeInv'
<1> SUFFICES ASSUME IInv, IInv', WholeInv, [Next]_vars PROVE WholeInv'
  OBVIOUS
<1>1. CASE Begin
  BY <1>1, WholeBegin
<1>2. CASE Update
  <2>1. CheckImages => pc' \in {"program", "idle"}
    BY DEF CheckImages, Return
  <2>2. QED BY <1>2, <2>1, WholeSetImage, WholeFail, WholeQuiet, WholeSync, WholeEndTask,
               WholeSucceed
            DEF Update
<1>3. CASE PowerLoss
  BY <1>3, WholePowerLoss
<1>4. CASE Card
  BY <1>4, WholeCardStep
<1>5. CASE UNCHANGED vars
  BY <1>5, WholeStutter
<1>6. QED BY <1>1, <1>2, <1>3, <1>4, <1>5 DEF Next

(* With the card left in place, success means that every file of the card is on
   the eMMC. *)
THEOREM WholeCard == Spec => []SuccessIsWholeCard
<1>1. Init => WholeInv
  BY DEF Init, WholeInv, Undisturbed, InPlace, SizesOfCard, ReadFromCard, DoneFromCard,
         SuccessIsWholeCard
<1>2. WholeInv => SuccessIsWholeCard
  BY DEF WholeInv
<1>3. QED BY <1>1, <1>2, WholeSteps, Invariant, PTL DEF Spec
=============================================================================
