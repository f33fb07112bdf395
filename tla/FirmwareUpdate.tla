---------------------------- MODULE FirmwareUpdate ----------------------------
(***************************************************************************)
(* The firmware update: sysctrl_firmware_update (core/sysctrl.c) and the   *)
(* in-system programming manager it drives (etc/ispmgr.c), beside the SD   *)
(* card (SdCard) that holds the image files and may be pulled or swapped   *)
(* at any moment.                                                          *)
(*                                                                         *)
(* Files and the eMMC are arrays of units; a cylinder of Cyl units is what *)
(* one read/write/sync round moves.  A cell of the eMMC holds Old (what    *)
(* it had before this program), Zero, or a unit of an image file.  What  *)
(* write(2) has taken stays in the kernel's cache until sync(2).           *)
(***************************************************************************)
EXTENDS Naturals, Sequences

CONSTANTS Cards, NoCard, MaxChanges, MaxFaults,
          FileSize,     \* [Cards -> [Images -> Nat]], 0: no such file, or empty
          Cyl,          \* ISPMGR_CYLINDER_SIZE
          Offset,       \* [Images -> Nat]: where each image starts on the eMMC
          Limit,        \* [Images -> Nat]: where the block device it goes to ends
          EmmcSize,
          Old, Zero,    \* contents of a cell; Zero also stands for /dev/zero
          MaxUpdates    \* bound: updates started

Images == {"uboot", "uimage", "rootfs"}

(* The tasks of ispmgr_start_programming, in order, and the image of each. *)
Tasks == <<"WRITE_UBOOT", "WRITE_UIMAGE", "ERASE_ROOTFS", "WRITE_ROOTFS">>
ImageOf(t) == <<"uboot", "uimage", "rootfs", "rootfs">>[t]
Erasing(t) == Tasks[t] = "ERASE_ROOTFS"

Addrs == 0..(EmmcSize - 1)
Units == [card : Cards, img : Images, at : Nat]
Cells == {Old, Zero} \cup Units

ASSUME FirmwareAssumption ==
  /\ NoCard \notin Cards /\ Zero \notin Cards \cup {NoCard, Old}
  /\ Old \notin Units /\ Zero \notin Units
  /\ MaxChanges \in Nat /\ MaxFaults \in Nat /\ MaxUpdates \in Nat
  /\ FileSize \in [Cards -> [Images -> Nat]]
  /\ Cyl \in Nat \ {0}
  /\ EmmcSize \in Nat \ {0}
  /\ Offset \in [Images -> Nat] /\ Limit \in [Images -> Nat]
  /\ \A i \in Images : Offset[i] < Limit[i] /\ Limit[i] <= EmmcSize
  \* u-boot at 1024, the kernel at 1 MiB, then the partition of the root fs
  /\ Offset["uboot"] < Offset["uimage"] /\ Offset["uimage"] < Offset["rootfs"]

VARIABLES
  \* SdCard
  slot, uevents, volume, insertion, mount, runDectection, thread, caller,
  changes, missed, faults,
  \* sysctrl_firmware_update and ispmgr_attribute
  pc,            \* where the main thread is
  stage,         \* index in Tasks of the task being done
  updateTask,
  updateError,
  image,         \* image[i]: image_valid, and status.st_size (0 when not valid:
                 \* no code reads the size of an invalid image)
  writeSize, totalSize,
  fd,            \* the open image file: a card, or Zero for /dev/zero
  nwrite,        \* units of the image not yet written
  \* the eMMC (external)
  emmc,          \* what is durable
  cache,         \* what write(2) took since the last sync
  \* history
  before,        \* emmc when the update began
  measured,      \* measured[i]: the card whose file stat(2) saw for image i
  steady,        \* the card has been in place, and not changed, since then
  updates,
  result         \* return code of sysctrl_firmware_update

SD == INSTANCE SdCard

cardVars == <<slot, uevents, volume, insertion, mount, runDectection, thread,
              caller, changes, missed>>
diskVars == <<emmc, cache>>
progVars == <<updateTask, updateError, image, writeSize, totalSize>>
histVars == <<before, measured, updates>>
vars == <<cardVars, faults, pc, stage, progVars, fd, nwrite, diskVars, histVars, steady,
          result>>

Init ==
  /\ SD!Init
  /\ pc = "idle"
  /\ stage = 1
  /\ updateTask = "STANDBY"
  /\ updateError = "WRITE_UBOOT"      \* ERRCODE_WRITE_UBOOT is 0, the initial value
  /\ image = [i \in Images |-> [valid |-> FALSE, size |-> 0]]
  /\ writeSize = 0 /\ totalSize = 0
  /\ fd = NoCard
  /\ nwrite = 0
  /\ emmc = [a \in Addrs |-> Old]
  /\ cache = <<>>
  /\ before = emmc
  /\ measured = [i \in Images |-> NoCard]
  /\ steady = FALSE
  /\ updates = 0
  /\ result = "none"

-----------------------------------------------------------------------------
(* The eMMC. *)

Cached(a) == a \in DOMAIN cache
Content == [a \in Addrs |-> IF Cached(a) THEN cache[a] ELSE emmc[a]]

Sync == emmc' = Content /\ cache' = <<>>

Return(code) == pc' = "idle" /\ result' = code

-----------------------------------------------------------------------------
(* sysctrl_firmware_update. *)

(* The task is reset and the card looked for. *)
Begin ==
  /\ pc = "idle"
  /\ updates < MaxUpdates
  /\ caller = "created"
  /\ updateTask' = "STANDBY"
  /\ updates' = updates + 1
  /\ before' = emmc
  /\ steady' = (slot = volume /\ ~SD!RemovalPending)
  /\ stage' = 1
  /\ \/ SD!GetMount = 0 /\ pc' = "uboot" /\ result' = "none"
     \/ SD!GetMount # 0 /\ Return("NOSDCARD")
  /\ UNCHANGED <<cardVars, faults, updateError, image, writeSize, totalSize, fd,
                 nwrite, diskVars, measured>>

(* What stat(2) finds at the mount point: the file of the mounted card, or
   nothing once that card has left the slot. *)
SizeSeen(i) ==
  IF volume = NoCard THEN {0}
  ELSE {FileSize[volume][i]} \cup (IF slot = volume THEN {} ELSE {0})

(* setImages (ispmgr_set_image) for one image, setBlkdev included: an image is
   valid when its file exists and is not empty. *)
SetImage ==
  /\ pc \in Images
  /\ \E size \in SizeSeen(pc) : image' = [image EXCEPT ![pc] = [valid |-> size # 0, size |-> size]]
  /\ measured' = [measured EXCEPT ![pc] = volume]
  /\ pc' = [uboot |-> "uimage", uimage |-> "rootfs", rootfs |-> "check"][pc]
  /\ UNCHANGED <<cardVars, faults, stage, updateTask, updateError, writeSize, totalSize,
                 fd, nwrite, diskVars, before, updates, steady, result>>

(* getImagesValiable. *)
CheckImages ==
  /\ pc = "check"
  /\ \/ (\E i \in Images : image[i].valid) /\ pc' = "program" /\ UNCHANGED result
     \/ (\A i \in Images : ~image[i].valid) /\ Return("NOFILE")
  /\ UNCHANGED <<cardVars, faults, stage, progVars, fd, nwrite, diskVars, histVars, steady>>

-----------------------------------------------------------------------------
(* ispmgr_start_programming. *)

(* if (image[...].image_valid) fails: on to the next task. *)
SkipTask ==
  /\ pc = "program"
  /\ stage <= 4
  /\ ~image[ImageOf(stage)].valid
  /\ stage' = stage + 1
  /\ UNCHANGED <<cardVars, faults, pc, progVars, fd, nwrite, diskVars, histVars, steady,
                 result>>

(* ispmgr_write_uboot, .._uimage, ispmgr_erase_rootfs, .._rootfs: the task is
   named and ispmgr_write_image resets the progress. *)
BeginTask ==
  /\ pc = "program"
  /\ stage <= 4
  /\ image[ImageOf(stage)].valid
  /\ pc' = "open"
  /\ updateTask' = Tasks[stage]
  /\ writeSize' = 0
  /\ totalSize' = image[ImageOf(stage)].size
  /\ nwrite' = image[ImageOf(stage)].size
  /\ UNCHANGED <<cardVars, faults, stage, updateError, image, fd, diskVars, histVars, steady,
                 result>>

(* goto error_exit. *)
Error == pc' = "error"

(* Mutant: the return value of ispmgr_start_programming is lost. *)
FailUnseen ==
  /\ pc = "error"
  /\ updateError' = Tasks[stage]
  /\ fd' = NoCard
  /\ Sync
  /\ Return("OK")
  /\ UNCHANGED <<cardVars, faults, stage, updateTask, image, writeSize, totalSize,
                 nwrite, histVars, steady>>

(* error_exit of ispmgr_write_image and of ispmgr_start_programming: files are
   closed (which writes the cache back), the error is kept, the remaining tasks
   are not done. *)
Fail ==
  /\ pc = "error"
  /\ updateError' = Tasks[stage]
  /\ fd' = NoCard
  /\ Sync
  /\ Return("FAIL")
  /\ UNCHANGED <<cardVars, faults, stage, updateTask, image, writeSize, totalSize,
                 nwrite, histVars, steady>>

(* open, lseek and malloc; the file is looked up again by its path. *)
OpenImage ==
  /\ pc = "open"
  /\ \/ /\ Erasing(stage)
        /\ fd' = Zero /\ pc' = "write" /\ UNCHANGED faults
     \/ /\ ~Erasing(stage)
        /\ volume # NoCard
        /\ FileSize[volume][ImageOf(stage)] # 0
        /\ fd' = volume /\ pc' = "write" /\ UNCHANGED faults
     \/ /\ ~Erasing(stage)
        /\ 0 \in SizeSeen(ImageOf(stage))
        /\ Error /\ UNCHANGED <<fd, faults>>
     \/ SD!Fault /\ Error /\ UNCHANGED fd
  /\ UNCHANGED <<cardVars, stage, progVars, nwrite, diskVars, histVars, steady,
                 result>>

Smaller(a, b) == IF a < b THEN a ELSE b

(* How much is written when the loop comes round: the position in both files,
   the units to read, and the room left on the block device. *)
Done == image[ImageOf(stage)].size - nwrite
Want == Smaller(nwrite, Cyl)
(* Mutant: no lseek on the block device. *)
PosNoSeek == Done

Pos == Offset[ImageOf(stage)] + Done
Room == Smaller(Cyl, IF Pos < Limit[ImageOf(stage)] THEN Limit[ImageOf(stage)] - Pos ELSE 0)

Readable == IF fd = Zero THEN TRUE ELSE Done + Want <= FileSize[fd][ImageOf(stage)]

Unit(k) == IF fd = Zero THEN Zero
           ELSE [card |-> fd, img |-> ImageOf(stage), at |-> Done + k]

(* The buffer is zeroed, filled by read, and written whole: the last round
   writes a full cylinder too, zeros after the end of the image. *)
Written ==
  [a \in Pos..(Pos + Room - 1) |-> IF a - Pos < Want THEN Unit(a - Pos) ELSE Zero]

(* Mutant: the progress is assigned before sync. *)
WriteCylinderEager ==
  /\ pc = "write"
  /\ nwrite # 0
  /\ Readable
  /\ Room >= Want
  /\ cache' = Written
  /\ writeSize' = Done + Want
  /\ pc' = "sync"
  /\ UNCHANGED <<cardVars, faults, stage, updateTask, updateError, image, totalSize, fd,
                 nwrite, emmc, histVars, steady, result>>

(* read succeeds and write takes at least what the image still needs. *)
WriteCylinder ==
  /\ pc = "write"
  /\ nwrite # 0
  /\ Readable
  /\ Room >= Want
  /\ cache' = Written
  /\ pc' = "sync"
  /\ UNCHANGED <<cardVars, faults, stage, progVars, fd, nwrite, emmc, histVars, steady,
                 result>>

(* read comes up short: the card is gone, or another card's file is shorter
   than the one that was measured. *)
ReadFails ==
  /\ pc = "write"
  /\ nwrite # 0
  /\ ~Readable \/ (fd # Zero /\ fd # slot)
  /\ Error
  /\ UNCHANGED <<cardVars, faults, stage, progVars, fd, nwrite, diskVars, histVars, steady,
                 result>>

(* write takes less: end of the block device, or an I/O error. *)
WriteFails ==
  /\ pc = "write"
  /\ nwrite # 0
  /\ Readable
  /\ \/ Room < Want /\ cache' = Written /\ UNCHANGED faults
     \/ SD!Fault /\ cache' \in {cache, Written}
  /\ Error
  /\ UNCHANGED <<cardVars, stage, progVars, fd, nwrite, emmc, histVars, steady,
                 result>>

(* Mutant: nwrite is not decreased. *)
SyncNoProgress ==
  /\ pc = "sync"
  /\ Sync
  /\ pc' = "write"
  /\ UNCHANGED <<cardVars, faults, stage, progVars, fd, nwrite, histVars, steady, result>>

(* sync, then the progress the drawing thread shows. *)
SyncCylinder ==
  /\ pc = "sync"
  /\ Sync
  /\ nwrite' = nwrite - Want
  /\ writeSize' = Done + Want
  /\ pc' = "write"
  /\ UNCHANGED <<cardVars, faults, stage, updateTask, updateError, image, totalSize, fd,
                 histVars, steady,
                 result>>

(* Mutant: the last, partial cylinder is left out. *)
EndTaskEarly ==
  /\ pc = "write"
  /\ nwrite < Cyl
  /\ fd' = NoCard
  /\ stage' = stage + 1
  /\ pc' = "program"
  /\ UNCHANGED <<cardVars, faults, progVars, nwrite, diskVars, histVars, steady, result>>

(* The image is written: files closed, next task. *)
EndTask ==
  /\ pc = "write"
  /\ nwrite = 0
  /\ fd' = NoCard
  /\ stage' = stage + 1
  /\ pc' = "program"
  /\ UNCHANGED <<cardVars, faults, progVars, nwrite, diskVars, histVars, steady,
                 result>>

(* Every task is done: sysctrl_firmware_update resets the task. *)
Succeed ==
  /\ pc = "program"
  /\ stage > 4
  /\ updateTask' = "STANDBY"
  /\ Return("OK")
  /\ UNCHANGED <<cardVars, faults, stage, updateError, image, writeSize, totalSize, fd,
                 nwrite, diskVars, histVars, steady>>

Update ==
  \/ SetImage \/ CheckImages \/ SkipTask \/ BeginTask \/ OpenImage \/ WriteCylinder
  \/ ReadFails \/ WriteFails \/ Fail \/ SyncCylinder \/ EndTask \/ Succeed

(* Power is lost at any point: any part of the cache may have reached the eMMC. *)
PowerLoss ==
  /\ pc # "off"
  /\ pc' = "off"
  /\ \E kept \in SUBSET DOMAIN cache :
       emmc' = [a \in Addrs |-> IF a \in kept THEN cache[a] ELSE emmc[a]]
  /\ cache' = <<>>
  /\ UNCHANGED <<cardVars, faults, stage, progVars, fd, nwrite, histVars, steady,
                 result>>

(* The card, its detection thread, and sdcard_create before the first update. *)
Card ==
  /\ pc # "off"
  /\ \/ SD!User \/ SD!Thread
     \/ SD!CreateCheck \/ SD!CreateMount \/ SD!CreateSpawn
  /\ steady' = (steady /\ (pc = "idle" \/ slot' = slot))
  /\ UNCHANGED <<pc, stage, progVars, fd, nwrite, diskVars, histVars, result>>

Next == Begin \/ Update \/ PowerLoss \/ Card

(* An update that was started goes on; the user may stop. *)
Fairness == WF_vars(Update)

Spec == Init /\ [][Next]_vars /\ Fairness

-----------------------------------------------------------------------------
TypeOK ==
  /\ SD!TypeOK
  /\ pc \in Images \cup {"idle", "check", "program", "open", "write", "sync", "error", "off"}
  /\ stage \in 1..5
  /\ updateTask \in {"STANDBY", "WRITE_UBOOT", "WRITE_UIMAGE", "ERASE_ROOTFS",
                    "WRITE_ROOTFS"}
  /\ updateError \in {"WRITE_UBOOT", "WRITE_UIMAGE", "ERASE_ROOTFS", "WRITE_ROOTFS"}
  /\ image \in [Images -> [valid : BOOLEAN, size : Nat]]
  /\ \A i \in Images : image[i].valid <=> image[i].size # 0
  /\ writeSize \in Nat /\ totalSize \in Nat /\ nwrite \in Nat
  /\ fd \in Cards \cup {NoCard, Zero}
  /\ emmc \in [Addrs -> Cells]
  /\ DOMAIN cache \subseteq Addrs /\ \A a \in DOMAIN cache : cache[a] \in Cells
  /\ before \in [Addrs -> Cells]
  /\ measured \in [Images -> Cards \cup {NoCard}]
  /\ steady \in BOOLEAN
  /\ updates \in 0..MaxUpdates
  /\ result \in {"none", "OK", "NOSDCARD", "NOFILE", "FAIL"}

(* The address after the space an image has on the eMMC. *)
EndOf(i) == CASE i = "uboot"  -> Offset["uimage"]
              [] i = "uimage" -> Offset["rootfs"]
              [] i = "rootfs" -> Limit["rootfs"]

(* What is written for an image stays in its space: the block device ends there,
   or the image fits. *)
Confined(i) == Limit[i] <= EndOf(i)
Fits(i)     == image[i].valid => Confined(i) \/ Offset[i] + image[i].size <= EndOf(i)

Holds(i, c, n) ==
  \A k \in 0..(n - 1) : emmc[Offset[i] + k] = [card |-> c, img |-> i, at |-> k]

(* The file of one card, all of it; and as much of a longer file of another card
   as the card that was measured had, with the rest missing. *)
Whole(i) ==
  \E c \in Cards : image[i].size = FileSize[c][i] /\ Holds(i, c, FileSize[c][i])
CutShort(i) ==
  \E c \in Cards \ {measured[i]} :
    image[i].size < FileSize[c][i] /\ Holds(i, c, image[i].size)

(* The cells an update of image i may write: from its start to the end of its
   last cylinder, on its block device. *)
Reach(i) ==
  {a \in Addrs : /\ Offset[i] <= a /\ a < Limit[i]
                 /\ a < Offset[i] + image[i].size + (Cyl - 1)}

(* The stage at which image i is complete, and the one at which it is begun. *)
LastStage(i)  == CASE i = "uboot" -> 1 [] i = "uimage" -> 2 [] i = "rootfs" -> 4
FirstStage(i) == CASE i = "uboot" -> 1 [] i = "uimage" -> 2 [] i = "rootfs" -> 3

Programmed == updates > 0 /\ result \notin {"NOSDCARD", "NOFILE"}

(* The progress on the screen never runs ahead of the eMMC: what writeSize
   counts is durable, each unit of the file at its place, whenever the power
   may go.  (writeSize is assigned after sync returns.) *)
ProgressIsDurable ==
  pc \in {"write", "sync"} =>
    \A k \in 0..(writeSize - 1) :
      emmc[Offset[ImageOf(stage)] + k] =
        IF fd = Zero THEN Zero ELSE [card |-> fd, img |-> ImageOf(stage), at |-> k]

(* An image whose tasks are done is one card's file on the eMMC, never parts of
   two, and stays so through later tasks, a failure or a power loss.  It is the
   whole file, unless the card was swapped after the image was measured: size and
   file are then of two cards, and a longer file of the new one is cut short
   without an error (ispmgr_write_image goes by st_size and not by the end of the
   file). *)
DoneIsWhole ==
  (Programmed /\ \A i \in Images : Fits(i)) =>
    \A i \in Images : image[i].valid /\ LastStage(i) < stage => Whole(i) \/ CutShort(i)

(* Whatever ends an update, it has changed the eMMC only for an image that has a
   file and that it has come to, and there no further than the end of the image's
   last cylinder: every cell outside is as it was, and without a card or a file
   the whole eMMC is.  (The last cylinder may spill over what follows the image,
   which is all that an image not come to can lose.) *)
RestIsIntact ==
  updates > 0 =>
    \A a \in Addrs : emmc[a] # before[a] =>
      /\ Programmed
      /\ \E i \in Images : image[i].valid /\ FirstStage(i) <= stage /\ a \in Reach(i)

(* With the card left in place, success means that every file of the card is on
   the eMMC. *)
SuccessIsWholeCard ==
  (result = "OK" /\ steady /\ \A i \in Images : Fits(i)) =>
    \E c \in Cards : \A i \in Images : Holds(i, c, FileSize[c][i])

(* Every update returns, whatever happens to the card. *)
UpdateReturns == (pc # "idle") ~> (pc \in {"idle", "off"})
=============================================================================
