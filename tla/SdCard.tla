-------------------------------- MODULE SdCard --------------------------------
(***************************************************************************)
(* modules/sdcard.c: detection and mounting of the SD card.                *)
(*                                                                         *)
(* sdcard_create looks for a card once, then starts a thread that follows  *)
(* the kernel's uevents.  The thread reacts to an event some time after    *)
(* the card has changed, so its picture (insertion, mount) may be behind   *)
(* the slot; and no event reaches it before its socket is bound.           *)
(* The slot, the event queue of the socket and the mounted volume belong   *)
(* to the kernel and the user (external).                                  *)
(***************************************************************************)
EXTENDS Naturals, Sequences

CONSTANTS Cards,
          NoCard,
          MaxChanges,   \* bound: insertions and removals
          MaxFaults     \* bound: system calls that fail without a cause here

ASSUME SdCardAssumption ==
  /\ NoCard \notin Cards
  /\ MaxChanges \in Nat
  /\ MaxFaults \in Nat

VARIABLES
  slot,           \* the card in the slot (external)
  uevents,        \* kernel events waiting in the socket (external)
  volume,         \* the card whose file system is at /mnt/sdcard (external)
  insertion,      \* sdcard_attribute.insertion
  mount,          \* sdcard_attribute.mount
  runDectection,  \* sdcard_attribute.runDectection
  thread,         \* where the detection thread is
  caller,         \* where the thread in sdcard_create / sdcard_destroy is
  changes,        \* changes of the slot so far
  missed,         \* the slot changed after sdcard_create looked and before bind
  faults          \* failed system calls so far

vars == <<slot, uevents, volume, insertion, mount, runDectection, thread,
          caller, changes, missed, faults>>

picture == <<volume, insertion, mount>>

Init ==
  /\ slot \in Cards \cup {NoCard}
  /\ uevents = <<>>
  /\ volume = NoCard
  /\ insertion = FALSE
  /\ mount = FALSE
  /\ runDectection = FALSE
  /\ thread = "none"
  /\ caller = "check"
  /\ changes = 0
  /\ missed = FALSE
  /\ faults = 0

Bound == thread \in {"loop", "add", "mount", "remove"}

Fault == faults < MaxFaults /\ faults' = faults + 1

-----------------------------------------------------------------------------
(* The user and the kernel. *)

Change(card, event) ==
  /\ changes < MaxChanges
  /\ changes' = changes + 1
  /\ slot' = card
  /\ uevents' = IF Bound THEN Append(uevents, event) ELSE uevents
  /\ missed' = (missed \/ (~Bound /\ caller # "check"))
  /\ UNCHANGED <<picture, runDectection, thread, caller, faults>>

Insert == slot = NoCard /\ \E c \in Cards : Change(c, "add")

Remove == slot # NoCard /\ Change(NoCard, "remove")

-----------------------------------------------------------------------------
(* sdcard_check_insertion: is mmcblk1p1 in /proc/partitions?  The flag is set
   when it is, and never cleared. *)
Found    == slot # NoCard /\ insertion' = TRUE /\ UNCHANGED faults
NotFound == UNCHANGED insertion /\ ((slot = NoCard /\ UNCHANGED faults) \/ Fault)

(* sdcard_mount: refused when nothing was found or already mounted, and
   mount(2) fails when the card is gone. *)
MountVolume ==
  \/ /\ insertion /\ ~mount
     /\ slot # NoCard
     /\ mount' = TRUE
     /\ volume' = slot
     /\ UNCHANGED faults
  \/ /\ \/ (~insertion \/ mount \/ slot = NoCard) /\ UNCHANGED faults
        \/ Fault
     /\ UNCHANGED <<mount, volume>>

(* sdcard_unmount, with MNT_DETACH: the path is free at once. *)
UnmountVolume ==
  \/ mount /\ mount' = FALSE /\ volume' = NoCard /\ UNCHANGED faults
  \/ UNCHANGED <<mount, volume>> /\ ((~mount /\ UNCHANGED faults) \/ Fault)

-----------------------------------------------------------------------------
(* sdcard_create, in the main thread. *)

CreateCheck ==
  /\ caller = "check"
  /\ \/ Found /\ caller' = "mount"
     \/ NotFound /\ caller' = "spawn"
  /\ UNCHANGED <<slot, uevents, volume, mount, runDectection, thread, changes, missed>>

CreateMount ==
  /\ caller = "mount"
  /\ MountVolume
  /\ caller' = "spawn"
  /\ UNCHANGED <<slot, uevents, insertion, runDectection, thread, changes, missed>>

(* pthread_create; when it fails the interface is freed and NULL returned. *)
CreateSpawn ==
  /\ caller = "spawn"
  /\ \/ thread' = "start" /\ caller' = "created" /\ UNCHANGED faults
     \/ Fault /\ caller' = "failed" /\ UNCHANGED thread
  /\ UNCHANGED <<slot, uevents, picture, runDectection, changes, missed>>

(* sdcard_destroy, called when a later step of the start-up fails. *)
Destroy ==
  /\ caller = "created"
  /\ runDectection' = FALSE
  /\ caller' = "join"
  /\ UNCHANGED <<slot, uevents, picture, thread, changes, missed, faults>>

Join ==
  /\ caller = "join"
  /\ thread = "exit"
  /\ caller' = "joined"
  /\ UNCHANGED <<slot, uevents, picture, runDectection, thread, changes, missed, faults>>

DestroyUnmount ==
  /\ caller = "joined"
  /\ UnmountVolume
  /\ caller' = "destroyed"
  /\ UNCHANGED <<slot, uevents, insertion, runDectection, thread, changes, missed>>

Caller == CreateCheck \/ CreateMount \/ CreateSpawn \/ Destroy \/ Join \/ DestroyUnmount

-----------------------------------------------------------------------------
(* sdcard_dectect_insersion, the detection thread. *)

Step(from, to) == thread = from /\ thread' = to

(* The thread itself sets its run flag. *)
Start ==
  /\ Step("start", "socket")
  /\ runDectection' = TRUE
  /\ UNCHANGED <<slot, uevents, picture, caller, changes, missed, faults>>

Bind ==
  /\ \/ Step("socket", "loop") /\ UNCHANGED faults
     \/ Step("socket", "exit") /\ Fault
  /\ UNCHANGED <<slot, uevents, picture, runDectection, caller, changes, missed>>

(* Mutant: recvmsg without a timeout. *)
LeaveAfterEvent ==
  /\ Step("loop", "exit")
  /\ ~runDectection
  /\ uevents # <<>>
  /\ UNCHANGED <<slot, uevents, picture, runDectection, caller, changes, missed, faults>>

(* The loop test, made again at least every three seconds. *)
Leave ==
  /\ Step("loop", "exit")
  /\ ~runDectection
  /\ UNCHANGED <<slot, uevents, picture, runDectection, caller, changes, missed, faults>>

(* recvmsg; the event is handled 200 ms later. *)
Receive ==
  /\ runDectection
  /\ uevents # <<>>
  /\ Step("loop", Head(uevents))
  /\ uevents' = Tail(uevents)
  /\ UNCHANGED <<slot, picture, runDectection, caller, changes, missed, faults>>

(* Mutant: the card is looked for but not mounted. *)
HandleAddOnlyCheck ==
  /\ Step("add", "loop")
  /\ Found \/ NotFound
  /\ UNCHANGED <<slot, uevents, volume, mount, runDectection, caller, changes, missed>>

HandleAdd ==
  /\ \/ Step("add", "mount") /\ Found
     \/ Step("add", "loop") /\ NotFound
  /\ UNCHANGED <<slot, uevents, volume, mount, runDectection, caller, changes, missed>>

HandleMount ==
  /\ Step("mount", "loop")
  /\ MountVolume
  /\ UNCHANGED <<slot, uevents, insertion, runDectection, caller, changes, missed>>

(* Mutant: unmounts only while the card is found. *)
HandleRemoveIfFound ==
  /\ Step("remove", "loop")
  /\ IF slot # NoCard THEN UnmountVolume ELSE UNCHANGED <<mount, volume, faults>>
  /\ UNCHANGED <<slot, uevents, insertion, runDectection, caller, changes, missed>>

HandleRemove ==
  /\ Step("remove", "loop")
  /\ UnmountVolume
  /\ UNCHANGED <<slot, uevents, insertion, runDectection, caller, changes, missed>>

Thread == Start \/ Bind \/ Leave \/ Receive \/ HandleAdd \/ HandleMount \/ HandleRemove

User == Insert \/ Remove

Next == User \/ Caller \/ Thread

(* The threads run; the user need not do anything, nor start-up fail. *)
Fairness ==
  /\ WF_vars(Thread)
  /\ WF_vars(CreateCheck \/ CreateMount \/ CreateSpawn \/ Join \/ DestroyUnmount)

Spec == Init /\ [][Next]_vars /\ Fairness

-----------------------------------------------------------------------------
(* sdcard_get_mount: 0 when a card is found and mounted, else -1. *)
GetMount == IF mount /\ insertion THEN 0 ELSE 1

TypeOK ==
  /\ slot \in Cards \cup {NoCard}
  /\ uevents \in Seq({"add", "remove"})
  /\ volume \in Cards \cup {NoCard}
  /\ insertion \in BOOLEAN /\ mount \in BOOLEAN
  /\ runDectection \in BOOLEAN
  /\ thread \in {"none", "start", "socket", "loop", "add", "mount", "remove", "exit"}
  /\ caller \in {"check", "mount", "spawn", "created", "failed", "join", "joined",
                 "destroyed"}
  /\ thread = "none" <=> caller \in {"check", "mount", "spawn", "failed"}
  /\ changes \in 0..MaxChanges
  /\ missed \in BOOLEAN
  /\ faults \in 0..MaxFaults

(* The flag and the kernel agree: something is mounted exactly when `mount`
   says so, and only after a card was found. *)
FlagMatchesKernel == (mount <=> volume # NoCard) /\ (mount => insertion)

RemovalPending == thread = "remove" \/ \E i \in 1..Len(uevents) : uevents[i] = "remove"

(* A mount that outlived its card is on its way out: sdcard_get_mount reports a
   card that is gone only until the removal event is handled, unless the event
   came before the socket was bound, a system call failed, or the interface is
   being destroyed. *)
StaleMountEnds ==
  mount /\ volume # slot =>
    RemovalPending \/ missed \/ faults > 0 \/ caller \in {"join", "joined", "destroyed"}

(* A card the kernel has announced is mounted, if it stays in the slot and no
   earlier change was missed: a removal missed at start-up leaves a dead mount
   that refuses every later card. *)
InsertedIsMounted ==
  \A c \in Cards :
    (slot = c /\ \E i \in 1..Len(uevents) : uevents[i] = "add")
      ~> \/ mount /\ volume = c
         \/ slot # c
         \/ missed \/ faults > 0
         \/ caller \in {"join", "joined", "destroyed"}

(* sdcard_destroy returns, provided the detection thread had made its first
   statement when the run flag was cleared.  (Earlier, the thread sets the flag
   again and the join blocks for good.) *)
DestroyReturns ==
  (caller = "join" /\ ~runDectection /\ thread # "start") ~> caller = "destroyed"
=============================================================================
