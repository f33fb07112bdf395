# Verification of mfod-updater

mfod-updater is the factory-mode and firmware-update program of a hand-held observation
device (an i.MX board with an OLED, an IR camera, a laser range finder, a digital compass,
a GNSS receiver and a microcontroller). This directory holds TLA+ modules translated from
its C sources, configurations that check them with TLC, and theorems checked by TLAPS. All
source paths below are relative to `src/mfod-updater/`.

## 1. The system

### Threads

| Thread | Started in | Does |
|---|---|---|
| main | `src/core/main.c` | creates everything, then takes events from the queue and handles them, one at a time; the GUI, the firmware update and all requests to devices run here |
| key scan | `src/gui/gui_keyin_handler.c` | reads the keyboard every 100 ms and posts key codes |
| draw | `src/core/guimgr.c` (`guimgr_drawproc`) | draws the window at 10 Hz |
| card detection | `src/modules/sdcard.c` | follows the kernel's uevents, mounts and unmounts |
| MCU reader | `src/modules/mcu.c` | parses frames, acknowledges requests, posts battery and power-key events |
| preview | `src/modules/vgss.c` | copies camera frames to the screen while the IR image is shown |
| readers of compass, range finder, GNSS, camera | `src/modules/{dmc,lrf,gnss,ircam}.c` | parse what the devices send, acknowledge requests |
| logger | `src/core/logger.c` | prints queued messages every 500 ms |

### Components

For each: the state it keeps, its operations, and what makes it correct.

| Component | State | Operations | Correct when |
|---|---|---|---|
| Event queue (`core/evque.c`, `ds/queue.c`) | global pointer, mutex, condition, linked list | create, set_event, get_event, (flush, destroy: no caller) | no event in the list is lost, repeated or reordered; the loop never sleeps on one; no null event |
| SD card (`modules/sdcard.c`) | insertion, mount, runDectection | create, detection thread, getMount, destroy | the flag agrees with the kernel; a card that left is not reported for long; an inserted card is mounted; destroy returns |
| Firmware update (`etc/ispmgr.c`, `sysctrl_firmware_update`) | images, task, error, progress | setImage, startProgramming (u-boot, uImage, erase and write rootfs), progress | what the progress counts is on the eMMC; finished images are whole; spaces not reached are untouched; success means the whole card |
| Key handler (`gui/gui_keyin_handler.c`) | push, hold, repeat, keycode, lock, scan | scan thread, lock, unlock, destroy | whole strokes only; no stuck key; nothing typed during a lock is posted; no lost unlock |
| GUI manager (`core/guimgr.c`, `gui/gui_window.c`, `ds/stack.c`) | focus, menu, dialog stack, mode, key lock | key handling, showMenu, showDialog, hideToplevDialog, draw thread | never acts on a missing menu or dialog; what is shown agrees with what the devices do; the user sees the result of an update and keeps the keys |
| System controller (`core/sysctrl.c`) | none of its own | functions the buttons call | a failed step leaves devices and dialogs in agreement |
| MCU driver (`modules/mcu.c`) | waitAck, shutter (close, filter, motion), time stamp, battery | move_shutter, requests, reader thread | every call returns, on its own answer; the shutter is where the driver thinks |
| Dialogs and widgets (`gui/gui_dialog.c`, `gui_dialog_creator.c`, the widgets, `ds/list.c`) | widget list, focus | one creator per dialog, addWidget, setFocus, findWidget, callbacks, destroy | a dialog that opens answers its keys; a callback finds the widgets it reads; everything made is freed |
| Menus (`gui/gui_menu.c`, `gui_submenu.c`) | items, focus, open submenu | built by the GUI manager, keys, destroy | no key acts on a missing item |
| Preview (`modules/vgss.c`, camif, ipu, eis) | preview state, thread, camif, ipu | init, run, pause, stop, deinit, capture thread | the state agrees with the thread; nothing is freed or joined twice |
| IR camera (`modules/ircam.c`, `irshtr.c`) | power, settings, shift, waitAck, error | power, settings, move, save the shift, reader thread | a command ends; what the driver reports is what the camera has |
| Observation mode (`sysctrl_toggle_obmode`, the preview, the camera, the shutter) | none of its own | change to day or infrared view, adjust, move the image | power, shutter, preview and settings agree after each change, or a failure says why not |
| Range finder (`modules/lrf.c`) | trigger, inProc, waitAck, range | start, fire, finalize, measuring thread, reader thread | a distance is computed from its own shot; the laser fires when it is wanted |
| Target acquisition (`core/taqmgr.c`, `taqdata_manager.c`, `geodesic.c`) | mode, status, buffer of points | push and release of the trigger, choices, save | what is offered is the target; every release ends |
| Battery (`modules/mcu.c`, `core/main.c`) | status and level of the cell | readings, notices, low and dead battery events | a cell that runs empty turns the device off; the level does not rise |
| Compass (`modules/dmc.c`) | waitAck, angles | requests, averaging, reader thread | as for the MCU |
| GNSS (`modules/gnss.c`) | fix, standby | sentence parser | a fix is never assembled from two sentences' halves |
| Device life cycle (`core/device.c`) | interfaces | create, destroy, standby, self-test | teardown only of what was created |
| Compass compensation (`core/magcomp.c`) | task | stops after the alignment, see section 5 | |
| Message processor (`core/msgproc.c`) | | never created by this program | |
| Logger, configuration, helpers, drawing, GPIO, UART, display | small or none | | |

### How they interact

Key scan thread and MCU reader post to the event queue; main takes the events and hands
keys to the GUI manager. A button calls a `sysctrl_*` function in the main thread, which
calls drivers and waits for their acknowledgements, so the GUI stands still meanwhile. Before
a firmware update the GUI locks the key handler, and unlocks it afterwards. The update reads
files that the card thread mounts and unmounts at any time. The draw thread reads window,
progress and battery without locks, except for the menu, for which it takes `window->mutex`.

### What is hard

Signals sent after a mutex is released and flags read without it; events posted before the
queue exists; a card pulled, swapped or changed at start-up; loss of power and errors in the
middle of an update; padding of the last cylinder; keys locked and unlocked asynchronously;
dialogs pushed by one event and popped by another while devices fail or stop by themselves;
acknowledgements that belong to another request; results of `addWidget`, `addItem` and most
device calls that nobody looks at; threads that announce themselves late. `PROJECT.json` lists these hazards line by
line with the properties that watch them.

## 2. The modules

| Module | Models | Kind |
|---|---|---|
| `EventQueue` | event queue and event loop | detailed |
| `EventFifo` | what the queue promises: a FIFO channel with a fair receiver | abstract; `EventQueue` implements it (`FifoSpec`) |
| `SdCard` | card detection with kernel and user | detailed |
| `FirmwareUpdate` | update and eMMC, **composed with** `SdCard` (instance `SD`) | detailed |
| `KeyinHandler` | key scan thread, lock, unlock, destroy | detailed |
| `KeyStream` | the stream of whole key strokes the GUI may rely on | abstract; `KeyinHandler` implements it (`StreamSpec`) |
| `Gui` | window, dialogs, keys, draw thread, with camera, shutter and preview as environment | detailed |
| `GuiSession` | browsing, aligning, updating, reporting | abstract; `Gui` implements it when nothing fails (`SessionSpec`) |
| `Mcu` | requests to the MCU, reader thread, MCU and serial line | detailed |
| `Widgets`, `NoticePlans`, `FactoryPlans`, `ObservePlans` | the widgets each dialog's creator makes, in order, and its first focus | operators |
| `Callbacks` | what the buttons' callbacks read from their dialog | operators |
| `Dialogs` | one dialog from its creator to its end, any allocation failing; **over** the five above | detailed |
| `Menus` | the three menus, their submenus and keys | detailed |
| `Preview` | the life of the preview as operators on a view | operators |
| `Ircam` | commands to the camera, its reader, line and camera | detailed, no Next of its own |
| `Obmode` | change of view and adjustments, **composing** `Preview` and `Ircam` with shutter and devconf | detailed |
| `RangeFinder` | measuring threads, trigger, reader and line | detailed, no Next of its own |
| `TaqData` | the ring of measured points | operators |
| `Acquisition` | pulls, releases and choices, **composing** `RangeFinder` and `TaqData` with the compass | detailed |
| `Battery` | readings of the cell, levels, events | detailed |
| `MC*` | instances for TLC | |
| `*_proofs` | theorems (`KeyinHandler_proofs` also holds those about `Dialogs`, `Gui_proofs` those about `Menus`, `Mcu_proofs` those about `Battery`) | |

State and actions against the code:

* **EventQueue.** `evque` is the global pointer (null, allocated, initialised), `owner` the
  holder of `evque->mutex`, `events` the linked list, `pc` where each thread is. `Post`,
  `SetLock`, `Enque`, `SetUnlock`, `Signal` are `evque_set_event` step by step;
  `PostTooEarly`, `PostNoQueue`, `PostNoMem` its other outcomes; `GetLock` ... `GetUnlock` are
  `evque_get_event`, with `SpuriousWakeup`; `Handle` and `PowerOff` are `handle_event`. The
  inner mutex of `ds/queue.c` is only ever taken under the outer one, so it is not modelled.
* **SdCard.** `slot`, `uevents`, `volume` belong to user and kernel; `insertion`, `mount`,
  `runDectection` are the fields. `CreateCheck`, `CreateMount`, `CreateSpawn` are
  `sdcard_create`; `Start`, `Bind`, `Receive`, `HandleAdd`, `HandleMount`, `HandleRemove`,
  `Leave` the thread; `Destroy`, `Join`, `DestroyUnmount` are `sdcard_destroy`.
* **FirmwareUpdate.** The eMMC is an array of cells, a file an array of units, a round moves a
  cylinder of `Cyl` units. What `write` took is in `cache` until `sync`; power may go at any
  moment (`PowerLoss`). Choosing images, opening, writing, syncing, erasing, errors and the
  result follow `sysctrl_firmware_update` and `ispmgr_start_programming`. `measured` remembers
  whose file `stat` saw, so that a file opened on another card later can be told from it.
* **KeyinHandler.** One action per step of the scan loop; `lock` and `scan` are read without
  the mutex as in the code; keyboard and input buffer are external. Keys are coded as
  the program wires them (LEFT and DOWN are crossed in `convert_keycode`).
* **Gui.** `win` is the window (focus, menu, stack); one action per key in each focus; a
  dialog is its kind and its focused widget; dialogs with the same effect are one kind. The
  steps of `toggle_obmode` between which the preview thread may run are separate actions.
  `PowerUp` has both ends of `ircam_enable_power`, which returns 0 also when the camera has not
  booted and its power was cut again (`"boot"`). The draw thread is the test of `mainMenu` and its use.
* **Mcu.** `caller` is the main thread in `mcu_move_shutter`, a request, or `mcu_wait_ack`;
  `reader` is the reader thread; `tx`, `rx`, `cut` are the line. Critical sections of one
  statement are one step. All requests but the shutter's are one kind.

* **Dialogs.** A *plan* is what a creator does: its widgets in the order they are made, and the
  widget given the focus. `Ask`, `Build`, `Show`, `GiveUp` follow `guimgr_show_dialog` and the
  creator, widget by widget, with the allocation of each and that of its list node failing
  separately; the keys are those of `guimgr_handle_keyin` with a dialog in focus;
  `Callbacks.Reads` says which spin boxes a callback looks for. Titles, positions and colours
  are left out; what a creator reads to choose its widgets is the plan's parameter.
* **Menus.** `AddItem` is `gui_menu_add_item` or `gui_submenu_add_item` with its ignored result;
  the keys and what each item leads to are the tables of `core/guimgr.c`.
* **Preview, Ircam, Obmode.** `todo` is what the main thread has still to do in
  `sysctrl_toggle_obmode`; each call to a device is a step, with its failure. The camera
  forgets its settings with its power, applies a command once it has booted, and answers in
  time, late or never; `Read` and `Expire` are the reader, `Wait` and `Answered` the caller.
  The preview's thread starts and ends at any time (`ThreadStarts`, `ThreadEnds`). The shutter
  is where it is (`shutter`) and where the driver takes it to be (`closed`), as `Mcu` has it in
  detail: `mcu_move_shutter` refuses to move it to where it is thought to be (`MoveFails`), and
  returns 0 however its wait was ended (`Astray`): the move done or not, its report read or not,
  or still to come (`due`, `LateMove`), when it may end the wait of the next one (`Moved`). The
  shutter may be found in either place at the start, and is taken to be open. A camera that is
  powered again has its ready frame of the last time read by then (`Boot`): a boot takes
  seconds, and the reader polls all the while.
* **RangeFinder, TaqData, Acquisition.** Each start of the measuring thread is a *shot*; a
  distance is the set of shots it was computed from, so that it shows whose it is; `far` keeps
  those whose answer was beyond `LRF_COMP_INTERVB`, where the code corrects by the distance
  kept before (`RangeAfter`, lrf.c:658). `Begin` to
  `Wake` are the thread, `Read` and `Expire` the reader. `call` is where the main thread is in
  `sysctrl_release_trigger`; `Judge`, `Angles`, `Calculate` are the parts of
  `taqmgr_finalize_target_acquistion`. Coordinates are left out: a point is its shot, its
  distance, whether it is an aid, and its size. The key that pulls the trigger is outside this
  program, so `Push` and `Release` are the interface other code calls.
* **Battery.** `ReadCell` is `mcu_parse_pwrsrc_volt` for the cell, in the units of the MCU
  (10 mV); `events` is the queue, which main creates later than the reader thread and which may
  be out of memory. `Main` handles it.

Variables marked *history* in the modules (`missed`, `steady`, `before`, `measured`, `dreamt`, `quiet`,
`failed`, `torn`, `dropped`, `refused`, `known`, `trouble`, `bad`, `doubt`, `crowded`, `early`,
`spoilt`, `sane`, `far`, `fresh`, `falling`, `empty`, `unheard`) and counters of bounds do not exist in the code. No guard of the
modelled code reads them, but that a model stops at a double join or a null dereference, where
the program's behaviour is undefined. `bad` of `Obmode` is emptied when a change begins with all
parts in order, so a failure excuses what it has left and nothing after it was put right.

## 3. What the runs check

| Run | Instance | Shows |
|---|---|---|
| `event_queue` | two producers, two posts each, one failed malloc | no lost wakeup, posting order, refinement of `EventFifo` with its fairness, every listed event handled |
| `sd_card` | two cards, five changes, one failed call | a stale mount has an event pending or a named cause; an announced card is mounted; destroy returns |
| `firmware_update` | two cards, two changes (one swap), one fault, two updates | progress is durable, success means the whole card, a done image is one card's file and whole unless the card was swapped in between, nothing changes beyond the last cylinder of an image that was come to, also when an update is repeated from another card; every update returns |
| `keyin_handler` | two known keys and an unknown one, two strokes, three locks | stuck keys, wakeups, whole strokes (refinement of `KeyStream`), destroy |
| `gui` | every failure possible, three dialogs deep | causes of a crash, the alignment on the screen agrees with preview and camera, the result of an update is seen, the keys come back |
| `gui_session` | no failures, four dialogs deep | refinement of `GuiSession` |
| `mcu` | one request and one frame on the line, one notice, one fault | belief about the shutter, answers matched to requests, every call returns |
| `dialogs` | all dialogs in all their variants, two failed allocations | when a callback hangs the GUI, when a dialog is deaf, what leaks |
| `menus` | three menus, two failed allocations | when a key of the menu dereferences null |
| `obmode` | one setting of three values, one adjustment, one late answer, one failure, the shutter open or closed at the start | parts of the view agree, or what disagrees tells what failed; settings survive a change of view; accepted is kept, by driver and camera; nothing freed twice; the saved shift is the camera's; every change ends |
| `acquisition` | two shots, one failure or late answer, a buffer of three | what is offered is the target; a distance is computed from its own shot and only a far one from earlier ones, too; nothing missing is read or joined twice; the laser fires when wanted; every release ends |
| `battery` | voltages at every border of bands and levels, four events | the level never rises; an empty cell turns the device off |

The properties are stated with their conditions, and the conditions are the findings of the
modelling: what the code does not promise is visible as the exception in the property.

* An event posted before `evque_create` is dropped (main creates the MCU thread first).
* `sdcard_create` looks at the slot before the socket is bound; a change in between is missed
  (`missed`), and a removal missed then leaves a dead mount.
* `sdcard_destroy` called before the thread's first statement never returns.
* An update whose card is swapped may mix the images of two cards (`steady` in
  `SuccessIsWholeCard`), and cuts a file of the new card short to the size the old one had, without
  an error (`CutShort` in `DoneIsWhole`); an image with less than a cylinder of room behind it
  spills its padding over the next one, by no more than that (`Reach` in `RestIsIntact`).
* The draw thread may dereference a menu that a key has just destroyed (`torn`), and a key
  a menu that could not be allocated.
* After a failure of shutter, preview, dialog or stack, screen and devices may disagree
  (`Confusing`), and after a boot of the camera that timed out, which is reported as success,
  the preview runs over a camera that is off (`"boot"` in `AligningIsShown` and `PartsAgree`).
* After one timeout, damaged frame or unsolicited frame during a wait (`trouble`), each later
  call to the MCU may return on the answer to the one before.
* An answer faster than the assignment after the write leaves the shutter "in motion"
  (proved as `MotionEnds`).
* `gui_dialog_find_widget` loops for ever on a number the dialog does not have. No callback asks
  for one, so it takes a failed `addWidget` (`HangCause`), whose result no creator looks at; a
  dialog that lost its first button swallows every key (`DeafCause`). The grid is not freed
  with its dialog (`NothingLeaks`).
* `addItem` is ignored too: a menu or submenu without any item crashes at the next key.
* A failed change of view leaves the parts where the failure found them; the camera is then on
  under a stopped preview and no change succeeds any more. The wait of a shutter's move ends by
  any frame or a timeout, and the change goes on with the shutter elsewhere (`"astray"`); a move
  is refused where the driver takes the shutter to be already, as it does wrongly when it was
  left closed (all in `PartsAgree`). The preview's thread that starts late
  overwrites the state, so that a stop it is joined for may never end (`"belated"`); a failed
  init of the preview frees but keeps its pointers (`FreedOnce`).
* A command the camera did not answer counts as accepted (`AcceptedIsKept` has the exception
  `doubt`), and the shift that is saved after a lost answer is an older one (`SavedShift`).
* A range that was not answered is the one of an earlier shot (`doubt` in `OwnRange`), and every
  far range is computed from the one before it as well (`far`): the far branch adds
  `rcc[2] * range[i] + rcc[3]` (lrf.c:658), with the range kept of the measurement before, where
  the near one adds `rcc[0] * meas[i] + rcc[1]`, which looks like a slip. Two
  measurements may overlap if the second press comes before the first thread has set
  `inProc` (`crowded`); a release before the thread has started makes the laser fire under the
  next press (`early`); a square whose width failed offers the length's edge as the target
  (`spoilt`); a silent compass hangs the GUI (`"hung"`).
* The battery level -1 is taken for "no reading yet"; LOW_BATTERY and DEAD_BATTERY are posted
  once, on the way down from the band above: a cell that falls from normal to empty between two
  readings turns nothing off, nor does one whose event was dropped (`falling`, `unheard`).

`PROJECT.json` names for each hazard the properties that watch it; where the hazard's own case
is one of these exceptions, its note says so: the property then does not catch that case, which the
code does have, but shows that nothing else leads there. Two hazards have no property at all, an
event posted before the queue exists and a card interface destroyed before its thread has begun:
they are steps of the models, and excluded by the properties.

No document or comment of the repository claims otherwise, so none of these is listed as a
divergence.

### Bounds

Every counter that would grow is bounded by a constant in a guard: `MaxPosts`, `MaxNoMem`,
`MaxChanges`, `MaxFaults`, `MaxUpdates`, `MaxStrokes`, `MaxLocks`, `MaxDialogs`,
`MaxInFlight`, `MaxNotices`, `MaxFailures`, `MaxLate`, `MaxAdjust`, `MaxShots`, `MaxPending`. Two
producers are enough for every interleaving of the queue,
which compares events of the same producer and of two different ones; two posts give a second
event behind a first. Five changes of the slot allow insert, remove and swap before and after
the socket is bound. The images in `MCFirmwareUpdate` are chosen so that the last cylinder is
full on one card and padded into the kernel on the other, the files of the second are longer (so
that one is cut short when it comes in later), one image is missing, and one is
larger than its device; two changes are one swap, in the middle of an update or between two.
`LongKey = 1` gives a press that is short, one that just becomes long
and one that repeats. Three dialogs are a low voltage warning over the button that ends the alignment over the
dialog that moves the image; the session, which has fewer states, goes one deeper. One request and one frame on the line still allow a late
answer to meet the next request; two were explored too, without the liveness property, for the
invariants of `Mcu_proofs` (8.2 million states).

Two failed allocations are the widget and its node, or two widgets that back each other up (a
focus and what would replace it). One setting stands for the eight of the camera, which are
handled alike and do not meet but on the line, where the alignment's move is the other party;
one late answer can end the wait of the next command. One failure is one move of the shutter gone
astray, which can come late, into the next move's wait. Two shots are the least with an earlier
distance to be confused with, and a third point of the buffer may be typed in, so a square's
three points fit; the buffer of the program holds more, and the theorem about distances is for
any size. Nine voltages stand at both sides of every limit of status and level from -2 to 10.

`CHECK_DEADLOCK FALSE` is set where the program really stops: power off, loss of power, a
destroyed interface, a crash, or a user who does nothing more. `mcu`, `dialogs` and `menus`
check deadlock.

### Fairness

Threads the scheduler runs are weakly fair, each as a whole: the steps of a call that was
begun, the loop of a reader. Users, cards, keys, the MCU's answers and failures are not. The
`Elapse` of `Mcu` is fair because a clock runs. In `Gui` the main thread's steps are fair
because every wait inside them ends: `CallReturns` shows it for the MCU, `UpdateReturns` for the
update. Strong fairness is assumed in one place: the call of `KeyinHandler`
that waits for the mutex while spurious wakeups let the scan thread take it again and again
(`unlock` inside destroy); the mutex is free between any two of them, and a waiter on a Linux
mutex gets it in the end. Everywhere else the holder leaves the section after finitely many
steps, and weak fairness is enough.

In `Obmode` and `Acquisition` the main thread, each reader, each measuring thread and the
preview's thread are weakly fair, as the scheduler runs them; the device's answer is fair only in
that it comes or is lost, and both are steps, the reader's timeout being the clock. Failures, late
answers and the user are not fair. In `Battery` main takes its events; readings, the user and the
cell are free.

## 4. What is proved

All theorems hold for every value of the constants under the modules' named assumptions
(`EventQueueAssumption`, `SdCardAssumption`, `FirmwareAssumption`, `KeyinHandlerAssumption`,
`GuiAssumption`, `DialogsAssumption`, `MenusAssumption`, `McuAssumption`, `BatteryAssumption`,
`RangeFinderAssumption`, `TaqDataAssumption`, `IrcamAssumption`, `ObmodeAssumption`), which say
no more than the types of the constants, that a square's three points fit the buffer, that
markers like `NoItem` are none of the real values, and the order of the images on the eMMC.

* **EventQueue_proofs** - types; mutual exclusion; no lost wakeup; no null event; posting
  order; the steps of the queue implement those of `EventFifo`. Mutual exclusion comes first;
  from it, that the list does not change between the loop's test and its removal. Order needs
  the strengthening `Numbered`: an event on its way carries its producer's last number, and
  all numbers in the list are below it.
* **SdCard_proofs** - types, `FlagMatchesKernel`, `StaleMountEnds`, with the invariant
  `CardInv`: the two properties themselves and that nothing is mounted before the first look.
* **FirmwareUpdate_proofs** - types, `ProgressIsDurable`, `DoneIsWhole`, `RestIsIntact`, for
  any images, sizes and layout. `IInv` adds to them what each stage is working on (`Task`,
  `Fresh`, `Copy`, `Round`), that only the space of the current image is dirty (`Dirty`), and
  what a rejected update leaves (`Untouched`); `SizeOfMeasured` that an image
  has the size of the file `stat` saw, so that a file of that card is never cut short
  (`FromCard`). The card's part is `CardInv`, used through an instance of `SdCard_proofs`. `SuccessIsWholeCard` needs `WholeInv` on top: while the card has
  stayed in the slot, the sizes of the images and the file being read are that card's
  (`SizesOfCard`, `ReadFromCard`), an image's units lie where its file has them (`InPlace`), and
  an image whose tasks are done holds the card's file (`DoneFromCard`).
* **KeyinHandler_proofs** - for the keys: types, no stuck key, nothing posted that was typed
  during a lock, no lost wakeup, long keys, and the refinement of `KeyStream`. `IInv` is the
  conjunction of an invariant of control, of the stroke, of keyboard and buffer (presses and
  releases of a key alternate up to the end of the buffer) and of the sleep.
  For the dialogs the keys end in: types, `HangCause`, `DeafCause` and `NothingLeaks`, for any
  number of failed allocations. The first half is about the tables: the plan of every creator is
  `Fitting` (`TableFits`) - in a whole dialog the callbacks find every spin box they look for,
  compared name by name with what the creator makes; the widget that is to have the focus can
  have it; and where there is no such widget (`select_shutter` and the two `select_xmitifno` ask
  for one they have not), what can have the focus comes before what cannot. The second half
  is the invariant `DialogInv`: the list holds the places of the plan in order, and what was
  made is on it or was dropped (`Accounted`). So what is looked for in vain was dropped; a
  focus left on the head of the list is on a caption only when all before it was dropped; and
  what `remove_widgets` passes over is the grid.
* **Gui_proofs** - types, `CrashCauses`, `AligningIsShown`, `ResultIsSeen` and the refinement of
  `GuiSession`. `CrashInv` says that the focus is backed by what it is on, which every operation
  on the window keeps. `ScreenInv` says what may lie on the stack in each phase of the devices,
  so that the alignment's dialogs and the result's stay where they are while warnings are pushed
  over them. `PhaseTold` gives the phase of the session from the stack; with it every step of
  the GUI is one of the session or a stutter, provided that no failure in `Confusing` may happen
  (`MayFail \cap Confusing = {}`, the condition of the run, where nothing fails). `PowerInv` and `PowerClear`
  say when the camera is off under a running preview.
  For the menus: types and `CrashCause`, for any number of failed allocations. `BuildInv` says
  what of a menu is there while it is built, `MenuLost` and `SubmenusLost` that a menu or a
  submenu without items was refused every one of them, so that a key without an item to act on
  tells what was lost.
* **Mcu_proofs** - types, `NoLostAck`, `BeliefIsTrue`, `AnswerIsMine`, `MotionEnds`.
  `ReportInv`: the last report on the line is true, or, if none is left, the belief is.
  `Exchange`: while no wait has gone wrong, a request is in exactly one place - on its way,
  answered on the line, or about to be acknowledged - and in none once the call is done.
  For the battery: types, `LevelNeverRises` and the safety part of `EmptyTurnsOff`
  (`EmptyIsPosted`: the event is in the queue, handled or was dropped), for any voltages. The
  first needs no invariant: a level is compared with the one it replaces; the second follows
  the three statuses of the cell and that a dead battery's event is never taken for another.
* **Acquisition_proofs** - types, `OwnRange`, `ResultIsTarget`, `NothingMissing` and
  `LaserIsWanted`, for any number of shots and failures and any buffer that has room for the three points of a square
  (the code's has 128). `Exchange` says where an answer may be while nothing has gone wrong: on the
  line only while its thread is in `lrf_wait_ack`; when the thread has returned, what is kept is
  its own or zero. `Judged` carries that to the point computed from it, and the lemmas about the
  ring (`AddPoint`, `RemovePoint`, `SizePoint`) that no operation mixes points. `Enough` and `Aimed` (as `RingInv`) say how many points each
  mode keeps and that an aid is kept between the two edges of a square only; from them, that
  a calculation removes the aids it has read and always finds them. `Joinable`: unless two
  measurements overlapped, all threads but the last are joined, and a measurement in process
  is not, so the thread to be joined can be. `Wanted`: until a release comes too early, a thread
  lives in one press and its release, and the trigger is pulled in that release only (`Pulled`).
* **Obmode_proofs** - types, `PartsAgree`, `FreedOnce`, `AcceptedIsKept`, `SavedShift` and
  `SettingsSurvive`, for any set of settings and any number of adjustments, failures and late
  answers. `Plan` says that the list of steps still to do is the rest of one of the two changes
  of view, in their order, with the settings still to restore between the boot and the run;
  `PowerPlan`, `RunPlan`, `DayPlan` and `ShutterPlan` say what camera, preview and shutter are at each of its
  places, `LivePlan` when the thread of the preview may be joined. `Dialogue`: as long as no
  answer was missed, the command the caller waits for, or its answer, is on the line exactly
  once, and otherwise the line is empty (`Clear`). From it `ShiftTracked` (the driver's shift is
  the camera's, or its report is on the line) and `Settled`: every setting that was not missed
  is as the driver keeps it, is on its way on the line, or is still to be restored. `Applied`
  says that what was answered last in the infrared view the camera still has: its power is not cut
  before the view is left. `Known` says that the driver is wrong about the shutter, or a move is
  still to come, only after one went astray.

Some facts are proved and not repeated in a run: the types of all modules with theorems, mutual
exclusion and the absence of null events in `EventQueue`, `PostingOrder`, `FlagMatchesKernel`, `LockedKeysDropped`, `HoldIsLong`,
`NoLostAck`, `MotionEnds`, `EmptyIsPosted`. Only model-checked: all liveness
(`EventuallyHandled`, `InsertedIsMounted`, `UpdateReturns`, both `DestroyReturns`,
`KeysComeBack`, `CallReturns`, `ChangeEnds`, `AcquisitionEnds`, `EmptyTurnsOff`) and the fairness
of `EventFifo`, which are out of the proof system's reach. Every safety invariant a run checks is
stated by a theorem.

## 5. What is not modelled

* Standby and self-test (`device.c`, parts of `sysctrl.c` and of every driver): sequences of
  calls to all devices, of which `Obmode` has those that concern the view.
* The message processor: never created. `sysctrl_push_trigger` and `sysctrl_release_trigger`
  have no caller in this program, and the menus of the observation modes are built by none; both are
  modelled all the same, as the interface the code offers.
* The compass compensation: after the alignment its thread posts `EVCODE_QUERY_MAGCOMPDATA`,
  for which `handle_event` has no case, and `sysctrl_acquire_magcompdata` has no caller; nothing
  starts a measurement for it. The compass driver serves an acquisition, where its averaging is a
  step that ends or does not.
* The saved list of targets: it is written when an acquisition is stopped, but `loadData` is
  commented out (`taqmgr.c:2291`), so nothing depends on it.
* The range gate of the range finder is zero and so never sent; the camera's self-test and
  its bits have no caller.
* Geometry (`geodesic.c`, coordinate libraries): floating point.
* GNSS sentences, the logger, the creation and teardown in `device.c`, GPIO, UART, display,
  drawing but for the menu: text, output or straight sequences.
* `cmake-build-debug`, `*.o`, `ipu.c.i`, `lib`, `inc/morpho`: generated or vendored.
* Data: text of dialogs, digits of spin boxes, frames' bytes, log messages; the strings of menu
  items, which nothing frees.

## 6. Plan

What is left, in this order.

1. **One request**: an abstract specification of a request and its acknowledgement that `Mcu`,
   `Ircam` and `RangeFinder` implement as far as they do, checked and proved.
2. **Updater**: event queue, key handler and GUI in one specification, so that a lock, stale
   events in the queue and the result dialog meet; the queue is replaced by `EventFifo`.
3. **Life cycle** of `device.c` and `main.c` error paths; standby.
4. **Pure operators**: GNSS sentence parser, digits of spin boxes, checksum, checked against
   reference definitions; `devconf`; the logger.

## 7. Running

`tlc -config EventQueue.cfg MCEventQueue` (and so on for the other runs in `PROJECT.json`; each
takes from seconds to about two and a half minutes), `tlapm EventQueue_proofs.tla` (and the other
`*_proofs` modules; the longest take about three minutes).
