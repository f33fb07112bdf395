------------------------------ MODULE Battery ------------------------------
(***************************************************************************)
(* modules/mcu.c: the cell as the MCU's reader thread follows it.  Every   *)
(* 10 s the MCU sends the voltage of the supply in use, and a notice when  *)
(* an external supply is plugged in or pulled out.  A reading of the cell  *)
(* moves its status, posts LOW_BATTERY and DEAD_BATTERY to main's queue    *)
(* (module EventQueue, here a sequence that does not exist before main has *)
(* created it) and gives the level the battery indicator draws.            *)
(*                                                                         *)
(* Voltages are in 10 mV, as the MCU sends them.  The cell, the supply and *)
(* the MCU are external; both types of cell have the same limits.          *)
(***************************************************************************)
EXTENDS Integers, Sequences

CONSTANTS Volts,       \* the cell's voltages
          MaxPending   \* bound: events in the queue

ASSUME BatteryAssumption == Volts \subseteq Int /\ MaxPending \in Nat

NoLevel == -1          \* curr_level, prev_level: no reading yet

VARIABLES
  supply,        \* what feeds the device
  source,        \* powerStatus.source: what the driver takes it for
  cellStatus, cellLevel,   \* powerStatus....
  prev_level,    \* static in mcu_parse_pwrsrc_volt; curr_level equals it
  main,          \* "starting", before evque_create; "running", "off"
  events,        \* the queue
  fresh,         \* history: no reading of the cell since the last of the other supply
  falling,       \* history: the last readings of the cell were low, or low and then empty
  empty,         \* history: the last reading of the cell was empty
  unheard        \* history: DEAD_BATTERY was dropped

cell == <<cellStatus, cellLevel, prev_level>>
history == <<fresh, falling, empty, unheard>>
batteryVars == <<supply, source, cell, main, events, history>>

Supplies == {"cell", "extdc"}
Codes == {"LOW_BATTERY", "DEAD_BATTERY"}

(* The driver starts with the cell, whatever the supply is. *)
BatteryInit ==
  /\ supply \in Supplies /\ source = "cell"
  /\ cellStatus = "NORMAL" /\ cellLevel = 0 /\ prev_level = NoLevel
  /\ main = "starting" /\ events = <<>>
  /\ fresh = TRUE /\ falling = FALSE /\ empty = FALSE /\ unheard = FALSE

-----------------------------------------------------------------------------
(* mcu_parse_pwrsrc_volt *)

cellRemain(volt) == 2 * (volt - 600)
Band(volt) == CASE cellRemain(volt) >= 41 -> "NORMAL"
                [] cellRemain(volt) \in 1..40 -> "LOWVOLT"
                [] OTHER -> "DEPLETED"

(* Mutant: both steps down are tested against NORMAL. *)
StatusFromNormal(volt) ==
  IF Band(volt) = "NORMAL" \/ cellStatus = "NORMAL" THEN Band(volt) ELSE cellStatus

(* One step down at a time, and up to NORMAL only. *)
StatusAfter(volt) ==
  CASE Band(volt) = "NORMAL" -> "NORMAL"
    [] Band(volt) = "LOWVOLT"  /\ cellStatus = "NORMAL"  -> "LOWVOLT"
    [] Band(volt) = "DEPLETED" /\ cellStatus = "LOWVOLT" -> "DEPLETED"
    [] OTHER -> cellStatus

(* evque_set_event, which may have no queue and no memory. *)
Post(code) ==
  \/ /\ main = "running" /\ Len(events) < MaxPending
     /\ events' = Append(events, code)
     /\ UNCHANGED unheard
  \/ /\ unheard' = (unheard \/ code = "DEAD_BATTERY")
     /\ UNCHANGED events

Report ==
  IF cellStatus' # cellStatus /\ cellStatus' # "NORMAL"
  THEN Post(IF cellStatus' = "LOWVOLT" THEN "LOW_BATTERY" ELSE "DEAD_BATTERY")
  ELSE UNCHANGED <<events, unheard>>

(* The cast to int cuts towards zero; what is left of a cell that has just been
   found empty is set to zero. *)
Tenths(percent) == IF percent >= 0 THEN percent \div 10 ELSE -((-percent) \div 10)
NewLevel(volt) ==
  LET remain == IF cellStatus # cellStatus' /\ cellStatus' = "DEPLETED" THEN 0
                                                                       ELSE cellRemain(volt)
  IN  IF remain >= 100 THEN 10 ELSE Tenths(remain) + 1

(* Mutant: the level follows every reading. *)
LevelOfReading(volt) == NewLevel(volt)

LevelAfter(volt) ==
  IF prev_level = NoLevel \/ NewLevel(volt) < prev_level THEN NewLevel(volt) ELSE prev_level

ReadCell(volt) ==
  /\ cellStatus' = StatusAfter(volt)
  /\ Report
  /\ cellLevel' = LevelAfter(volt) /\ prev_level' = cellLevel'
  /\ fresh' = FALSE
  /\ falling' = (Band(volt) = "LOWVOLT" \/ (Band(volt) = "DEPLETED" /\ falling))
  /\ empty' = (Band(volt) = "DEPLETED")

ReadExtdc ==
  /\ prev_level' = NoLevel /\ fresh' = TRUE
  /\ UNCHANGED <<cellStatus, cellLevel, events, falling, empty, unheard>>

(* An external supply's voltage is that of a full cell and more. *)
Reading ==
  /\ \E volt \in IF supply = "cell" THEN Volts ELSE {1200} :
       IF source = "cell" THEN ReadCell(volt) ELSE ReadExtdc
  /\ UNCHANGED <<supply, source, main>>

-----------------------------------------------------------------------------
(* mcu_parse_pwrsrc_type, mcu_parse_extdc_status: the notice may be damaged. *)
PowerNotice ==
  /\ source' = supply
  /\ UNCHANGED <<supply, cell, main, events, history>>

ChangeSupply ==
  /\ supply' \in Supplies \ {supply}
  /\ source' \in {supply', source}
  /\ UNCHANGED <<cell, main, events, history>>

-----------------------------------------------------------------------------
(* main: init_main_interface starts the MCU's reader, then the queue is created. *)

CreateQueue ==
  /\ main = "starting" /\ main' = "running"
  /\ UNCHANGED <<supply, source, cell, events, history>>

HandleEvent ==
  /\ main = "running" /\ events # <<>>
  /\ events' = Tail(events)
  /\ main' = IF Head(events) = "DEAD_BATTERY" THEN "off" ELSE "running"
  /\ UNCHANGED <<supply, source, cell, history>>

Main == CreateQueue \/ HandleEvent

BatteryNext ==
  /\ main # "off"
  /\ Reading \/ PowerNotice \/ ChangeSupply \/ Main

BatterySpec == BatteryInit /\ [][BatteryNext]_batteryVars /\ WF_batteryVars(Main)

-----------------------------------------------------------------------------

(* The types of the variables. *)
BatteryTypeOK ==
  /\ supply \in Supplies /\ source \in Supplies
  /\ cellStatus \in {"NORMAL", "LOWVOLT", "DEPLETED"}
  /\ cellLevel \in Int /\ prev_level \in Int
  /\ main \in {"starting", "running", "off"} /\ events \in Seq(Codes)
  /\ fresh \in BOOLEAN /\ falling \in BOOLEAN /\ empty \in BOOLEAN /\ unheard \in BOOLEAN

(* The level the indicator draws never rises while the cell feeds the device, however
   its voltage recovers, but for the first reading after the start or after one of
   the other supply, and for one after a level of -1, which the driver takes for no
   reading at all. *)
LevelNeverRises ==
  [][cellLevel' > cellLevel => fresh \/ cellLevel = NoLevel]_batteryVars

(* The part of EmptyTurnsOff that no step may break: until it is handled the event is
   in the queue. *)
EmptyIsPosted ==
  falling /\ empty => main = "off" \/ unheard \/ (\E i \in 1..Len(events) :
                                                  events[i] = "DEAD_BATTERY")

(* A cell that was low and then is empty turns the device off, unless the event was
   posted to a queue that is missing or has no memory, after which it is never posted
   again.  A cell that falls from normal to empty between two readings does not. *)
EmptyTurnsOff == (falling /\ empty) ~> (main = "off" \/ unheard)

=============================================================================
