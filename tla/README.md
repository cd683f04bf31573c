# Happy Hare: TLA+ models, checks and proofs

Happy Hare drives a multi-material unit (MMU) on a Klipper printer: it loads,
unloads and changes filaments, watches for runouts, clogs and tangles, and pauses
and resumes the print around errors. It is a Klippy extra (`extras/mmu/`): one
Python process, one reactor, whose greenlets yield at every move, dwell or gcode
wait. What makes it hard is not parallelism but interleaving: a gcode command holds
Klipper's FIFO gcode mutex, while sensor callbacks, timers and `idle_timeout` events
run from the reactor in the middle of it and queue commands of their own. A second
process, Moonraker, answers questions about spools when it gets to it.

This directory holds TLA+ modules translated from the source, the TLC
configurations that check them, and proofs checked by TLAPS.

## Inventory

What each part promises, where its state is and what changes it. The status of each
(modelled, partly, not modelled) is in the section *What is not modelled*.

| Component | Source (under `src/extras/mmu/`) | State | Operations | What makes it correct |
|---|---|---|---|---|
| Print job state machine | `mmu_print_state_machine.py`, the error/pause/resume part of `mmu_controller.py` | `print_state`, resume state, paused temperature, last `print_stats`, hotend-off timer, saved toolhead operation, filament monitoring | idle events, MMU_PRINT_START/END, PAUSE, RESUME, CANCEL_PRINT, CLEAR_PAUSE, MMU_PAUSE, MMU_UNLOCK, MMU_RESET, bootup, every filament operation | a pause holds and keeps its context; timers never cool a print; a stopped SD print can always be resumed |
| Sensor events | `mmu_sensor_utils.py` (`MmuRunoutHelper`), `mmu_sensor_manager.py`, `commands/mmu_sensor_*.py` | per sensor: presence, `min_event_systime`, suspension, arming | presence change, suspend/restore, event handler, gcode execution | one event in flight; suspended sensors raise none; a runout is handled once |
| Filament path | `mmu_filament_movement.py` | `filament_pos`, sensor readings, encoder | load, unload, preload, recover | the recorded position agrees with the sensors; an unload never leaves filament in the gate |
| Gate, tool and endless-spool maps | `mmu_gate_maps.py`, their commands | gate status, spool ids, TTG map, endless-spool groups | set gate, remap tool, group edit, reset, persist | maps stay total; a spool id is in one gate; the next gate of a group is in that group |
| Tool change and selection | `mmu_controller.py` 2966-3330, `commands/mmu_change_tool.py` | selected tool, gate, unit, last and next tool | select, change, retry, endless-spool switch | tool and gate agree through the map; failure leaves a recoverable selection |
| Spool assignment, NFC | `mmu_controller.py` 1938-2170 and 3355-3850, `unit/mmu_nfc_manager.py`, `mmu_nfc_arbiter.py` | pending spool, staged tag, their timer; lookup guard; per reader: active, last tag | scan, look up, answer, assign, expire, cancel | a spool and a tag that are assigned together belong together; readers follow prints and lookups; nothing hangs |
| Sync feedback, FlowGuard | `unit/mmu_sync_feedback.py`, `unit/mmu_sync_controller.py` | per unit: active, tangle prevention and what it boosted, scheduled rotation distance, estimate | sensor sample, extruder move, sync, unsync, gate selected, arm, disarm | FlowGuard raises only while armed, on the selected unit; what feedback changes is put back |
| Gear/extruder sync | `mmu_filament_movement.py` 3771-4131, `unit/mmu_drive.py`, wrappers | per drive: mode, current, rotation distance; nesting of the wrappers | sync, unsync, wrap, restore, select | one gear follows the extruder; it has the current and rotation distance of its mode |
| Encoder, extruder monitor | `unit/mmu_encoder.py`, `unit/mmu_extruder_monitor.py` | counts, detection point | event, arm, insert | runout raised once per detection length |
| eSpooler | `unit/mmu_espooler.py` | per gate operation, burst timers | assist, rewind, burst | a motor never runs without an owner or a timeout; print assist is one gate's |
| Environment manager | `unit/mmu_environment_manager.py` | per gate/unit drying state, queue, heater | start, stop, tick, vent | a heater is on only for a gate that dries, within the limit; a queued gate gets its turn |
| LED manager | `mmu_led_manager.py` | effects per segment | state changed, timer | display only |
| Selectors | `unit/selectors/` | position, servo, grip | home, select | stepper arithmetic |
| Compound endstop | `mmu_sensor_utils.py` 536-720 | child completions | home_start, home_wait | the first trigger wins |
| Moonraker component | `components/mmu_server.py` | spool location cache, calls being served | push, pull, fix, set, unset, refresh, answer | cache agrees with Spoolman, and the gate map with the cache; calls settle |
| Save variables | `mmu_utils.py` (`SaveVariableManager`) | journal of unconfirmed changes, flush timer, suspension; Klipper's dictionary and file | set, delete, upgrade, write, flush, suspend, ready, disconnect | no update is lost or forgotten; a flush that is asked for is made; what is set together lands together |
| Statistics and counters | `mmu_controller.py` | counters, times | count, report | reporting only: not modelled |
| Calibration, command front end, NFC drivers, installer | `unit/mmu_calibrator.py`, `commands/mmu_base_command.py`, `unit/nfc/`, `installer/` | | | numeric, parsing or offline: not modelled |

Components interact by direct calls (commands call the controller, which calls the
filament path, maps and units), by Klipper events (`idle_timeout:*`, `mmu:printing`,
`mmu:not_printing`, `mmu:mmu_paused`, `mmu:gate_selected`, `mmu:nfc_lookup_*`,
`mmu:espooler_burst_done`), by reactor callbacks (sensors, timers) that queue gcode commands,
by remote methods of Moonraker that answer with gcode commands, and through shared Klipper objects
(`print_stats`, `virtual_sdcard`, `pause_resume`, `idle_timeout`, the extruder heater).

### What is hard here

* **Callbacks inside commands.** A command that moves filament yields to the reactor at
  every move: sensor callbacks, the hotend-off timer and `idle_timeout` events run in
  the middle of it, change the state it has read, and queue commands behind it.
* **Events judged late.** A runout callback pauses the SD print at once, but its
  handler waits for the mutex; what it decides on may have changed meanwhile.
* **State that is saved and restored around an operation** (monitoring, saved toolhead
  operation, temperatures, sensor windows), while the operation may itself pause, fail
  or nest.
* **State that two sides keep**: the print state against `print_stats` and
  `pause_resume`; the armed sensors against the selected gate and unit; the journal
  against Klipper's dictionary and the file.
* **Answers that come late.** Happy Hare does not wait for Moonraker: what an answer says may
  be older than the gate map, the staged tag or the print it is applied to.
* **Filament nobody sees.** The recorded position is worked out from a few sensors and from
  moves that may slip; what it says decides which motor pulls next.
* **Timers that own hardware**: a motor burst, a heater, a reader or a hotend stays on or off
  until a timer or an event says otherwise, while commands take them over.
* **Failures**: an operation may fail at any point and leave through the error path; a
  save may fail; Klipper may shut down, disconnect or be killed.

`PROJECT.json` lists each hazard with its line and the properties about it.

## Plan

Most important first: a wrong print state or a lost runout ruins a print; wrong maps
send the wrong filament; the rest degrades.

1. **`PrintJob`** (done): job state, pauses, errors, timers, runout protocol.
2. **`SensorEvents`** (done): which edges become events, what is armed, how events are
   judged. It is the detail of `RaiseRunout` and `HandleRunout` in `PrintJob`.
3. **`SaveVariables`**, **`DurableStore`** (done): the journal behind every persisted map.
4. **`ToolSelection`** (done): the selected tool and gate, the tool-to-gate map, EndlessSpool,
   empty gates and the recorded filament position under every command that changes them,
   each failing at any point. Left of it: the bypass, several units, an unknown filament
   position, the editing of EndlessSpool groups.
5. **`FilamentPath`** (done): load, unload, gate checks, ejection and the recovery of
   `filament_pos` against the sensors, beside where the filament really is. Its outcomes are
   what `ToolSelection` takes for `LoadSequence`, `UnloadTool`, `EjectFromGate`. Left: the
   encoder as gate endstop, the bypass, homing by collision or compression, runout tails.
6. **`SpoolSync`** (done): the spool ids of the gate map against Moonraker's cache and the
   Spoolman database.
7. **`SpoolPending`** (done): the pending spool and staged tag, their timer, the lookup guard
   and the readers. Left: the arbiter of neighbouring fields, the MMU_NFC command.
8. **`ESpooler`**, **`SpoolDrying`** (done): timers that own a motor or a heater.
9. **`ToolChange`**: composition of `PrintJob` and `ToolSelection`; abstract specification: a
   change ends loaded from the gate asked for or an alternative of its group, or in an error
   pause from which RESUME goes on.
10. **`GearSync`** (done): sync modes, gear current and sync feedback. Left: the extruder's
    current, the trip of FlowGuard, disabling the MMU. Compound endstops.

Theorems to come: the refinement of `ToolChange`.

## Modules

| Module | Models | Checked by |
|---|---|---|
| `PrintJob` | `mmu_print_state_machine.py`; in `mmu_controller.py` errors, pause, unlock, resume, cancel, monitoring, hotend timer; the print, pause and sensor event commands | `PrintJob_*` |
| `PrintJob_proofs` | theorems about `PrintJob` | TLAPS |
| `SensorEvents` | `mmu_sensor_utils.py` (`MmuRunoutHelper`), `mmu_sensor_manager.py`, the `mmu_sensor_*` commands, unit and gate selection as the sensors see it | `SensorEvents_*`, through `MCSensorEvents` |
| `MCSensorEvents` | gates, units and sensors of the runs | |
| `SensorEvents_proofs` | theorems about `SensorEvents` | TLAPS |
| `SaveVariables` | `SaveVariableManager` of `mmu_utils.py`, its callers, Klipper's SAVE_VARIABLE | `SaveVariables_*` |
| `DurableStore` | what `SaveVariables` promises, as an abstract map over a disk | `SaveVariables_store`, `Refinement` |
| `SaveVariables_proofs` | theorems about `SaveVariables` | TLAPS |
| `ToolSelection` | the selection part of `mmu_controller.py`, `mmu_gate_maps.py`, the outcomes of `mmu_filament_movement.py`, thirteen commands | `ToolSelection_*`, through `MCToolSelection` |
| `MCToolSelection` | kinds of unit, EndlessSpool groups and user's maps of the runs | |
| `ToolSelection_proofs` | theorems about `ToolSelection` | TLAPS |
| `FilamentPath` | the moves of `mmu_filament_movement.py` and its recovery, the sanity check at boot, the path queries of `mmu_sensor_manager.py` | `FilamentPath_path`, through `MCFilamentPath` |
| `MCFilamentPath` | the machine layouts of the run: all of them | |
| `SpoolSync` | spool ids in `mmu_gate_maps.py` and MMU_GATE_MAP, `_spoolman_*` of `mmu_controller.py`, the spool methods of `components/mmu_server.py` | `SpoolSync_maps` |
| `SpoolSync_proofs` | theorems about `SpoolSync` | TLAPS |
| `SpoolPending` | pending spool and tag in `mmu_controller.py`, `unit/mmu_nfc_manager.py`, the commands that consume them | `SpoolPending_scan`, through `MCSpoolPending` |
| `MCSpoolPending` | tags and spools of the run | |
| `SpoolPending_proofs` | theorems about `SpoolPending` | TLAPS |
| `ESpooler` | `unit/mmu_espooler.py`, as operators | through `SpoolDrying` |
| `SpoolDrying` | `unit/mmu_environment_manager.py`, MMU_HEATER, MMU_ESPOOLER, assisted moves | `SpoolDrying_cycle` |
| `SpoolDrying_proofs` | theorems about `ESpooler` and `SpoolDrying` | TLAPS |
| `GearSync` | `unit/mmu_sync_feedback.py`, `unit/mmu_drive.py`, the sync, current and selection methods of `mmu_filament_movement.py` and `mmu_controller.py` | `GearSync_sync`, through `MCGearSync` |
| `MCGearSync` | four machines of two gates | |
| `Filament_proofs` | theorems about `GearSync` and `FilamentPath`, which between them move the filament | TLAPS |

Operators named `X_Something` under the comment *Faulty variant* are the changes of `X`
that the named property is known to catch; no specification uses them.

### PrintJob

`m` is one record: the driver's own state (`print_state`, `resume_to`, `paused_temp`,
`last_stats`, `enabled`, `monitoring`, `saved_op`, `off_timer`, `filament`), the Klipper
objects it reads and writes (`stats`, `stopping`, `is_paused`, `pause_sent`, `idle`,
`timeout`, `target`), and `pending`, the FIFO queue of commands that callbacks queued.
`op` is the filament operation that holds the mutex. Each Python method is an operator
from a state to a state (`HandleMmuError`, `OnPrintEnd`, `MmuUnlock`, `EnterPause`...),
and an action applies it.

The grain: a command under the mutex that does not move filament is one step. An operation
that moves filament is `BeginOperation`/`HandleRunout` (wrapper entry, save and park),
`OperationHeats` and callbacks, then `OperationSucceeds` or `OperationFails`, which take the
wrappers' exits and the error path in the code's order. `RaiseRunout` is the sensor
callback, `HandleRunout`, `IgnoreRunout` and `RunoutAtExtruder` its command. Temperatures
are "off" or "print"; a filament position is "settled" (loaded or unloaded) or "between".

### SensorEvents

`mgr` is what selection and monitoring decide (monitoring, gate, unit, armed sensors,
active map, FlowGuard scope). `present`, `enabled`, `window` and `saved` are the state of
each `MmuRunoutHelper`: its switch, `sensor_enabled`, `min_event_systime` (open, a delay,
or NEVER), `_events_suspended_from`. `queue` holds the handlers that wait for the mutex,
and `stack` the command that has it, with the one it runs inside itself on top. Every
time the code compares is kept as the outcome of the comparisons: `age` of an event
against the last suspension of monitoring, `handled` against the last runout handled.
`Edge` is `note_filament_present`, `FlowGuardTrips` is `note_clog_tangle`, `StartHandler`
the judgement in `mmu_sensor_insert/remove/runout.py`, `HandlerEnds` the end of
`_exec_gcode`.

### SaveVariables

`pending` is the journal, `allVariables` Klipper's dictionary, `file` the file,
`flushTimer` whether a flush is outstanding, `canWrite` the suspension. `_write_now` is a
loop: `writer` says who runs it, `attempt` its pass, and `raced` whether the mutation count
moved during the pass. Klipper's SAVE_VARIABLE (external) is three steps, because it gives
way to the reactor twice: the dictionary is copied (`stage` "writing"), the copy is written
(`FileWritten`, "reading"), the file is read and replaces the dictionary (`WriterReads`,
`ForeignReads`). `Set`, `Delete`, `SetTogether` and `Upgrade` may come between any two
steps. A value stands for whatever a key holds; for the keys of `Together` (those
`persist_gate_map` sets in one batch) it stands for one state of the gate map.

`DurableStore` is the promise: `get()` returns what was last set, the file changes only on
keys that are dirty, a key is taken off the dirty set only when it is on disk, and a restart
loses no more than the dirty keys. The refinement maps `value` to `Get`, `disk` to `file`,
`dirty` to the keys in the journal.

### ToolSelection

`mmu` is a record of what the driver keeps: the selected `tool` and `gate`, whether the
selector is `homed`, the map `ttg`, the gates marked `empty`, the filament position `pos`
(unloaded, loaded, or anywhere between) and `handling` (`is_handling_runout`). A command holds the
gcode mutex, so it is one action, and what it may leave depends on how far it gets. Each
method is therefore an operator from a set of states to the set of states it can end in; a
state with `ok = FALSE` is one in which MmuError is on its way up, and passes through the
rest (`Bad`) until a `finally` (`GoBack`) or the `except` of the command (`End`, which is
`handle_mmu_error`). So `SelectAndLoadTool(UnloadTool(S), t)` is the code's sequence of two
calls with every failure of either.

`LoadSequence`, `UnloadTool`, `EjectFromGate`, `PreloadGate`, `JogScan` and
`RecoverFilamentPos` are the filament moves, by their outcomes: the position and gate
status they leave, and whether they raise. `HomeUnit`, `MoveSelector`, `SelectGate` and
`SelectTool` are the selection; `EnsureTtgMatch`, `RemapTool` and `NextEndlessSpoolGate` the
map. `unit` says what a kind of unit can do: a linear selector that must be homed, must not
move with filament in the gate, shares a gate sensor and may have a gate for waste, or a gear and sensor per gate.
`dragged`, `seen` and `did` are ghosts of the last command; nothing reads them but the
properties. `Restart` takes what the saved state gives back (`load_persisted_state`) and the
checks of `cmd_MMU_BOOTUP`; it comes between commands, a stop in the middle of one being
the subject of `SaveVariables`.

`print` is the abstraction of `PrintJob` the selection depends on: standby, printing or
paused.

### FilamentPath

`tip` is where the tip of the filament really is: nine zones from out of the gear to the
nozzle, cut where a sensor or a grip begins. `pos` is `filament_pos`, `status` the gate
status, `calibrated` whether the bowden length is known (the first load measures it). `layout`
is what the machine has: entry and toolhead sensor, encoder, bowden, parking before or on the
gate sensor, forced homing to the extruder.

An operation (`job`) is a chain of stages, and `stage` is the move under way. There is one
action for every motor move the code decides upon (`HomeToGate`, `LoadBowden`, `FastUnload`,
`UnloadGate`...). The move may slip, jam or be cut short, so `tip'` is any zone of `Reach`:
between where the tip was and where it was sent. What the code does next depends on the
sensors alone: `gs`, `es` and `ts` of the tip, and the encoder, which notices movement. Any
move may end in MmuError (`stage` "failed"): then `HandleError` is the `except` of the command
with or without recovery (`filament_recovery_on_pause`), and every command may follow.
`Recover` is MMU_RECOVER, and `Restart` a power cut in the middle of any move followed by the
check of `cmd_MMU_BOOTUP`. `SpoolOut` and `SpoolIn` are the user's hands at a parked gate.

### SpoolSync

`local` is `gate_spool_id`, `cache` the component's `spool_location`, `db` the Spoolman
database (external, with what other printers do to it: `ForeignEdit`). `calls` is the FIFO of
remote methods called and not served. The component serves one at a time under `cache_lock`:
`Take` starts a `call`, `Refresh` and `Fetch` read the database, `Patched` is one of the
requests it sends in parallel (`todo`, `left`, `done`), each of which may fail with or without
effect, `Finish` works out the `reply`, and `Deliver` applies it to the gate map as
MMU_GATE_MAP FROM_SPOOLMAN=1 does, holding the lock until it is through. `unseen` and `stray`
are ghosts: spools the cache cannot know about, and spools last moved otherwise than by a push
that worked and whose answer named them and was applied. `FreshSpools` adds spools to the database that the cache has never seen.

### SpoolPending

`at` is the tag in each reader's field, `held` the tag it has reported (its dedupe), `active`
whether it is polled. `tag`, `spool` and `timer` are what is pending in the controller,
`lookup` and `guard` the lookup guard and its timer, `requests` the lookups Moonraker has not
answered (external; they are answered in the order asked, or never). `Poll` is a reader that
reports, `AnswerSpool`, `AnswerUnknown`, `AnswerFailed` and `AnswerGate` the gcode commands
that answers arrive as, `ManualNext` a user's NEXT_SPOOLID. `PreStart` is the state machine's own
`on_print_start`, which leaves what is pending alone, `PrintStarts` MMU_PRINT_START (or
RESUME), which goes through the controller and clears it. `op` has the mutex: while a
preload, a scan of a gate or another movement runs, answers and commands wait, and timers and
readers do not. `PreloadEnds`, `Insert` and `ScanEnds` give what is pending to a gate.

The ghosts keep what the properties have to except, each an observation below: `odd` is a
pair put together by hand or of a spool known otherwise, `woken` readers that a lookup's end
or an event woke in a print or during a lookup, `stranded` readers that nothing will wake
before the next lookup or print. `loaded` are the tags in the field whose spool was loaded.

### ESpooler and SpoolDrying

The eSpooler's handlers never yield and call one another, so `ESpooler` has no actions: each
method is an operator from a record to a record. `op` is what the driver has on record for a
gate and `motor` what the pins say; `timed` are the bursts a timer will end, `assist` the gate
in print assist mode, `armed`, `pressed` and `count` its tension trigger, `watching` the
extruder monitor's callback, and `spools` the list of spools the environment manager rotates
one after the other: it hears of the end of a burst from within the eSpooler's handler and
starts the next from there. `hand` and `orphaned` are ghosts, the reasons of a motor to turn.

`SpoolDrying` has the actions: the drying cycle (`drying` per gate, the `cycle`'s gates, `hot`
heaters, `raw` those set by hand), timers, triggers, extruder movement, changes of the
filament position, moves with eSpooler assistance, MMU_HEATER and MMU_ESPOOLER in all their
forms, MMU ENABLE. A command needs the mutex (`moving` is None); timers, switches and the
extruder monitor do not.

### GearSync

`s` is one record of what the machine keeps: the selected `gate` and unit (`here`), what the
decision to sync reads (`inside`, `standalone`, `print`, `homed`), per drive its `mode`,
`current` and `rd`, and per unit the state of its `MmuSyncFeedback`: `active`, `armed`
(`_tangle_prevention_active`), `requested` and `boosted`, the change of current that is
`pending` for a callback or `landing` (its SET_TMC_CURRENT is under way), and the rotation
distance `scheduled` last and `pendingRd` while it waits for the lookahead queue. `fit` says
which gates share a unit and a drive, which units always grip, which sync in a print. A
current is full, sync or that of a wrapper; a rotation distance is a gate's calibrated one or
`Tuned`.

Methods are operators from a record to a record, with the events a drive sends
(`HandleSynced`, `HandleUnsynced`, `HandleGateSelected`) called where it sends them: the first
two by the unit that takes the event to be its own (`Hearing`, the unit of the selected gate),
the last by all units at once, as none reads what another writes. `Sample`, `TangleStarts`, `TangleLands`
and `RdApplied` are the callbacks, possible between any two other steps. A command is `Begin`,
then any of `Move`, `Reset`, `Select`, `Sequence`, `WrapBegins` and `WrapEnds`, then `Ends` or
`Fails` with the wrappers' exits and the error path; any order of steps is allowed, which is
more than the commands do. `PrintStarts` to `FeedbackReset` are commands and events of their
own. Two abstractions: a method is one step, though its own SET_TMC_CURRENT gives way to the
reactor; and a deferred change on the bus lands before the next selection (`Landed`), as a
command moves or waits for moves first, and the bus takes milliseconds.

## Runs

`TypeOK` of every module is a theorem and is not repeated in the runs.

| Run | Bounds | What it shows |
|---|---|---|
| `PrintJob_pause` | one queued callback, one runout outstanding, no bootup, no macro pauses | the pause protocol: see below |
| `PrintJob_boot` | the same with MMU_RESET, ENABLE, bootup, FORCE_IN_PRINT, macros that pause | in all circumstances a paused hotend is known and no timer runs in a print (`HotendGuarded`) |
| `SensorEvents_arming` | two units of one gate, extruder and buffer sensors | nothing armed while unmonitored, nor on another unit, and FlowGuard in scope: `ArmedInScope` |
| `SensorEvents_events` | one unit of two gates, entry and shared exit sensors | sensors reopen; real runouts were monitored; no insertion event in a preload |
| `SaveVariables_store` | two keys, a value or none, three passes, two nested wrappers, failures and stops | the manager implements `DurableStore`; a flush that writes frees its timer, and every flush where commands leave gaps |
| `SaveVariables_flush` | a key and a batch of two, two values, no failures or stops | batches land together; where commands leave gaps, what is journalled under a flush, in any pass but its last, is written |
| `ToolSelection_select` | three gates, two of them a group; a linear selector with a waste gate or a gear per gate; one remapping by the user, one bulk map | tool and gate agree, changes end as asked, remaps stay in the group: see below |
| `FilamentPath_path` | every layout of sensors the assumption allows, a path cut in nine zones | the position recorded is one the filament can be in: see below |
| `SpoolSync_maps` | two gates, two spools, two commands or edits by others after the boot sync | gate map, cache and database settle and agree: see below |
| `SpoolPending_scan` | two readers, two gates, a registered and an unregistered tag, two spools, four user actions or failures, two lookups in flight | a spool is paired with the tag it was read from; no reader is stranded: see below |
| `GearSync_sync` | four machines of two gates and up to two units | one gear follows, at a current and rotation distance that are accounted for: see below |
| `SpoolDrying_cycle` | two gates with both motors, bursts of two, one heater at a time, four commands or trigger edges | motors and heaters run for a reason and are turned off: see below |

`PrintJob_pause` checks that the long idle timeout and the hotend-off timer are there exactly
in a locked pause, and runouts armed only in an active print (`GuardsInPlace`); that the
handler of the last runout of a job in print or running takes back the pause its callback
sent, or leaves a job that RESUME accepts (`HandlersResumeOrPause`); that a second error keeps what the first one saved, and RESUME restores temperature and monitoring
whatever the timers did (`ResumeRestores`); that a job that ends
out of a pause leaves the heaters off (`PausedJobEndsCold`); that nothing but RESUME or a
runout handler restarts a paused SD print (`OnlyResumeOrRunoutContinues`); that a pause is
not undone by a late event (`PauseHolds`); and that every runout raised is handled to its end
(`RunoutServed`).

`ToolSelection_select` checks that tool and gate stay mapped to each other (`AgreementKept`);
that a change which raises nothing ends with the tool asked for, on its gate, loaded
(`ChangeEndsAsAsked`); that EndlessSpool remaps at most one tool, within its group
(`RemapsWithinGroup`); that a selector is not moved with filament in its gate but by the
commands named, and that an operation on another gate leaves the loaded tool, gate and
position as they were (`LoadSpared`); and that no runout is taken for handled after printing
goes on (`RunoutHandled`). These are properties of steps, and what is asked of a step is in
`mmu` and `mmu'`; its `VIEW` leaves the outcome of the last command and the ghosts out of a
state's identity, so that TLC keeps one state where commands differ only in these. TLC checks
every step it generates, also into a state it has seen.

`FilamentPath_path` checks that a gate recorded as unloaded has its filament behind the gate
sensor (`ParkedWhenUnloaded`), that filament held by the extruder is not pulled by the gear
alone (`GripRespected`, with the window that the observations name), that filament is
declared loaded only if the first sensor of the extruder sees it (`LoadedSeen`), and that a
heated recovery never takes filament in the extruder to be out of it, nor filament past the
gate sensor to be parked (`RecoversSafely`).

`SpoolSync_maps` checks that once nothing is in flight the local map and the database agree,
in the direction the mode gives (`SettledMapsAgree`); that the server's cache has what the
database has, but for spools edited elsewhere or whose request failed (`CacheTrue`); that a
spool is in one gate at most (`OneGatePerSpool`); and that every command's messages come to an
end (`Settles`).

`SpoolPending_scan` checks that the tag and the spool staged for the next gate belong
together (`Paired`), that the readers are off in a print and during a lookup and on
otherwise (`ReadersFollow`), that a tag just loaded does not stage itself again
(`JustLoadedIgnored`), and that neither a lookup nor a pending assignment hangs
(`NothingHangs`).

`SpoolDrying_cycle` checks that a motor that turns is on record and has a reason that ends: a
burst with its timer, a move or a command (`MotorsAccounted`); that print assist belongs to
one gate and to its trigger (`AssistAlone`); that a heater on is wanted by the cycle or by a
command, that the cycle keeps to the number allowed, and that no gate waits while there is
room (`HeatersAccounted`); and that bursts and waiting end (`TurnsEnd`).

`GearSync_sync` checks that only the selected gate's gear follows the extruder and that sync
feedback works on its unit exactly as long (`OneFollower`); that a gear which follows with more
than the sync current is on record as boosted, so that something lowers it, and that a gear a
command leaves unsynced has its full current (`NoForgottenBoost`); and that no gear keeps a
rotation distance that nothing will correct (`RotationKnown`).

Why the bounds are enough. *PrintJob*: the state has one MMU and one job; a queue of one
already lets each callback be overtaken by every command and event; what two waiting in FIFO
order add was explored apart: a queue of two (288,054 states) and one of two with two
runouts and every feature (4.4 million states), in which the properties proved without
assumptions hold. One outstanding runout meets every other step; a second one adds duplicates,
which `PrintJob_boot` also reaches through MMU_RESET and the theorems allow in any number.
*SensorEvents*: units interact through the selected one and the sensor they share, so two
units; gates only through "the gate selected" and "another", so two gates. *SaveVariables*:
keys interact only through the one copy and the one reload, so two; the number of passes is
the code's own `MAX_FLUSH_ATTEMPTS` of three. *ToolSelection*: a command touches the selected
gate, the gate of its argument and an EndlessSpool alternative, so three gates, and two groups
so that a gate outside the group is there to be taken wrongly. `ToolSelection_select` leaves
`filament_recovery_on_pause` off: with it on, TLC finds the same 58,920 states and no error
either, but takes longer (a recovery only picks a filament position, which the retry of a
change and MMU_RECOVER do here too, and no property looks at the position after a failure). The group of two is the one of the last gate, which an index of -1
means. *FilamentPath*: the zones are the intervals between sensors and drives, so a tip is in
one of nine whatever the lengths; every layout is an initial state. *SpoolSync*: a spool
moves from a gate to another or is exchanged for another, so two of each; every message is
there more than once because the boot sync sends its own. `FreshSpools` is off there; with it
on TLC finds 888,560 states and no error. *SpoolPending*: the per-gate reader and
the shared one interact, and a late answer needs a second tag and a second gate; a budget of
five was explored too (1,079,537 states). *SpoolDrying*: gates interact through the assist
gate, the heater limit of one and the rotation chain, so two gates; bursts of two have a
first, a middle and a last. *GearSync*: what crosses gates is the drive they share or not and
the unit, so two gates in each combination; there is no other bound, and the run has all
136,356 states. Runs that mix all features at once are too large; each run says
what it leaves out, and the proofs do not depend on it.

### Fairness

* The gcode mutex is FIFO: a command that waits for it gets it, however often others run,
  as commands end. This is `SF` on `RunQueued`, `SdStops`, `StartHandler` and `Granted`: the
  action is enabled again and again (whenever a command ends), not continuously.
* Moves, file writes and reads end: `WF` on the end of an operation (`OperationSucceeds \/
  OperationFails`, either one), on `FileWritten \/ SaveFails`, `WriterReads`, `ForeignReads`.
* Commands end: `SF` on `CommandEnds` and on `ResumeWrites` for each depth; the command may
  be in a save of its own, which disables both for a while.
* `WF` on `FlushStarts`, no more: `_flush` does not queue for the mutex but polls it every
  `FLUSH_RETRY_DELAY`, so back-to-back commands can hold it off for as long as they come. What
  needs gaps between commands says so: `CommandsLeaveGaps`, that a mutex which is free again
  and again is at some time found free by a poll, is a hypothesis inside `FlushServed` and
  of the second half of `FlushTimerFreed`. The first half, a flush that writes and one
  outstanding at a shutdown, does without. TLC refutes `FlushServed` without the hypothesis.
* *SpoolSync*: `WF` on the component's own steps. The server's event loop takes the next
  request, Spoolman answers or its request times out, and the reply is a gcode script which
  the FIFO mutex lets in.
* *SpoolPending*: `WF` on the two reactor timers, `LookupTimesOut` and `PendingTimesOut`, and
  on nothing else: no answer is promised. A misread or a failed answer re-arms a timer; these
  steps spend the budget, as an unlimited number of them can put the end off in the code too.
* *SpoolDrying*: `WF` on the end of a burst, a reactor timer, and on the end of a gate's drying:
  its time runs out. The conditions under which the two are enabled are spelled out, as they
  are nested deep in the handlers. An edge of the tension trigger costs the bound on steps:
  presses and releases without end could prolong bursts without end in the code too.

Nothing is assumed of the user, the slicer or the sensors.

## Findings

Observations met on the way, for which no run is kept (the definition or constant that
exposes one is given, where there is one).

Print job:

* "If paused we can only continue on resume" (`mmu_controller.py:2355`), but a runout event
  that MMU_SENSOR_RUNOUT decides not to process (`mmu_sensor_runout.py:158`) calls
  `send_resume_command()` without asking whether the MMU has paused since, so the SD print
  restarts under the pause; a processed runout whose reload succeeds ends the same way
  (`OnlyResumeContinues` fails, `OnlyResumeOrRunoutContinues` holds).
* A runout raised while the last lines of the job run pauses the SD print and queues
  MMU_SENSOR_RUNOUT; MMU_PRINT_END ends the job first, the handler fails outside a print and
  `handle_mmu_error` (`mmu_controller.py:2280`) neither pauses nor resumes. The SD print stays
  paused, and RESUME refuses; `mmu_sensor_runout.py:154` says "Will send_resume_command() or
  fail and pause" (`NoOrphanedPause` fails; `HandlersResumeOrPause`, which asks it only of a
  job that is in print or running when its event is served, holds). With a queue of two the
  stopped print can even end up "printing" for the driver: a toolhead move after MMU_PRINT_END
  is taken for a new start, whose queued command runs after the handler.
* A user pause that reaches the idle timeout ends the job for the driver (MMU_PRINT_END
  STATE=standby, `mmu_print_state_machine.py:105`); after RESUME the rest prints unmonitored
  (`ResumedJobInPrint`).
* With `MacroPauses = TRUE`, `MonitoringOnlyInPrint` fails: the wrapper's `finally` turns
  monitoring on again in the pause a macro entered. With `ParkingMoves = FALSE`, `PauseHolds`
  fails: the first toolhead move comes after the pause and is taken for the job start. With
  `AllowBoot = TRUE`, `PauseTimers` fails: MMU_RESET (`mmu_reset.py:60`) overwrites the print
  state and leaves the timers. `PauseHolds` fails with `AllowBoot = TRUE` too, and with
  `MacroPauses = TRUE` and a queue of two: the job that ended in the pause is followed by
  another, and the runout of that one stops it before its start is seen.
  `MonitoringOnlyInPrint` fails with `AllowForce = TRUE` as well.
* MMU_PRINT_END STATE=standby has no effect from the end states, so `standby` is never reached
  from them (`mmu_print_start_end.py:94`).
* CANCEL_PRINT in an end state leaves the saved operation; a RESUME that forces `in print`
  leaves monitoring on in "ready"; the hotend-off timer is one-shot.

Sensors and events:

* The bypass map takes the shared exit of the last unit instead of the unit with the bypass (a
  leftover loop variable, `mmu_sensor_manager.py:123`; `BypassSeesItsUnit`).
* With monitoring on, going from no gate to a gate of the same unit arms nothing
  (`mmu_sensor_manager.py:190`; `ArmedWhenMonitored`). With `AllowReset = TRUE`,
  `RunoutWhileMonitored` fails.
* The window test of `mmu_sensor_runout.py` is redundant: a suspended sensor is disarmed.
  Clog events are never tested for staleness.
* An insertion between the start of a preload and its moves queues a second preload
  (`mmu_filament_movement.py:254` and `262`). A shared exit's runout is not compared with the
  selected unit.

Tools, gates and selection:

* `confirm_loaded` builds an MmuError and does not raise it (`mmu_sensor_manager.py:620`, against
  its docstring at 616), so that RESUME goes on printing without the filament it tests for
  (`mmu_controller.py:2359`; `LoadConfirmed` fails).
* After a failed selection, MMU_CHANGE_TOOL GATE= of the gate of the selected tool changes to
  tool -1, so to the gate of the last tool, since `remap_tool` has reset `tool_selected` before
  it is read again (`mmu_change_tool.py:139`; `GateAsAsked`).
* `is_handling_runout` stays set after a runout that failed, until RESUME: an MMU_UNLOAD in the
  pause pushes the filament out of its gate and marks the gate empty.
* MMU_LOAD with no tool and an empty gate remaps tool -1, which is the last tool
  (`mmu_load.py:85`), whatever its group; `RemapsWithinGroup` leaves this case out.
* A tool may stay selected with no gate, after a selection that failed. A runout then looks for
  an alternative in `endless_spool_groups[-1]` (`mmu_gate_maps.py:213`), so in the group of the
  last gate, and remaps the tool out of its own; `RemapsWithinGroup` leaves this case out too.
* From the same state MMU_CHANGE_TOOL GATE= of any gate the tool is mapped to remaps the selected
  tool to the gate it has, which drops the tool (no gate is selected that it could match), and
  then loads tool -1; with that gate empty, EndlessSpool remaps the last tool. The third case
  left out of `RemapsWithinGroup`.
* MMU_NFC_SCAN of another gate leaves the position "unloaded" when the print's filament is
  loaded: unlike MMU_PRELOAD it does not give the position back (`mmu_nfc_scan.py:123`).
* MMU_HOME SKIP_HOMED=1 with filament loaded moves the selector, and so does going back from
  a preload or scan whose filament was not parked. A runout with a waste gate moves it there
  before it unloads (`mmu_controller.py:3902`), as `endless_spool_eject_gate` intends.
  `SelectorMovesUnloaded` names all four.
* A runout that fails after its waste gate was selected leaves the tool on a gate it is not
  mapped to, and MMU_TTG_MAP MAP= does not look at the selection (`AgreementKept` names both).
* MMU_CHECK_GATE marks the gate empty on any failure, that of the selection included
  (`mmu_check_gate.py:177`); MMU_RECOVER TOOL= LOADED=0 marks it empty too.

Filament path:

* `_form_tip_standalone` with a toolhead sensor that sees nothing and a position other than
  loaded takes the filament for one in the bowden, so filament between the extruder gear and
  that sensor is pulled by the gear alone (`InWindow`). The branch of `_unload_gate` that would
  guard against it (`mmu_filament_movement.py:1216`) needs an argument that `unload_sequence`
  never passes.
* `_unload_bowden` is given a length in a normal unload, so it does not take it for a full one
  and the pre-unload test never runs. A fast unload after a load that slipped can pull the
  filament out of the gear.
* The fourth branch of the position recovery is covered by the third. With a gate sensor and a
  parking distance ahead of it, filament in the bowden is recorded as unloaded. A failed park
  in a gate check marks the gate empty with filament past it. With an encoder as the gate
  sensor, stuck filament looks like cleared filament.

Spool ids:

* A cache entry without a spool clears the local id of a gate (`mmu_gate_map.py:239`; with
  `FreshSpools = TRUE`, `ReplyNeverClears` fails). A spool the server does not know makes its
  reply carry `None`, on which the handler fails halfway, so the reply is half applied and not
  saved. Gate map and cache may then disagree with nothing under way: a spool is deleted, the
  cache is refreshed, the answer to an older push takes two spools assigned meanwhile out of
  the gate map, and the answer to their own push, which has no attributes for the deleted one,
  puts the other one back only if its entry comes first. It takes three commands, one more than
  the run has, and was found when the proof was tried. `SettledMapsAgree` excepts what it is
  about: spools of the gates left out (`Missed`), and those the answer has no attributes of
  (`Answerable`), until another push moves them.
* The docstring of `_spoolman_sync` says that pushing updates attributes only; a late reply
  assigns spool ids again, and an id just changed is reverted until the next reply.
* `_init_spoolman` does not look at the result of building the cache, so a pull after a failed
  build clears the whole local map. `_cache_insert_spool` keeps stale tags.
* A failed unset with a successful set leaves two spools on a gate in the database; with a
  stale cache a push may unset a spool that another printer has since.
* `set_spool_gate` without a gate always fails, as the number of gates it compares with is 1.
  RESET=1 with default spool ids can put one spool in two gates. MMU_GATE_MAP MAP= from the
  UI is not refused in pull mode. Clearing a gate pushes every empty gate again.

NFC:

* A lookup in flight when the print starts reactivates the readers in mid-print, contrary to
  the doc of `_handle_printing` (`QuietInPrint`).
* A gate scan holds the gcode mutex, so an answer waits; a guard that times out then leaves
  the shared reader off with nothing to wake it, and so does MMU ENABLE=0 and 1 during a
  lookup (`ReadersResume`).
* A NEXT_SPOOLID that comes late, after another tag was scanned, pairs that tag with the first
  tag's spool until its own answer comes, and ends its guard; the doc of
  `_nfc_set_lookup_pending` calls it harmless. An insertion in between applies the pair.
* A late answer in a print stages a spool that an insertion applies in mid-print, against
  the comment at `mmu_controller.py:1868`. A job start that is detected automatically does not
  go through that line (`mmu_print_state_machine.py:94`): what is pending stays until
  MMU_PRINT_START has the mutex, and an insertion in between applies it (`PreStart`).
* The not-printing event wakes a reader while a lookup is in flight, so two compete. The value
  a preload took survives the start of a print. One scan can fill two gates: the tag is used
  before its answer, which then goes to the next gate. A pending that times out makes every
  reader forget its last tag, so that a tag just loaded is taken again.
* Loading the extruder alone ends the pending by its action, so `_check_pending_bypass`
  (`mmu_filament_movement.py:2515`) finds nothing after it.

eSpooler and drying:

* A mode entered with the trigger pressed starts a burst and then takes its timer away, so the
  motor runs until the next trigger or mode (`mmu_espooler.py:436`, against the comments at
  223 "automatically be terminated" and 247 "Stops via scheduled callback").
* The same operation and power given twice stops the motor while the record says it runs. After
  MMU ENABLE=0 a commanded motor keeps running.
* With `espooler_assist_burst_trigger: 0` a pressed switch still earns repeated bursts, and the
  count is not reset on release. A trigger during the rewind of an unload drives the assist
  gate's motor the other way.
* MMU_HEATER with a temperature, on gates beyond the cycle or twice, exceeds
  `max_concurrent_heaters` (against the header, lines 12-17); TEMP=0 or STOP for a gate that is
  not in the cycle leaves its heater on, past the cycle's end.
* STOP does not clear the spools to rotate, so the rotation chain runs to its end, and a gate's
  emptiness is looked at only where the chain starts. A refused burst stalls the rotation until
  the next interval. ALLOFF may leave a rotation burst running on a lower gate.

Sync and gear current:

* A boost begun before tangle prevention is disarmed, the gear unsynced or the tension eased may
  land after: `_tangle_prevention_boosted` is then TRUE with `_requested` FALSE
  (`mmu_sync_feedback.py:280`) until the next release. Without `Landed`, TLC finds a landing for the
  gate that was left forgotten. A wrapper that begins while a release is under way may put back
  the current that was boosted.
* A selection in a print of a gate on another unit leaves tangle prevention armed on the old unit
  and does not arm it on the new; any unsync in a print disarms it until monitoring is next
  turned on.
* MMU_RESET and ENABLE record 100 % for every gear, while the driver stays at the sync current it
  had. MMU_SYNC_FEEDBACK ENABLE=0 at work leaves the feedback active, and the rotation distance
  where it was tuned to. Both are outside the model.
* A sync current asserted again over a boost leaves the boost on record; a lane left by a
  selection keeps its sync current until it is used; MMU_MOTORS_OFF on a loaded unit that always
  grips keeps the gear synced. All are corrected by the next use.

Saved variables:

* `set(write=True)` in a pause of the last pass of a flush is not written and not rescheduled
  (`mmu_utils.py:236`): `RequestServed`, which is `FlushServed` without its exception
  (`LastPass`), fails.
* `_handle_ready_flush` has no handler for a failed save, which takes Klipper down at startup
  (`mmu_utils.py:125`, against line 254 "A failed save must not take the printer down").
* `handle_disconnect` during a flush returns early, and the loop its comment relies on does
  not get to run. A batch suspended by a wrapper belongs to a command that holds the mutex, so
  the disconnect flush cannot write it; the test harness does not lock the mutex and so does
  not see this. The inner of two nested `wrap_suspend_write_variables` enables writes again
  (harmless for the properties checked).

## Proofs

All theorems hold for every value of the constants allowed by the modules' named
assumptions (`PrintJobAssumption`, `SensorAssumption`, `SaveVariablesAssumption`,
`ToolSelectionAssumption`, `FilamentPathAssumption`, `SpoolSyncAssumption`,
`SpoolPendingAssumption`, `ESpoolerAssumption`, `SpoolDryingAssumption`, `GearSyncAssumption`).
`Filament_proofs` extends both `GearSync` and `FilamentPath`; so that it can, the latter calls its
specification `PathSpec`, its initial states `PathInit`, and so on.

* **PrintJob.** `TypeCorrect`, `PausedTempAlwaysKnown`, `TimerNeverArmedInPrint` and both as
  `HotendAlwaysGuarded`. The inductive invariant is `Safe(m)` with `op \in Ops`: types, a known
  temperature in a pause, and no armed timer in an active print or unlocked pause. Neither of
  the last two is inductive over unknown states, because handlers compose: an error path runs
  the pause path on what the operation left. So each handler has a lemma "`Safe(s)` implies
  `Safe(handler(s))`", and each action cites those of the handlers it applies.

  The properties of its runs follow from two relations between the states before and after a
  step. `PausedOutcome`: a step that finds the MMU paused leaves it paused with what it saved,
  resumes it, takes it for a new job, cancels it or resets it. That gives `ResumeAlwaysRestores`,
  from the types alone. `Tracked`: what every step keeps of the guards of a pause (`Armed`,
  `Timers`) and of the job as the driver has seen it (`KeepsHistory`). Each handler has a lemma that
  it `Follows`, these compose, and the six actions that are more than handlers (a new job, the
  two quiet events, reset, disable, a sensor's callback) are treated one by one. From it come
  four invariants:
  - `JobInv`, for all constants: the SD print is told to stop only while it prints, a disabled MMU
    has no pause and runs no operation, and, where parking moves, the driver has seen the job of
    a pause or the toolhead still moves. The last is why the move that parks the toolhead to
    cancel a paused job cannot report a job start in between, and the heaters be left on:
    `PausedJobAlwaysEndsCold`. `OnlyResumeOrRunoutEverContinues` and
    `HandlersAlwaysResumeOrPause` need the rest of it; both hold for all constants.
  - `TimersInv`, without resets: no bootup task is queued that would find the timers in force.
  - `WatchInv`, without macros that pause: the monitoring an operation suspended may come back,
    as no pause was entered in between. Both give `GuardsAlwaysInPlace`.
  - `HoldInv`, where parking moves and neither macros nor resets interfere: a print being stopped
    for a pause is known to the driver to print (`PauseAlwaysHolds`).

  The assumptions are the values of the constants for which the code has the property: without
  any one of them TLC refutes it (see Findings).
* **SensorEvents.** `TypeCorrect`, `NothingArmedUnmonitored`, `OtherUnitsDisarmed`,
  `FlowGuardInScope` and the three properties as `ArmedStayInScope`, for any gates, units and
  sensors. The invariant is `TypeOK` with `MgrInv`, which ties armed sensors and FlowGuard
  scope to monitoring and the selected unit. Every step either leaves `mgr` alone, or applies
  one of the selection and monitoring operators, each with a lemma. `PreloadNeverReinserts` needs
  `SilentInv`: the sensors of the selected gate are the active ones (`Mapped`), so the entry
  sensor of the gate being preloaded is among those `PreloadSilent` finds silenced; and as only
  an insert handler has a command inside (`OnlyInsertsNest`), no command that ends brings an
  older preload back to the top of the stack with its sensors open. `RunoutsAlwaysMonitored`
  needs `WaitingInv`: while a unit is selected an armed sensor is monitored, so every runout that
  waits was raised monitored. It assumes `AllowReset = FALSE`: MMU_RESET forgets the unit and
  leaves the sensors armed.
* **SaveVariables.** `TypeCorrect`; `NothingLost`: `ConfirmedOnDisk` is inductive together with
  `TypeOK`, as it speaks of the copy being written as well as the file; `BatchesLandTogether`,
  by the strengthening `Alike` (file, dictionary, journal and copy are each alike on the
  batch, otherwise a write would split it); and `Refinement`, that the manager implements
  `DurableStore`: every step maps to `Update`, `Write`, `Confirm`, `Restart`, `Start` or a
  stutter. `Refinement` needs `ConfirmedOnDisk`, in the step where the reload replaces the
  dictionary: `get()` must not change.
* **ToolSelection.** `TypeCorrect` and the five properties of its run: `SelectionAgrees`, the
  agreement of tool and gate as a property of steps, `ChangeIsAsAsked`, `RunoutAlwaysHandled`,
  `LoadAlwaysSpared` and `EndlessSpoolKeepsGroups`. `TypeOK` is inductive as it stands; the work is in the
  lemmas about methods. Each says, of any state its result can hold, its type, what it shares
  with a state it came from (`Keeps`: tool, map, gate, homed), whether it fits (`Fits`: tool and
  gate agree) if all it came from did, and, where no error is on its way, what was achieved
  (`On(r, t)`: tool `t`, on its gate). They compose as the operators do. Two commands do not
  keep `Fits` on the way: while another gate is being worked on the tool is that of the gate
  to go back to, which `Away` describes (the gate is the old one, none, or one a homed
  selector reached) and `GoBackResult` closes; and a replacement after a runout, which fits
  again when it succeeds, or throughout when there is no waste gate.

  The last three follow the same methods with sets that are closed under them. `Quiet(h, d)`
  are the states in which a runout is being handled only if `h` and the selector has been
  dragged only if `d`; in those of `Ready(h, d)` the next move of the selector drags nothing
  either, because the filament is out of the gate, or the unit allows it, or the command has
  failed and moves nothing more. An unload makes any state ready, a selection keeps it so; the
  way back from another gate asks it of every state, also of one with an error on its way.
  The closure rests on one fact of the units: those that need no homing have no carriage to
  move and allow crossload (`mmu_unit.py:138`, with `requires_homing` of the virtual, servo and
  macro selectors). `Regrouped(t)` are the states whose map is the one the command found, but for tool `t`, which
  is on a gate of the same group; only `remap_tool` writes the map, and EndlessSpool calls it
  with a gate of the group of the tool's gate.
* **FilamentPath.** Type correctness and the four properties of its run. The invariant says where
  the tip can be for each recorded position: `BehindGate` for an unloaded one, and `HeldIsKnown`,
  that filament in the extruder gear is recorded as at least at the extruder, except in
  `InWindow`. A load and an unload have a fact per stage, and every failure leaves at the stage
  it happened.
* **GearSync.** `TypeCorrect`, `OneFollowerCorrect`, `BoostsCorrect` and `RotationCorrect`, for any
  number of gates and units, any sharing of drives within a unit and any units that grip or
  sync. None of the three properties is inductive: each is about the machine between steps,
  and a deferred change that lands later knows nothing of what cut in. `Good(s)` says what makes
  it harmless:
  - `One`: no drive but the selected gate's is in any mode but unsynced, and exactly its unit
    is active while it follows the extruder, so that an event heard through the selected gate
    reaches the unit it is about;
  - `Turns`: only a gear that follows turns by the controller's value, one that does not by its
    gate's calibrated one, and a change not yet applied is the last one scheduled, so that
    applying it late is right;
  - `Power`: whatever is boosted, pending or on the bus belongs to the selected gate and its
    unit, and no wrapper holds the current while something is on the bus (`Owned`); what is
    landing to lower was recorded as boosted (`Lowers`); a wrapper's current is that of the gate
    it began with (`Wraps`); a gear that follows with more than the sync current is on record,
    inside and outside commands (`OnRecord`); and nothing is on the bus for a gear that does not
    follow.

  Between commands the machine is moreover `Rested`: no wrapper, and a gear that does not follow has
  its full current. And a command that suspends monitoring has it off throughout, which is why a
  load or unload may put the calibrated rotation distance back on a gear that follows
  (`Sequence`) while the one scheduled last is another. Each method has a lemma that tells
  which of these its result has (`...Fields`, or `Safe`, `Stays`, `Remains` for relations that
  compose); commands and callbacks cite those of the methods they run.
* **SpoolSync.** Type correctness, the cache, one gate per spool, and that a settled pull
  agrees, in pull and in push mode (`MapsCorrect`). The invariant is of the messages: in pull
  mode a refresh is always followed by a pull, and the gate map is in step with the cache once
  the answer on its way is delivered. In push mode (`PushInv`) a push `Mentions` the spools it
  names and all that is in the gates it names; what no push under way mentions is settled
  (`PushAgrees`), and what the one being served mentions is in the cache where it says, and in
  the answer (`PushRequests`, `PushReply`). So it does not matter that answers are applied to a
  gate map that has changed since: whatever changed it sent a push that mentions the change.
* **SpoolPending.** `Paired` needs `PairInv`: the last shared lookup in flight is for the staged
  tag. `ReadersFollow` and `JustLoadedIgnored` need `ReadersInv` and `LoadedInv`, where `Found` is
  what a scan found; `Timed` says that whatever waits has a timer.
* **ESpooler and SpoolDrying.** A lemma per handler: what bursts leave alone (`Frame`), that
  motors are sound and each has a reason or is one of those being stopped (`Good(s, X)`), that
  modes are consistent (`ModeOK`). `HeatersInv` adds that the gates waiting and drying are in
  the cycle, and that nothing dries while the MMU is off. The number of heaters uses the
  library's facts about cardinality, the first gate of a chain that naturals are well ordered.

Only model-checked: liveness under fairness (`RunoutServed`, `SensorsReopen`,
`FlushTimerFreed`, `FlushServed`, `Settles`, `NothingHangs`, `TurnsEnd`), which the prover
cannot reason about: it has neither ENABLED nor the rules for fairness.

## What is not modelled

* *Runouts and clogs* and the *sensor manager* are modelled partly: encoder detection is
  planned.
* *Maps, tool change and selection, selectors* are modelled partly, in `ToolSelection`: not
  filament attributes, the bypass, more than one unit, an unknown filament position (which
  `check_if_loaded` lets through), a list of gates given to MMU_CHECK_GATE, MMU_RESET, and the
  recovery of a touch selector.
* *Filament path*: `FilamentPath` has the loads, unloads, parks and recoveries of one gate; not
  speeds, retries of a single move, the lengths a calibration finds, tip-forming macros beyond
  where they leave the filament, and the bypass.
* *Spool ids*: `SpoolSync` leaves out default spool ids, MAP= in pull mode, a restart of Moonraker
  or Klipper in mid-sync, and servers without the extra fields. Of the Moonraker component, G-code
  preprocessing and the update of metadata are text processing.
* *NFC*: `SpoolPending` leaves out the manual forms of MMU_NFC, the five-second hold (a delay), the
  metadata of a tag, arbitration of fields, the bypass and LEDs. Reader drivers are byte-level
  I/O.
* *Drying*: `SpoolDrying` leaves out venting, rotation by a gear stepper, temperatures and their
  plan, reports, and the queue of pin requests. A hand command is allowed during a print too,
  which the code refuses.
* *Sync feedback and gear/extruder sync*: `GearSync` leaves out the controller and its filter
  (floating point), FlowGuard's trip, switch sensors, the extruder's current, the bypass,
  disabling MMU or feedback, and test and calibration commands, which move under no suspension
  of monitoring.
* *Encoder, compound endstop*: planned, see above.
* *LED manager*: no other part reads its state.
  *Statistics, calibration, command parsing and help, NFC chip drivers, installer*: reporting,
  numeric, formatting, byte-level I/O or offline.
* In the modelled parts: encoder and extruder-monitor events (they raise the same handlers);
  temperatures beyond off and print; the wording of messages; a power loss inside the write of
  the file (Klipper truncates and writes in place), and the revision number in each save.
