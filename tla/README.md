# Verification of the wheel-legged car firmware

The program is the firmware of a two-wheeled, wheel-legged self-balancing car on
an Infineon CYT4BB (core CM7_0, bare metal). This directory holds TLA+ models of
the parts of it that keep state across interrupts, passes of the main loop and
power cycles, the TLC runs that check them on small instances, and the TLAPS
proofs about them. The models are translated from the C source; there are no
tests in the repository, and the comments serve only as statements to compare
the code with.

## 1. Inventory

Two contexts share all state without locks:

* the **main loop** (`project/user/main_cm7_0.c:81-113`): when a GNSS sentence
  has arrived, parse it and cache the fix (`gnss_cache_save`), then
  `Nag_Service`, then `Menu`;
* the **interrupts**: PIT0 channel 0 every 1 ms (`pit_call_back`,
  `Body_ctrl.c:1023-1084`, the whole control loop) and channel 1 every 5 ms (key
  scan), both of priority 3 and so never nested in each other; the UART
  interrupts of the motor driver, the GNSS receiver and the radio receiver at
  priority 7.

An interrupt may fall between any two instructions of the main loop. A power
loss may fall anywhere and leaves only the work flash.

| component | state | operations | hard behaviour | what makes it correct |
|---|---|---|---|---|
| Path recorder and player (`Flash.c`, menu groups A-C) | `N`, request flags, read cursor, `Nav_read`, data pages and index page | interrupt: sample a heading every 5 cm, ask for a page write, ask for a read, steer the replay. Main loop: `Nag_Service`, pages Record, Save, Replay, Clear | one page buffer written by both contexts and by the GNSS cache; multi-page erase and write; power loss | stored path = recorded path; paths independent; indexes in range; saves and loads end |
| Work flash (`zf_driver_flash.c`) | pages, `flash_union_buffer` | check, erase, program, read | power loss between words; the erased word is a legal datum | a page is what was programmed |
| GNSS cache (`gnss_cache.c`) | page 0, `last_save_tick` | save every 5 min, load, startup mode | shared buffer, clock reset by `Body_ctrl.c:479`, torn page | a valid cache is complete |
| Jump (`Body_ctrl.c:100-425, 637-764`) | `jump_cfg`, saved gains, live gains, leg offsets | trigger, abort, six timed phases | triggered from menu and from remote (interrupt), abort on tilt | gains are restored exactly once, to what they were |
| Straight test (`Body_ctrl.c:811-935`) | `straight_test` | start, run, stop | never leaves DONE; slow-down may not reach the distance | ends, blocks nothing afterwards |
| Stair (`Stair_test.c`), bridge (`One_bridge.c`), rotation (`Rotation.c`) | one state machine each | start, 1 ms step, abort | main-loop starts and aborts against interrupt steps; timeouts; shared `target_speed` | mutual exclusion, `target_speed` handed back |
| Remote control (`Remote_ctrl.c`, `zf_device_uart_receiver.c`) | detected, online, armed, `lost_count` | 1 ms update | lost frames, forced stop, arming only with a neutral stick | after a loss the car stays stopped until re-armed |
| Drive arbitration (`pit_call_back`) | `STOP_FLAG`, `fuxian`, `target_speed` | written by nine routines | order within one tick, stale values | a stopped car is not driven, a mode that runs drives |
| Menu and keys (`Menu.c`, `Common_peripherals.c`) | `func_index`, `last_index`, `init_flag`s, key flags | key scan, navigation, one-shot pages | pages that navigate in their own callback | every page acts once per entry |
| GNSS receiver (`zf_device_gnss.c`), motor link (`small_driver_uart_control.c`), fifo (`zf_common_fifo.c`) | ring buffers, parse buffers | byte interrupts, main-loop parse | hand-over between contexts, resynchronisation, wrap-around | no mixed sentence, frame or element |
| Attitude, PID, servos, displays, SDK | floating-point state, registers | - | - | outside these models |

`PROJECT.json` lists the hazards line by line, with the property that covers
each or the reason why none does.

## 2. Modules

| family | modules | order in the plan |
|---|---|---|
| recorder and player | `NagFlash`, `Nag`, abstract `PathStore`; `MCNag`; `NagInv_proofs`, `NagStore_proofs` | 1 |
| drive: timer callback, jump, manoeuvres, remote control, menu pages | `DriveState`, `Jump`, `Stair`, `Course`, `Remote`, `Drive`, `DriveProps`, `DriveHistory`; `MCDrive`, `MCSequence`; `Drive_proofs`, `DriveInv_proofs` | 2-4 |
| menu navigation | `Menu`, `MCMenu`; `Menu_proofs` | 5 |
| GNSS sentences, cache throttle | `GnssParse`, `GnssCache`; `Gnss_proofs` | 6 |
| SBUS receiver, motor link, byte fifo | `Sbus`, `MotorLink`, `Fifo`, abstract `ByteQueue`; `Links_proofs`, `Fifo_proofs` | 7 |
| the modules of the last three rows side by side for TLC | `MCParts` | |

`DriveState` holds the variables of the drive, and each module after it extends
the one before: `Jump` (trigger, abort, phases, gains, falls), `Stair` (the three
stair and jump tests), `Course` (bridge, rotation, straight test), `Remote`,
and `Drive`, which composes them in the order of `pit_call_back` and adds the
main loop's pages. `DriveProps` states what is expected of the whole.
`DriveHistory` adds a history of the jumps of the stair sequence, which only
observes, to compare the sequence's counter with.

Every invariant and every action property of the passing runs is a theorem as
well.
What the plan has left, in the order of its worth: an abstract specification of
the failsafe for the drive to refine; `gnss_cache_load` with the startup mode it
selects; the calibration of the gyroscope bias.

## 3. The recorder: modules and correspondence

* `NagFlash.tla`: page layout (`Flash.h`), capacities, the index ("meta") page
  and how it is validated. A word is abstract: a heading (`Yaws`), the erased
  word (`Blank`) or a word of the GNSS structure (`Fix`). The checksum stands for
  the indexes it was computed from; version and sample-length words are one with
  the magic word, since the loss of any of them makes the page invalid.
* `Nag.tla`: the two contexts. Interrupt steps are whole calls of `Nag_System`
  (the interrupt is not preempted by the main loop); main-loop steps are cut at
  every point where the interrupt or a power loss can make a difference: every
  erase, every programmed word, and between the assignments of one routine when
  the interrupt reads one of the fields (`finish`/`finalize`,
  `readStep`/`readDone`, the two halves of the `memset` in `Init_Nag_Path`).
* `PathStore.tla`: the abstract promise, one recording per path, replaced as a
  whole; while a path is being replaced nothing is promised of it, and a power
  loss during a replacement may empty the other paths (the index page is erased
  and rewritten with all three indexes).
* `MCNag.tla`: layouts of one or two paths of one or two pages.
* `NagInv_proofs.tla`, `NagStore_proofs.tla`: the proofs.

| TLA+ | C |
|---|---|
| `Mileage_All` ... `Nag_PathSelect` (tuple `N`) | struct `N`, `Nag_PathSelect` |
| `write` | `nag_flash_write_pending`, `nag_flash_write_final` |
| `read`, `Nav_read` | `nag_flash_read_pending`, `_active`, `nag_read_page`, `_count`; `Nav_read[0..nag_read_copied-1]` |
| `buffer` | `flash_union_buffer` |
| `flash`, `meta`, `gnssPage` | data pages, page 1, page 0 |
| `drive` | `fuxian`, `target_speed`, `STOP_FLAG` as the recorder writes them |
| `Run_Nag_Save`, `EndRecording`, `RequestRead`, `Nag_Run` | the branches of `Nag_System` |
| `GnssBegin` ... `GnssDone` | `gnss_cache_save` |
| `ServiceWrite`, `PageErase`, `PageWrite`, `PageDone`, `Meta*`, `Finish`, `Finalize` | the pending write in `Nag_Service` |
| `NagFlashRead`, `ReadStep`, `ReadDone` | the pending read in `Nag_Service` |
| `MenuSave`, `MenuOpen`, `Clear*`, `Init*` | menu pages of groups A, B and C |
| `trail`, `dirty`, `gnssSaves`, `losses` | observation only: the points recorded, the paths being replaced, counters for the bounds |

Definitions introduced by a comment "Slip:" are plausible errors of the
definition that follows; no action uses them. Substituted for it, each breaks
the property it is paired with in `PROJECT.json`.

Abstractions worth knowing:

* a tick covers less than `Nag_Set_mileage` (5 cm in 5 ms, 10 m/s), so at most
  one point is due per tick (`RecorderAssumption`); the accumulated distance is
  capped by `MaxMileage`, in which case the car stands still;
* an erase is one step, programming is one step per word;
* the `memset` of `N` is cut once, after the fields up to `Save_index`, and at
  most one tick falls into the gap (`WindowOpen`): half of the `memset` takes far
  less than 5 ms;
* the five-minute throttle of the GNSS cache is left to choice (`GnssCache` has
  it); the number of saves is bounded by `MaxGnssSaves`, of power losses by `MaxPowerLosses`;
* other writers of `STOP_FLAG`, `fuxian` and `target_speed` (remote control,
  manoeuvres) are in `Drive`, so `drive` is what the recorder alone leaves
  behind.

## 4. The drive: modules and correspondence

One tick of `pit_call_back` is a fixed sequence of steps, named by the variable
`isr`: clock and soft start (`TickBegin`), attitude and recorder (`NagStep`),
`stair_service_1ms`, `one_bridge_service_1ms`, `car_steer_control` with the jump
(`SteerControl`), `straight_test_run`, `remote_ctrl_update_1ms`, and the output
stage (`MotorOutput`: speed loop, steering with `rotation_run`, motors). Nothing
preempts the callback, so the main loop moves only when `isr = "idle"`.

A page of the menu is a list of stores (`PageOps`), and each store is an action:
the callback may fall between any two of them. `MenuOpen` starts the routine of a
page, `NagLoaded` that of a loaded path, `RotationSeen` that of a finished
rotation.

| TLA+ | C |
|---|---|
| `sys_times`, `tilted`, `run_state`, `startup_zero_ready` | the start-up clock, the outcome of the tilt test, `run_state` |
| `target_speed`, `STOP_FLAG`, `fuxian` | the same globals |
| `demand`, `motors` | the speed the speed loop was given, and the command at the end of the tick |
| `jump_state` ... `cfg`, `saved`, `live` | `jump_cfg`, `jump_saved_*_cycle`, the gains of `roll_balance_cascade` |
| `mode` ... `px_enable` | `stair_ctx`, its timers and the position hold |
| `bridge_*`, `side`, `entry_stable_count` ... | the bridge context |
| `rotation_*`, `straight_state` | `rotation_ctx`, `straight_test.state` |
| `detected` ... `action_switch_last`, `channel` | `remote_ctrl` |
| `nag` | what the recorder is doing, of which `Nag` has the detail |
| `page`, `todo`, `was_active`, `trigger_result` | the open page, the rest of its routine, the locals of `jump_abort` and `jump_trigger` |
| `fell`, `neutral`, `preempted`; `begun`, `landed`, `broken`, `own` of `DriveHistory` | observation only |

Abstractions: a gain is the kind of its value (configured, scaled by the soft
start, zero); leg positions, headings, duties and distances are not in the state,
and conditions on them are choices (tilt, roll on the bridge, angle reached,
line covered); `sys_times` stops at the end of the ramp, since no code of the
drive distinguishes later times; phase lengths and time-outs are small constants
with the order of the real ones.

## 5. The small parts: modules and correspondence

* `Menu`, `MCMenu`: `Menu()` over the complete node table of `Menu.c:107-197`.
  A call is cut before each key flag, at the dispatch, at the start, the display
  and the last test of a page; key presses and the end of a test come between.
  `DoneAtOnce` are the pages whose test may be over within the call that started
  it: D2, D3 and D4, which a forced stop of the remote control ends in the tick
  after their start, while the page still draws. `stranded` observes the pages
  that went home in that call.
* `GnssParse`: `gnss_uart_callback` against `gnss_data_parse`; a sentence is its
  type and whether its checksum agrees.
* `GnssCache`: the throttle of `gnss_cache_save` on a clock that wraps round and
  that a recovery from a fall sets to zero.
* `Sbus`: the byte interrupt, its decoder field by field, and the timer
  interrupt that takes a frame, which has the higher priority.
* `MotorLink`: the collector of the motor driver's messages, byte by byte, with
  real bytes and sums, also such as look like a head. `missed` observes how many
  intact messages without such a byte were given up in a row.
* `Fifo`, `ByteQueue`: `zf_common_fifo.c` as a ring, and the bounded queue it
  implements. Of a read from the tail the queue promises only how many bytes
  come, because the code fetches the second part of a wrapped one from the wrong
  place (`zf_common_fifo.c:497`).

These modules share no variable, in the model as in the program, so no property
of one depends on how the steps of another fall. `MCParts` uses that: a behaviour
runs one part, chosen at the start, and the other parts stand still in one state
they can be in. What TLC explores is the sum of their state spaces.

## 6. Runs

| run | instance | checks |
|---|---|---|
| `record` | one path, two pages of two points, two headings, one power loss, no fix | `ImplementsStore`, `ReplayLoadsSaved` |
| `paths` | a path of two pages and one of a single page, one point per page, one power loss, fair | `OtherPathsUntouched`, `SaveCompletes`, `PreloadCompletes` |
| `gnss` | one path of two pages, one GNSS save, one power loss | `TypeOK`, `RecorderInBounds`, `PageConfined`, `LastPageIsFinal`, `ReplayInRange` |
| `remote` | replay page, five kinds of frames, falls, fair | `TypeOK`, `GainsRestored`, `RampHoldsGains`, `RecoveryWaits`, `FailsafeStops`, `NoRestartUncentred`, `StickObeyed`, `JumpOnPress`, `JumpEnds` |
| `stairs` | the stair sequence page, or the rotation page, opened again and again, falls, history, fair | `SequenceCounts`, `ParametersReturned`, `NoJumpTimeout`, `StairEnds`, `RotationEnds` |
| `tests` | sequence, single stair, jump test or rotation page, remote frames with the jump switch, fair | `OnlyOpeningKeeps`, `StairEnds` |
| `course` | replay and straight-test pages, bridge from both sides, falls, fair | `BridgeLimits`, `BridgeEnds`, `DoneStops` |
| `parts` | the six small parts, one at a time, fair | `FreshEntry`, `ScreenFollows`, `DisplayCatchesUp`, `ParsesWhatItChecked`, `NoSentenceStarves`, `IntervalKeptOnOneClock`, `RefusedOnlyEarly`, `OneFrameTaken`, `IntactFrameArrives`, `BackInStep`, `ImplementsQueue` |
| `gnss_clobber`, `memset_race`, `cache_torn` | smallest instances of the recorder | `SavedIsComplete`, `RecorderRuns`, `CacheIsComplete` |
| `v_gains` | stair sequence page | `GainsRestored` |

The runs of the last two rows each refute one statement that a comment makes and
the code does not keep (section 8).

### What the passing runs show

Recorder. With no GNSS fix arriving, the recorder is a correct store whatever the
operator opens and wherever one power loss falls: a save stores exactly the
points of the recording, a replay starts with exactly what is stored, other paths
are not touched, and saves and loads end, those that take several passes of the main loop too. Of a path
whose pages were being replaced when the supply failed nothing is promised: old
and new pages lie side by side, and the code cannot tell them apart. With fixes
arriving this is false (run `gnss_clobber`), but all indexes and page numbers
stay in range.

Drive. Whatever a replay asks for, the failsafe of the remote control has the last
word in every tick, and a stopped car moves again only after a centred stick. A
jump started by the remote control takes a fresh press, ends, and gives back the
gains it took. After a fall the settle time holds the motors and the soft start
the gains, whatever jump the fall ended. A stair sequence that brakes behind its
last jump has begun each of its jumps itself, in spite of falls and of its page
opened again in its middle; all of them have landed unless a fall or
the page cut one short, which the code counts as a jump made
(`Stair_test.c:559-561`). That forced stops, jumps of the remote control and other
pages change nothing of this is shown by the theorem `DriveSequenceCounts` alone,
which has every frame and every set of pages. The parameters a test sets are
taken back however it ends, but for a sequence that a forced stop ends while its
page is still opening it; tests, rotation and bridge let go of the car.
On the bridge the speed limit holds against every other writer of the
target speed. These hold within the sets of pages the runs open together; what
fails outside of them is in section 8.

Parts. A page entered anew acts anew and the display follows, but for a test page
that went home in the call that opened it; a GNSS sentence is not
exchanged between check and parse, and none waits for ever; writes of the cache
keep their interval on one clock, and refused attempts do not put the next one
off; no SBUS frame is mixed, and an intact one after a pause always arrives; the
motor link gives up at most one intact message after a damage, or after bytes that
look like a head; the ring is a queue.

### Why the bounds are enough

Recorder: two pages show the change of page, the last page and the loading across
pages; two points per page show an empty, a partly filled and a full buffer; a
distance of two ticks per point separates "due" from "not due". In `paths` a page
holds one point, so that the buffer is empty or full, but a save can find the page
before still being written, and a preload of two pages takes two passes of the
main loop. The two paths share no page by `LayoutAssumption`, and the third path
runs the same code as the second. One power loss reaches every torn state; what a
second one adds is a loss while a torn path is rewritten, which starts from the
same states. One GNSS save is enough to interleave with every step of a recording,
and every later save does the same.

Drive: `Preemptions = 1` lets one tick fall into a page's routine, between any two
stores; a second one would find what the first left, and the routines, run in
microseconds, are never met by two. Every jump phase takes one or two ticks, so
that each is met at its start and at its end; a time-out is longer than what it
guards where the code's constants say so. A sequence is of two jumps: one that is
followed by another and one that is the last. `Pages` are the pages that interact
in the property asked for. In `tests` and `stairs` one page is opened per
behaviour (`PageChanges = FALSE`), again and again, since the remote control and
the history multiply the states; for the same reason phases and time-outs are as
short in these two as their order allows, and in `tests` one tick without a frame
loses the link. The frames are the combinations of link, switch and stick that the
code tells apart.

Parts: the menu has its full node table. A frame of two fields shows a mixed one; the
alphabet of SBUS has the start, the end and another byte. Four lost bytes spoil
up to four messages, more than the collector needs to fall back into step; the
speeds are two plain ones, one whose bytes look like a head and one whose sum
does. The menu's `DoneAtOnce` is page D3, which has the same callback as D2 and
D4. The clock of the cache has modulus 12 with an interval of 4 and a settle time of 2:
all orders of wrap, restart and interval occur. A ring of three bytes wraps at
every length of message.

### Fairness

* `paths`: the timer interrupt is periodic and the main loop runs whenever no
  interrupt does: both weakly fair. The operator and the receiver are not. The
  properties end, as an alternative, when another page is opened, since
  `Init_Nag_Path` discards what was under way.
* drive: `WF_vars(Tick)` (with a history too, `HistoryFairSpec`), the timer never stops, and `SF_vars(Main)`: between two
  ticks the main loop gets on. `Main` is disabled during each tick, which is why
  its fairness is strong: in the code the callback takes a part of its
  millisecond, and the main loop has the rest of every one.
* `parts`: weak fairness of `Menu` and of the GNSS `MainLoop`, both of
  which run in the endless loop; nothing is assumed of keys, test pages, lines or ticks.
  `NoSentenceStarves` takes as its premise that lines keep ending.

## 7. Theorems

All hold for every value of the constants that satisfies the named assumptions.

| module | theorem | property |
|---|---|---|
| `NagInv_proofs` | `NagInvariant` | `NagInv`, the inductive invariant |
| | `TypeCorrect` | `TypeOK` |
| | `BoundsCorrect` | `RecorderInBounds` |
| | `PagesConfined` | `PageConfined` |
| | `LastPageFinal` | `LastPageIsFinal` (the branch `Flash.c:610-618` is dead) |
| | `ReplayStaysInRange` | `ReplayInRange` |
| | `PathsIndependent` | `OtherPathsUntouched` |
| `NagStore_proofs` | `StoreImplemented` | `ImplementsStore`, if no fix is cached (`MaxGnssSaves = 0`) |
| | `ReplayLoadsWhatWasSaved` | `ReplayLoadsSaved`, if moreover no heading is the erased word |
| `Drive_proofs` | `DriveFailsafeStops`, `DriveNoRestartUncentred`, `DriveJumpOnPress` | the failsafe and the jump switch |
| | `DriveBridgeLimits` | `BridgeLimits` |
| `DriveInv_proofs` | `DriveTypeCorrect` | `TypeOK` |
| | `DriveRecoveryWaits` | `RecoveryWaits`, without the rotation page |
| | `DriveDoneStops` | `DoneStops`, without the rotation page and a transmitter |
| | `DriveGainsRestored` | `GainsRestored`, if no tick falls inside the routine of a test page |
| | `DriveRampHoldsGains` | `RampHoldsGains`, without the pages that start a jump |
| | `DriveStickObeyed` | `StickObeyed`, without the sequence and the single-stair page |
| | `DriveSequenceCounts` | `SequenceCounts` of `HistorySpec`, for few ticks inside a routine |
| | `DriveParametersReturned` | `ParametersReturned`, if nothing ends a sequence while it is filled |
| | `DriveOnlyOpeningKeeps` | `OnlyOpeningKeeps` |
| | `DriveNoJumpTimeout` | `NoJumpTimeout`, without a transmitter, if the time-out has room for a jump |
| `Menu_proofs` | `MenuTypeCorrect`, `MenuFreshEntry`, `MenuScreenFollows` | types, `FreshEntry`, `ScreenFollows`, for every `DoneAtOnce` |
| `Gnss_proofs` | `GnssParsesWhatItChecked` | `ParsesWhatItChecked` |
| | `CacheIntervalKept`, `CacheRefusedEarly` | `IntervalKeptOnOneClock`, `RefusedOnlyEarly` |
| `Links_proofs` | `SbusIntactFrameArrives`, `SbusOneFrameTaken` | `IntactFrameArrives`, `OneFrameTaken` |
| | `LinkBackInStep` | `BackInStep`, for every set of speeds |
| `Fifo_proofs` | `FifoInv`, `FifoImplementsQueue` | the ring's invariant, `ImplementsQueue` |

Recorder. None of the bounds is inductive alone: that the interrupt may write
`buffer[size]` depends on who has asked for a write and which step of
`Nag_Service` is running. `NagInv` joins to the types

* `RequestInv`: which mode goes with which request, and which request with which
  position of the main loop;
* `LoopInv`: what the loops over words and pages and the two halves of
  `Init_Nag_Path` find, and that outside `gnss_cache_save` the buffer holds words
  of a path;
* `RecordPosition`: the points counted are the full pages above the current one
  plus those in the buffer, which ties `Save_index`, `size` and
  `Flash_page_index` together; a request that is not final is made only with room
  left on the path;
* `ReadPosition`, `ReplayPosition`: a read stands on a page of its path within
  the counted points, a replay has the points it counts.

`NagInv_proofs` shows first that every action keeps the types; then it has one
lemma per part of `NagInv`, each with a step per action, and the theorems.
`PathsIndependent` follows from `PageConfined`, the bounds of the clearing loop
and the disjointness of the layout.

`NagStore_proofs` adds what the flash holds. `StoreInv` says where the trail is
while a recording lasts (`TrailInv`: its full pages above the current page, the
rest in the buffer and, once programmed, on the current page) and how far a
rewrite of the index page is (`RewriteInv`, `ErasedInv`, `WrittenInv`: which words
are programmed, and that they are the indexes read before the page was erased).
Then every step is one of `PathStore` or a stutter: an erase or the start of a
rewrite is `Touch`, the last word of the index page is `Save` or `Clear`, and a
power loss in a rewrite leaves each other path its index or none (`LossIndex`).
For the replay, `LoadInv` says that the points loaded so far are the first ones
of the path, in whole pages, and `HeadingsInv`, which follows from the
refinement, that no word of a stored path is the erased one, so that no page ends
the loading early. The step from the indexes to the words needs
`BlankAssumption` (0xFFFFFFFF is no index: it is larger than any capacity). The
hypothesis on `MaxGnssSaves` cannot be dropped: run `gnss_clobber` is the
counterexample. That on `Blank` stands for the heading -0.01 degree (section 8).

Drive. `RemoteInv` says that an armed car has seen a centred stick (`Arming`) and
that from the remote control's step to the end of the tick a detected car that is
not armed has `STOP_FLAG` cleared (`Guarded`): every other writer of `STOP_FLAG`
comes earlier in the tick or between two ticks, which is why the failsafe is
placed last in `pit_call_back`. `BridgeInv` adds that speeds are integers and
that from the bridge's step to the output the target speed is limited, so that
the demand is.

`DriveInv_proofs` has one inductive invariant per property, each beside
`DriveInv` (types, and that the rest of a routine is a sequence of stores):

* `RecoveryInv`: a fall is remembered by `run_state = 0` until the tick that
  restarts the clock, and from then on by a clock within the settle time.
  `DoneInv`: the straight-line test that is done has `STOP_FLAG` cleared from its
  last step to the output.
* `GainsInv`: `GainsSafe` says whose gains are the configured ones, the saved ones
  in a jump and the live ones outside. Inside a routine it holds except between
  the stores of a trigger and of an abort; `Preceding` and `Following` order those
  stores, so that `GainsHere` can say what is owed at each.
* `RampInv`: while the soft start lasts, the live gains are low, and so are the ones a
  jump has saved, so that a fall, an end or a recovery gives low ones back. A tick
  leaves the settle time before anything else in it, and no jump starts within it
  but from the main loop.
* `StickInv`: no page that may be opened holds the position, so that the speed loop
  is never off for a car that is free, and from the remote control's step on the
  stick's speed is in `target_speed`.
* `SeqInv` cuts the routine of a test page in the stages it goes through: ending
  the last test (`Closing`), ending a jump and taking the defaults (`Checking`,
  `Idling`), opening the context (`Ready`, `Entering`, `Resetting`), starting the
  first jump (`Triggering`), or none of these (`Plain`). At each stage it says what
  the callback can have made of the half-filled context: before its counters are
  reset the phase of the last test is gone, and after that the context is `Young`:
  its timer is behind the ticks that fell inside the routine, so that the end of
  its jump, looked at after `Grace` ticks, has not been seen.
* `HistInv` adds the history to these stages. Outside the routine `Tally` holds: the
  counter agrees with the jumps begun, and each of them has landed, or is under
  way, or one was cut short. While the page opens its context, the callback may
  step it, so that the counters are zero and the page's own jump is still to come
  (`Ahead`), is under way (`Under`) or was refused (`Refused`). The history is part
  of `HistorySpec`, in which it constrains nothing.
* `ParInv` goes through the same stages: who set the parameters is active, or is
  about to be ended, or has not opened its context yet. `KeptInv` does so without a
  hypothesis, and allows for a context that was closed in its opening (`Orphaned`).
* `TimeInv`: `Left` is what is left of a jump in the longer of the two sets of phase
  lengths, since the parameters may change in its middle. A test that waits for
  a jump has a timer which together with `Left` stays below the time-out: each
  tick adds one to the timer and then takes at least one off `Left`.

The hypotheses are those without which the property is false, TLC having shown a
counterexample with the constants of the runs otherwise:

| theorem | hypothesis | without it |
|---|---|---|
| `DriveRecoveryWaits`, `DriveDoneStops` | `"D6" \notin Pages` | the rotation page stores `run_state = 1` and `STOP_FLAG = 1` (`Menu.c:756-757`) over a fall, or over a finished straight-line test |
| `DriveDoneStops` | `Frames = {}` | an armed remote control sets `STOP_FLAG` in every tick (`Remote_ctrl.c:128`) |
| `DriveGainsRestored` | `Undisturbed` | run `v_gains`; and a jump of the remote control in a tick between the two halves of `jump_abort` (`Body_ctrl.c:343-350`), with the jump test's page `D4` |
| `DriveRampHoldsGains` | none of `D2`, `D3`, `D4` | the sequence page opened within the settle time jumps with the configured gains, and the soft start, which leaves a jump alone (`Body_ctrl.c:485`), does not lower them |
| `DriveStickObeyed` | neither `D2` nor `D3` | `D3`: a forced stop inside its start ends the test before the position hold is enabled, which then keeps the speed loop off with no test under way (`Stair_test.c:451-452`); `D2`: a tick inside the closing routine, between switching the hold off and closing the contexts, lets the sequence that is still active count its jump and enable the hold again, and the contexts are then closed over it (`Stair_test.c:624-638`) |
| `DriveSequenceCounts` | `Preemptions <= Grace + 1` | ten ticks inside the routine, with `Grace = 1`: the jump of the last context ends and is counted in the new one. In the code `Grace` is 10 ms and the routine takes microseconds |
| `DriveSequenceCounts` | `Preemptions < Interval` | as many ticks inside the routine let the run-up of the context being opened be over, which then jumps before its page does. In the code `Interval` is 950 ms |
| `DriveParametersReturned` | `Unbroken` | with `D2`: a forced stop between `Stair_test.c:527` and `528` ends the test whose parameters are set next, as do three ticks inside the routine with `Grace = 1` |
| `DriveNoJumpTimeout` | `Frames = {}` | a jump pressed as the last one ends (`Remote_ctrl.c:150-161`) is taken by the test for its own |
| `DriveNoJumpTimeout` | `RoomForJump` | a shorter time-out. In the code the longest phases add up to less than 800 ms, of 2000 |

Menu. `init_flag` and display are related by two invariants. `OnlyLast`: only the
page last left, the page being opened, or a page in `stranded` has its flag set.
`Shown`: the display is the last page until the next callback has run, or a page
in `stranded` while Home is the current one. `stranded` grows at one place, the end
of a call that opened a page and found it done; with the empty set for
`DoneAtOnce` it stays empty, and nothing is excepted.

GNSS: a claimed type is `PARSING`, and the interrupt copies into no such buffer.
The throttle of the cache needs `OneClock`: the stamp of the last save and the
ticks since then differ by the clock, modulo its turn, until a restart.
SBUS: the collector's bytes are a prefix of the frame unless one was lost, the
decoder's fields are those of the frame, and the flag is up only when all are.
Motor link: inside an intact message the collector is in step with it, ahead of
it with a message it began earlier, or behind it because such a message ended
inside it (`InStep`, `Ahead`, `Behind`); the last two end at the next head, if the
message has no second byte that looks like one. Only such messages are counted, so
any speeds may be sent in between.
Fifo: the write position is as far ahead of the read position as there are bytes;
the refinement then needs, per operation, where a byte of the ring comes to stand
in the queue.

Only model-checked are the liveness properties (`SaveCompletes`,
`PreloadCompletes`, `JumpEnds`, `StairEnds`, `RotationEnds`, `BridgeEnds`,
`DisplayCatchesUp`, `NoSentenceStarves`): what fairness gives is out of the
prover's reach.

## 8. Known disagreements

With a run, and a finding in `PROJECT.json`:

1. `gnss_clobber`: `gnss_cache_save` (`gnss_cache.c:50`) clears the buffer in
   which points are waiting.
2. `memset_race`: the interrupt inside `memset` (`Flash.c:197`) leaves
   `N.Nag_Stop_f` set, and the recording never samples.
3. `cache_torn`: a GNSS cache programmed in part is accepted as valid; a heading
   sampled during the programming mixes into it in the same way.
4. `v_gains`: a tick inside `jump_trigger` (`Body_ctrl.c:318`) called from the
   menu makes the jump save gains it has already fixed, and restore those.

Seen while modelling, in the models as in the code, without a run of their own:

* the end of a replay sets `STOP_FLAG` to 0 and no page sets it again: a second
  replay steers with the motors off (`Flash.c:189`);
* a page full of the heading -0.01 degree reads as erased (`Flash.c:516`); no
  heading of the runs is `Blank`;
* a rotation under way when something clears `STOP_FLAG` is stepped no more
  (`Rotation.c:173`): it stays RUNNING and locks out the bridge and the stick, though
  it is to be called in every millisecond (`Rotation.c:168`) and to end by a time
  limit (`Rotation.h:43`). With the pages D6 and A3 TLC finds the end of a replay
  doing this;
* the finished straight-line test stays in DONE until its page is opened again
  (`Body_ctrl.c:933`), and the motor output of a fallen car looks at `STOP_FLAG`
  only (`Body_ctrl.c:471`);
* a jump or stair page opened during a rotation drives the turning car for a tick
  (`Body_ctrl.c:1063`);
* a test page whose test is over within the call that opened it, D2 to D4 with a
  transmitter that is detected and not armed, keeps its `init_flag` and does nothing
  when it is opened again, against `Menu.c:23-24`; and as `last_index` is then the
  page it went home to (`Menu.c:330`), that page is never drawn and the display
  stays on the test page, against `Menu.c:303-305`. `FreshEntry`, `ScreenFollows`
  and `DisplayCatchesUp` except these pages by name (`stranded`);
* a jump of the remote control between the two halves of `jump_abort`
  (`Body_ctrl.c:343-350`) goes on without giving its gains back, or saves those of
  the jump before;
* a stair sequence opened within the settle time after a fall jumps with full gains
  (`Body_ctrl.c:485`);
* the rotation page stores `run_state` and `STOP_FLAG` over a fall, and the car is
  driven at once (`Menu.c:756-757`);
* a forced stop between `Stair_test.c:527` and `528` leaves the stair parameters in
  force with no test to take them back (`OnlyOpeningKeeps` allows for it);
* the sequence counts a jump that the tilt protection ended
  (`Stair_test.c:559-561`);
* speed bytes of value 0xA5 may keep the collector of the motor link out of step for
  as long as they are sent (`small_driver_uart_control.c:20`);
* `gnss_flag` is down while sentences are waiting, after a wrong checksum
  (`zf_device_gnss.c:430`);
* the restart of the clock after a fall, or a save at tick 0, cuts the interval of
  the cache short (`gnss_cache.c:44`), against `gnss_cache.h:52`;
* a wrapped read from the tail of a fifo returns other bytes than the newest
  (`zf_common_fifo.c:497`).

## 9. Not modelled

Displays, camera, WiFi, the vendor SDK and the unused drivers are plain I/O or
third-party code; they make up nearly all of the lines of the repository. The
quaternion filter, the PID loops, the servo geometry and the calibration of the
gyroscope are floating-point mathematics; the drive takes their outcomes as
choices. `gnss_cache_load` and the start-up mode it selects run once, before the
interrupts. The pages of groups E and F and D5 only show or set values nothing
here depends on. `control_navigation`, `flash_Nag_Read`, `straight_test_stop`,
`car_motor_control` and `jump_vision_update` are never called. The second core
runs an empty loop.
