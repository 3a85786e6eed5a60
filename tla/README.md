# Verification of the telematics firmware

TLA+ models of the firmware under `src/`, the TLC runs that check them on small
instances, and TLAPS proofs of the properties that matter most for every size.
`PROJECT.json` lists the components, runs, mutants, hazards and theorems, and
says for every definition which lines of the source it stands for.  Source
paths below are relative to the firmware's `src/src/`.

## The system

An ESP32 unit in an electric vehicle.  It counts the distance driven, records
battery, motor and position data on a card, forwards them to a broker over WiFi
or GSM, keeps a diagnostic memory, and supervises itself with a watchdog.  Four
FreeRTOS tasks call the components' cyclic functions (`services/SchM/SchM.c:103-169`):

| task | period | priority, core | calls |
|---|---|---|---|
| scheduler | 10 ms | 5, core 1 | WdgM (every 1 s), Can, CanIf, GnssIf, HmiSwc |
| acquisition | 3 s | 4, core 1 | BattSwc, the odometer sample |
| storage | 3 s | 3, core 1 | TelemSwc_AcquireAndStore, OdoSwc, NvM, DiagSwc, FsAbs |
| connectivity | 1 s | 2, core 0 | ComM, NetIf, TelemSwc_MainFunction |

There are two locks: the one of the SPI bus, and a critical section in Dio.

### Inventory

Persistence and odometer (modelled):

- **Fls, Fee** (`mcal/Fls`, `services/Fee`).  State: two flash sectors used as
  logs of records; in RAM the mounted sector, its sequence number, the write
  cursor and a mark for a damaged slot.  Operations: mount, format, read, write,
  invalidate, collect.  Hard: every flash operation may be cut by a supply loss
  or reported as failed with some of its bits programmed; counters wrap.
  Correct: an acknowledged write survives, an interrupted one is old or new, and
  the store never ends in a state where writing fails for good.
- **NvM** (`services/NvM`).  State: RAM mirrors, dirty flags, a copy of what was
  last committed, a round-robin cursor.  Called by EcuM, OdoSwc, TelemSwc and
  diagnostics; calls Fee.  Hard: failed commits, write-on-change against a
  cached copy, starvation of deferred blocks.  Correct: what owes no write is
  stored; every owed write is written.
- **OdoSwc** (`app/OdoSwc`).  State: the total, a fraction of a millimetre, the
  reference sample, what was last persisted.  Fed by the acquisition task from
  CanIf, persisted by the storage task through NvM.  Hard: the two tasks meet
  during a commit; resets.  Correct: the reading never decreases, is never
  invented, and a reset costs a bounded distance.

Start-up and supervision:

- **EcuM** (`services/EcuM`, `main.cpp`): starts the drivers, Fee, NvM, the
  clock and the components, creates the tasks, activates supervision, and counts
  restarts in a window of wall-clock time, in a block of NvM.  State: the restart
  record, what is degraded, what came up.  Hard: the count against clocks that
  may not be valid, and resets before it is stored.  Correct: a crash loop is
  found, and only a crash loop is.
- **SchM** (`services/SchM`): the dispatcher.  Each activation reports
  checkpoints to WdgM and runs the runnables that are due.
- **WdgM, Wdg** (`services/WdgM`, `mcal/Wdg`): alive, deadline and logical
  supervision of the tasks; the hardware watchdog is fed while no entity has
  expired.  State: per entity a status, an alive counter, failed cycles and the
  last checkpoint; per task an entry in the hardware's table.  Hard: counters
  shared between tasks, violations that decay, activation after the tasks run.
  Correct: a task that stops leads to a reset, a healthy one to none.
- **TimeAbs, Gpt** (`ecuabs/TimeAbs`, `mcal/Gpt`): the wall clock as an offset
  plus a 32-bit millisecond count, set from a clock chip with a stop flag.
  Correct: what is valid is the true time.

Forwarding:

- **TelemSwc** (`app/TelemSwc`): assembles a record per cycle (storage task),
  publishes it live, drains the backlog and serves requests for old files
  (connectivity task).  **FsAbs** (`ecuabs/FsAbs`): day files on the card, and a
  read cursor stored directly in Fee.  Hard: the two tasks share the live record,
  the line buffer and the cursor; the append may be torn; the cursor store may
  fail; files grow or go while they are sent.  A read or a
  walk of the directory that ends early is answered like a whole one.  Correct:
  every stored record is published at least once and in order, and a requested
  day arrives whole, but for what such reads leave out.
- **ComM, NetIf** (`services/ComM`, `ecuabs/NetIf`): choice of the bearer from
  failure counts, the connection state machine with back-off, the broker session
  and its subscription.  Hard: time-outs racing late answers, switches while
  connecting, a GSM attach that blocks the task.  Correct: a bearer that works is
  found within a bound, the preferred one returns, only one is on.
- **Com** (`services/Com`): formatting and parsing of records and requests.

Measuring:

- **Can, CanIf** (`mcal/Can`, `ecuabs/CanIf`): the controller's filters and two
  receive buffers, a software queue, the decoded halves of the motor data.  Read
  by the scheduler task, copied by acquisition and storage.  Hard: frames that
  arrive while the controller is read, an SPI bus that is denied, copies without
  a lock.  Correct: nothing is decoded as another frame, the queue never
  overflows, the odometer gets no stale speed.
- **Rs485If, BattSwc** (`ecuabs/Rs485If`, `app/BattSwc`): the packs on a
  half-duplex line, found at the start and polled in rounds; their copies, totals
  and faults.  Hard: missing, damaged and late replies; copies rewritten while a
  record is formatted.  Correct: a reading is the right pack's and recent.
- **GnssIf** (`ecuabs/GnssIf`): sentences from a serial line, checked, decoded
  and filtered by plausible speed.  Hard: lost and damaged characters, a wrong
  fix that is adopted, copies.  Correct: no damaged or torn position, no lock-out.

Diagnosis:

- **Dem** (`services/Dem`): event status with a debounce counter and a
  confirmation threshold.  CanIf, BattSwc, GnssIf, NetIf, WdgM, SchM and
  **IoHwAb** (`ecuabs/IoHwAb`) report to it; it calls back for a snapshot, which
  measures a voltage and reports again.  **DiagSwc** (`app/DiagSwc`) stores
  confirmed faults, replays them at the next start and serves requests.  Hard:
  one counter for several reporters, reports per cycle against reports per
  change, a store that fails, a clear that fails.  Correct: what is shown or
  stored was earned, and stays until it is cleared.

Support: **Crc**, **Det**, **Log**, **HmiSwc**, and the drivers **Adc, Dio, Mcu,
Port, Spi, Uart**.

## The plan

Modules in the order they were written; all groups are done.

1. `DurableStore` (abstract), `Fee`: the store everything durable rests on.
2. `NvM`, on `DurableStore`.
3. `Odometer`, on `NvM`.
4. `FsAbs` (the log and its cursor) and `Telemetry` (the two tasks on it).
5. `WdgM`, `SchM` (on WdgM), `TimeAbs`, composed by `EcuM`.
6. `NetIf`, `ComM` (on NetIf), `Backfill`, composed by `Backhaul`.
7. `Can`, `CanIf`; `Rs485If`, `BattSwc`; `GnssIf`; `Dem`, `DiagSwc`; composed by
   `Devices`.

Left: two callers inside `Fee` at once; the other services of `DiagSwc`.

## The modules

### DurableStore

What Fee promises (`services/Fee/Fee.h`): named blocks; a request in progress
that takes effect, or not, when it is answered, when it fails or when the supply
goes; reads that agree with what a reset would find.  `Decay` is the environment
that spoils a stored record, and is switched off by `decays`.

### Fee

One flash operation per step.  `media` holds for each sector its header and the
slots behind it, a slot being what the scanner would make of the bytes there:
committed value, committed invalidation, header without commit, bad payload, or
damage.  `pc` is the flash operation the code does next; the other variables are
the statics of `Fee.c` and the locals of the call in progress.  Every flash
operation completes, fails (`AppendFails`, `CollectFails`, `FormatFails`) or is
cut by `PowerLoss`; `Torn` and `Sealing` say what may be left behind.  The
scanner (`FindNewestRecord`, `NextCounter`, `FindWriteCursor`) is translated as
functions of a log.  Payload bytes and checksums are abstracted to a slot's kind.

`Environments` pairs calls with faults, so that one run can cover several
combinations that would be too large together.  Fee's state is mapped to
`DurableStore` by `BootValues` (what the next mount would read), and the property
`Durable` states the refinement.

### NvM

One action per call, on `INSTANCE DurableStore`: a commit is a `Submit`, followed
by `CommitSucceeds` or `CommitFails`, or by `PowerLoss`.  NvM's callers run in the
storage task, so calls do not overlap.  `Fragile` are the blocks whose records may
spoil or fail to be read, `Lands` those whose failed writes may have taken effect:
properties about the flash and the mirror agreeing are stated for the others.

### Odometer

Extends `NvM`.  `ProcessSpeedSample` is the acquisition task's and may come
between any two steps of the storage task (`OdoMainFunction`, `Cyclic`, the
commit's answer), as its priority is higher.  Numbers are scaled: `Scale` stands
for 2^32 and the halving of the trapezoid.

### FsAbs

The log and its cursor, as operators.  A file is a sequence of cells, one per
append: record, header, stub (an append cut short, which the next append goes on
from) or junk.  Offsets count half cells, so that an odd one lies inside a line.
`LineAt` and `SkipCsvHeader` are the reader: where the line at an offset ends,
whether it is an intact record, and what counts as a header.  The cursor block
goes to Fee; a failed write of it may have taken effect, as `Fee` shows.
`Reclaim` is housekeeping: it removes the file taken for the oldest unless the
cursor is in it.  `Cuts` are the places at which a read of a line may end early.

### Telemetry

Extends `FsAbs` with the two tasks.  The SPI lock is held for one card operation,
so each card operation, each write of the cursor and each publication is a step:

- storage: `Acquire`, `OpenFile` (the header), `FillBuffer`, `AppendRecord` or
  `AppendFails`, `StoreFirst`; and `Housekeep`, between two cycles;
- connectivity, for each record of `DrainBacklog`: `ReadLine` (or `NothingFound`,
  `EndOfFile`, `ReadCut`, `EndsEarly`), `ParseLine`, `Publish`, and the write of the
  cursor after an advance, a skip or a crossing (`StoreAdvance`, `StoreSkip`, `StoreCrossing`);
- the environment: `LinkDown`, `LinkUp`, `Restart`.

Both tasks build or check a line in `FsAbs_LineBuffer`, without a lock.
`Overlap` says whether they may do so at the same time.  With `Overlap` TRUE,
what is appended and what is parsed depends on who wrote the buffer last
(`held`); the run `telemetry_race` shows what that does.  Everything else is
checked and proved with `Overlap` FALSE, that is, for the code with that one
conflict out of the way.

`owed` is the set of records that were acknowledged as stored and not yet
accepted.  A record is not owed if a torn line stands before it (the two form one
line that fails its checksum), if its flush failed unnoticed (`AppendRecord`; the
card may hold all, part or nothing of it), nor if the unit restarts before any
cursor was stored (the next append sets it anew).  `Publish` takes E_OK of NetIf
for the broker's acceptance.

The platform leaf answers a seek that fails with `E_OK` and no bytes, a read that
fails part way with `E_OK` and the bytes before the failure
(`FsAbs_Esp32.cpp:258-278`), and a walk of the directory that an entry it cannot
open cuts short like a whole one.  These are the fault `short`: an empty read is
taken for the end of the file wherever the cursor stands (`EndsEarly`), a line
without its terminator for a torn append, which is skipped (`ReadCut`), a header
that is cut short for a record (`ReadLine`), and any file for the next one or the
oldest (`EndsEarly`, `Housekeep`).  The code cannot tell any of them from the
regular case, so records are lost: `telemetry_short` shows it.  `missed` collects
exactly the records that such a read or walk was itself to bring, and `OwedAhead`,
`HousekeepingSparesUnsent` and `BacklogDrains` speak of the others (`Due`): such a
fault costs the record or the rest of the file it hit, now and after resets, and
nothing else.

Reading the end of a file and finding the next one is one step.  For a record to
be left behind in between it would have to be appended to the drained file, and
the storage task's next activation, 3 s later, begin another file, while the
search waits for the bus, which it does for 3 s at most
(`FSABS_SPI_LOCK_TIMEOUT_MS`).

The clock does not go back, and a start that mounts the card loads the cursor (the fault `load`, a store that cannot be read at start, loses
the cursor and is listed as a hazard).

### WdgM, SchM, TimeAbs, EcuM

`WdgM` holds `WdgM_Entities` as one record per entity and the hardware's table:
the tasks that subscribed, those that reset their entry in the present period,
and the time since all had.  `Judge`, `CheckpointReached` and the activation are
operators; `SchM` calls them.  The increment of `aliveCounter` is a load and a
store with the supervision cycle possible in between (`LoadCount`).

`SchM` has a program counter per task.  Time passes in ticks of the scheduler's
period, only when nobody is ready; a body may last up to its `Budget`.  What
takes longer is a fault: `LateTick`, `Sticks`.

`TimeAbs` counts days since 1970.  The chip keeps a civil date which it counts on
by itself, and the conversions both ways are the program's.  A stop of the
oscillator sets the chip's flag, which the first start that sees it clears.

`EcuM` is `EcuM_Init` as a sequence of phases with what may fail in each, then
the running tasks, `Shutdown`, `ClearCrashLoopCounter`, `Reset` at any point and
`Bite` of the hardware.  A behaviour follows either one run of the tasks
(`tasks`, or `watched` with every task in the hardware's table) or start after
start over several days (`starts`): the two share nothing but the reset.
`starts` records for each start that evaluated the record the true day, whether
the clock was right, and what was found and stored.

### NetIf, ComM, Backfill, Backhaul

`NetIf` is the state machine with one disjunct per state in `NetMainFunction`, on
a station that joins or loses the network by itself, a modem whose attach blocks
the task (`busy`), and a client whose connection may be lost unnoticed.  `ComM`
is `ComM_MainFunction` on top.  `Backfill` is what TelemSwc sends besides the
backlog: the live record with its flag, and a requested day in chunks, from files
whose sizes change; a chunk goes out as it was read, however little a read that is
answered `E_OK` brought (`ChunkSent`), and `day.lost` counts what such reads left
out.  `AcquireAndStore` has no failed serialisation: the widest fields and
separators of `Com_SerialiseCsvRecord` come to less than 1500 bytes of the 2304 of
its buffer, and its pointers are never null.

`Backhaul` runs them in the order of the connectivity task (`pc`): ComM, NetIf or an
arriving request, live, backfill, sleep.  Around it the bearers and the broker come
and go (`Change`), the storage task acquires records and removes files, and time
passes while the task sleeps or is blocked.

### Can, CanIf, Rs485If, BattSwc, GnssIf, Dem, DiagSwc, Devices

`Can` encodes identifiers into the controller's four registers and back, applies
the filters to what is on the bus, and reads the two buffers in the driver's
order, one access per step, while further frames arrive.  `CanIf` decodes the
queue; a reader's copy is four steps (`CopySpeed`, `Judge`, `ReportStale`,
`Feed`), as nothing protects it.  A frame carries its true age beside the stamp
the program gives it.

`Rs485If` has one step per exchange on the line.  A reply may be missing, damaged,
or late, and a late one meets the next request.  Measurements are named by where
they come from: the pack's serial number and the number of rounds since.
`BattSwc` copies, sums and reports after each round; the storage task reads a
slot's flag and its values in two steps.

`GnssIf` reads sentences part by part; characters are lost, damaged, or run into
the next sentence.  Places are whole minutes on a diagonal and the plausibility
filter is the program's.  The copy is two steps, one per coordinate.

`Dem` is a function from records to records (`SetEventStatus`), with the call back
to the voltage monitor; `DiagSwc` has the replay at the start, the write of the
store and the clearing service, a write being a step that may fail.  `shown`
counts the failed reports a fault has earned.

`Devices` follows in each behaviour one of the four chains (`env`): they share no
state, and what joins them is Dem, which the fourth chain gives any report at any
time.

## What the runs check

| run | expects | shows |
|---|---|---|
| `fee_store` | pass | two blocks, failures, supply losses, spoilt records: `Durable`, `AdmittedFits`, `NothingHidden`, `MountedWins` |
| `fee_recovery` | pass | one block, every call, wrapping numbers: the same refinement, `TypeOK`, `AgeOrder`, `DamageReclaimedFirst`, and `ServiceResumes` |
| `fee_seal` | violation | a collection whose last header write lands but is reported as failed hides the acknowledged writes that follow (`Fee.c:736`) |
| `fee_read` | violation | two failing header reads at start format intact sectors (`Fee.c:813`) |
| `nvm` | pass | `TypeOK`, `CleanMeansStored`, `NoUnchangedCommit`, `DeferredWritten` |
| `odometer` | pass | `OdoTypeOK`, `ReadingNeverDecreases`, `NothingFabricated`, `LossBounded` |
| `telemetry` | pass | `TypeOK`, `OwedAhead`, `InOrderOnce`, `HousekeepingSparesUnsent`, `BacklogDrains` |
| `telemetry_race` | violation | with the line buffer shared, the cursor passes a record that was never published (`FsAbs.c:418`), without any fault |
| `telemetry_short` | violation | one read that ends early and is answered `E_OK` lets the cursor pass a record that was never published (`FsAbs.c:423`) |
| `startup` | pass | `HealthyUndisturbed`, `StuckIsReset`, `ForgivenLate`, `LoopsTold`, `ClockTrue` |
| `backhaul` | pass | `OneBearer`, `OutageBounded`, `LiveOwed`, `DaysWhole`, `PreferredReturns`, `TransferEnds` |
| `devices` | pass | `MotorSound`, `PacksSound`, `PositionSound`, `FaultsSound` |

### Bounds

- `fee_store`: two blocks whose records fill a sector of six units, so that a
  collection happens after at most three writes and a second one inside the
  recovery of the first.  `AgeView` identifies states that differ by a rotation
  of counters; `fee_recovery` runs without it, on one block, with ranges of four
  so that counters and sequence numbers wrap after a few writes.
- `nvm`: one immediate and two deferred blocks, two images; the third block is
  both `Fragile` and `Lands`.  With two others the round robin can starve.
- `odometer`: distances up to 5 (`MaxTotal`) with a threshold of 2; the bound in
  `LossBounded` is reached at 4 and `MaxTotal` lets it be exceeded.  Speeds
  include an implausible one and pairs whose difference is implausible; gaps up
  to one beyond `MaxGap`; one sample between two passes of the storage task
  (`MaxLag`; both have the same period).  The calibration block is `Fragile`, but
  there is one factor, so a calibration that spoils changes nothing here; the
  proofs are for any.  The odometer's failed writes may land.
- `telemetry`: three days and three records give a file that is drained, one
  that is crossed and one that is written; two faults of eight kinds let one
  fault hit the handling of another (a torn append, then a reset; a failed cursor
  write, then a lost link; a read cut short, then a reset); a card is given up
  after two failed appends (`WriteLimit`).  Two records and one skip per cycle (`PerCycle`, `MaxSkips`)
  reach both ends of the loop.  `telemetry_short` has two days and one fault,
  `short`.

- `startup`: the scheduler's task and one other; two activations per supervision
  cycle, three failed cycles to expire, so that expiry, decay, forgiveness and the
  bite all happen.  Four starts over the four days around 29 February 2028, a loop
  at two starts within a day: windows end among the starts.  The counter wraps
  after two days.  Any two faults, one torn increment.
- `backhaul`: times in units of about ten seconds, with the order of the real
  ones kept (session timeout < link timeout < allowance < retry of WiFi).  Two
  changes of what is in reach, which may come while connecting, while blocked, or
  during a chunk.  `Bound`, 33 units, is what `Patient` asks for in this instance
  (`Longest`); the run meets waits of up to 24.  Two days in chunks of two, up
  to four large, so that a last chunk is whole, partial or absent.
- `devices`: three frames per cycle, one arriving meanwhile (at the bus's rate at
  most one can within a read), four kinds of frame besides the two that are wanted
  in one.  The motor chain has one reader: what two readers do to each other is
  the skipped report below.  Two slots, empty or fitted; one retry; a late reply
  lasts three exchanges, so it meets another request and another slot.  Three
  places; a buffer one sentence and a half long; two sentences per cycle.
  Thresholds 1 and 2 with one replay: one event that a replay restores and one it
  does not.

### Fairness

- `Fee`: a call that has begun goes on; writes are tried again, since
  `NvM_MainFunction` retries a dirty block on every activation.  `ServiceResumes`
  assumes in addition that the faults stop.
- `NvM`: the cyclic function gets its turn (the storage task calls it in every
  pass), a commit in progress ends, and the media does not refuse one block for
  ever.
- `Telemetry`: both tasks are scheduled again and again (they have periods, and
  nothing they wait for lasts), and coverage returns.  `BacklogDrains` leaves out
  a card that was given up and a cursor whose file was removed.
- `EcuM`: the start goes on, a task that is ready gets the processor (the
  preemptive scheduler, with bodies within their budgets), time passes and the
  hardware bites when its time is over.
- `Backhaul`: the connectivity task runs to its end (each call returns: attach and
  publish have time-outs), time passes, and EcuM asks for communication.
  `PreferredReturns` and `TransferEnds` assume in addition that WiFi and the
  broker stay in reach.

## What is proved

`FeeProofs`, `FeeDurable`, `NvMProofs`, `OdometerProofs`, `TelemetryProofs`,
`EcuMProofs`, `BackhaulProofs` and `DevicesProofs`, for all values of the constants
that satisfy the assumptions named in the modules.

- `Fee`: types; `AdmittedFits`; `NothingHidden`; `MountedWins` where header
  writes that fail leave nothing, reads succeed and formatting is the start's.
  The invariant bounds the space a log can use by the cursor, relates the copy of
  a collection to the blocks still to come, and keeps a sealed pair's sequence
  numbers one apart.  The assumption on `SectorSize` (all blocks, one more and
  the threshold fit a sector) is what makes room; the configuration satisfies it.
- `Fee`, what a record's number is worth (`FeeDurable`): `AgeOrder` where header
  reads succeed, and `DamageReclaimedFirst` where formatting is the start's.
- `Fee` implements `DurableStore` (`FeeIsDurable`, every step a step of the store
  or a stutter) where it can be relied on (`Trusted`): headers are written and
  read as the driver says, nobody formats, and a failed program operation leaves
  nothing if blocks are invalidated.  The invariant says what the call in progress
  has done to the media so far, that a record which is not committed yet stands
  where no reset would take it for one, and that a copy under way reads as its
  original.  What `Trusted` excludes is what `fee_seal` and `fee_read` show, a format
  by a caller, and the case of `Fee_InvalidateBlock` noted below.
- `NvM`: types; `CleanMeansStored` and `NoUnchangedCommit`.  They are not
  inductive: a clean block agrees with the flash only because the cached copy
  does (`Known`), and a retry differs from the flash only because whatever is
  dirty or on its way does (`Owed`), and only one commit is in progress, of the
  mirror of the block the call is at (`Progress`).
- `Odometer`: types; every behaviour is a behaviour of NvM (`OdometerUsesNvM`);
  `ReadingNeverDecreases` and `NothingFabricated` where the odometer's records do
  not spoil.  The invariant orders flash, mirror and total (`Behind`), which a
  retry of an older image and a failed write that lands both respect.
  `LossBounded`, from an invariant that sets the unsaved distance against what the
  threshold and the samples since the last pass can have added (`LossInv`).
- `Telemetry`, with `Overlap` FALSE and without the fault `load`: types;
  `OwedAhead`, for any number of days, records and faults;
  `HousekeepingSparesUnsent`; and `InOrderOnce`.  The first two except what a read
  or a walk that ended early was itself to bring (`missed`).  A record is ahead of the cursor after a step only
  if the cursor stands between lines of a file that exists or is still to be
  written (`CursorInv`), if every owed record begins a line (`CardInv`), and if
  the line in the buffer holds no owed record but the one found (`ImageInv`).
  The stored cursor is never in a later file than the one in RAM, which is why
  housekeeping cannot remove what a reset would go back to.  What was published
  lies behind the cursor, and the line in the buffer after it (`OrderInv`).
- `EcuM`: types (`TypesHold`).  `ClockTrue`: a valid clock shows the true day.
  `TimeInv` keeps the offset right while the millisecond count runs; the rest is
  the calendar, that the program's conversions between days and dates undo each
  other over 1970 to 2099 (`RoundTrip`).  They are recursive functions of the year
  and the month, and induction is replaced by a least counterexample: a year that
  the search passes by mistake has a smaller one before it.
- `EcuM`, supervision: `ForgivenLate`.  `SupInv` relates the failed cycles of an
  expired entity to the ticks since the hardware was fed (`Owed`), across torn
  increments, late ticks and the shutdown.
- `EcuM`, punctual tasks: `HealthyUndisturbed`, if the configuration is
  `Schedulable`, for any number of tasks.  What this property needs is a bound on
  an entity's failed cycles that no evaluation can push up.  `Debt` adds to the
  failed cycles what the next evaluations will still find wrong: an entry
  checkpoint that supervision missed because it began in mid-activation, a count
  that has fallen behind, one that has run ahead, a count loaded but not stored,
  and the torn increments that can still happen.  It is within `Allowance` when
  supervision starts and no punctual step adds to it, since an evaluation only
  turns debt into failure (`EvaluationFits`).  That a count which is level with the
  time is in its range at the end of a cycle is `NotTooFew` and `NotTooMany`.
- `EcuM`, crash loops (`LoopsAreTold`): `LoopsTold`, for any history of starts,
  resets, lost and failed writes and clocks.  A run of quiet starts has been
  counted from its first, or from one at which a window opened before the limit
  was reached (`QuietCounted`), so at most one window's end falls among the
  `2 * Count - 1` starts it takes; and no more is counted than was stored, the
  latest of it after the window had opened (`Backed`, `Opened`).
- `Backhaul`: `OneBearer`, `LiveOwed` and `DaysWhole`, each from an invariant of
  its own over the whole step.  `BearerInv` adds that nothing is started while no
  bearer is requested and that a session has its bearer; `LiveInv` says what is
  known between a publication and the clearing of its flag, when acquisition may
  come in between; `DayInv` states what was asked of the card (`Asked`: sent, or
  lost to a read that was answered `E_OK`) in terms of the chunk plan (`Unsent`,
  `UnderWay`): a file under transfer may grow if it is today's and vanish if it is
  not, but never shrinks, so every chunk lies within its file.  What a request's parser
  returns is defined with `SelectSeq`, of which the prover knows nothing; that it
  is a sequence of days, and no longer than there is room for, is part of
  `BackhaulAssumption`, and TLC evaluates it.
- `Backhaul`, waiting for a session (`OutagesEnd`): `OutageBounded` if the times
  are `Patient`.  A bearer that is not preferred waits while ComM tries the other
  one, at most a trial (three attempts, with the calls that block the task), and
  may have waited a trial of its own before it was given up (`Spent`).  Once it is
  asked for, `Course` bounds what is left until its session in every state of
  NetIf: a WiFi association that comes too late for the link timeout goes through
  one back-off and a second association, which the trial must have room for.
  `Phase` joins the two; the last attempt cannot fail a bearer on its course, since
  it is nearer to its session than to the end of the trial (`Left`).  `Patient`
  says that much of the times: with the program's 30 s for a link, 50 s for an
  attempt (`ComM.c:250`), three failures and a back-off of 2 s, it holds for
  associations below 30 s and attaches below 149 s.  The bound is then one trial of
  each bearer and one start (`Longest`).
- `Backhaul`: types (`TypesAreKept`), from all of these.
- `Devices`, motor chain (`MotorIsSound`): `MotorSound`, for any traffic, any
  number of readers, frames per cycle and denied cycles.  The invariant counts
  what the two buffers and the queue can hold against what arrived since the
  read began (`BuffersInv`, `QueueInv`): a frame in a buffer at the start of a
  cycle is as old as the bus was denied, one that arrived meanwhile is new, and
  the queue, emptied by the decoding of the cycle before, takes both.  `DataInv`
  then bounds the true age by the stamp.  That the registers of whatever passes
  the filters decode to one of two identifiers is the lemma `FiltersDecode`, by
  arithmetic on the 29-bit layout.
- `Devices`, battery chain (`PacksAreSound`): `PacksSound`, for any number of
  slots, fittings, retries and delays.  During discovery all packs but those
  already asked are off, so a serial is heard from one slot only
  (`DiscoveryInv`); the ages of readings, copies and totals follow where the round
  is (`ReadingsInv`, `CopiesInv`, `SumsInv`); a record whose slot was copied once
  since its flag was read is one round older at most (`RecordInv`).
- `Devices`, position (`PositionIsSound`): `PositionSound`, for any places,
  greatest speed, patience and number of sentences in a cycle.  While only the
  truth is told, what is known is the true place or has an age of at least the
  cycles that took (`Located`; `Sighted` inside a cycle): the plausible distance grows
  with the age, so after `Patience` of them the true place is no further than
  the filter allows, and a place that was adopted is near enough for the next.
  What is known comes from one undamaged sentence whatever is lost or overrun
  between its parts (`Known`).
- `Devices`, faults (`FaultsAreSound`): `FaultsSound`, for any events, thresholds,
  monitors, voltages and number of replays.  Within one report the voltage is
  measured once, and so all that the nested snapshots report of a voltage event
  points one way (`Measured`, `OneWay`): one that becomes confirmed has its
  threshold on the counter.  The counter holds no more than the failures counted
  since the last clearing, unless the event was restored from flash, which had earned it
  (`CountersInv`, `EarnedInv`); a confirmed event has failed in the cycle of its
  start, so the one operation cycle heals nothing, and what is stored stays
  confirmed (`KeptInv`).
- `Devices`: types (`DevicesKeepTheirTypes`), from the four chains' invariants and
  three bounds they do not need (`BoundsInv`).

The assumptions of the modules are the configuration's: `Arrivals + 2 <=
FramesPerCycle <= QueueDepth` and `SignalTimeout <= MaxAge` for the motor chain;
voltage events that only `IoHwAb_ReadAuxVoltage` reports (`IoHwAb.c:139-167`);
records that are no shorter than a stub for `Fee`; a greatest factor and positive
scales for `Odometer`; plausible days between 2000 and 2099 (`TimeAbs_Cfg.h:27,30`)
and a counter that wraps before the first of them for `TimeAbs`.  `Schedulable`
holds of `WdgM_Cfg.h` and `SchM_Cfg.h`, in ticks of 10 ms: the scheduler's period
is 1 and its range 80..120, the periods of acquisition, storage and telemetry are
300, 300 and 100 with ranges 0..2, 0..2 and 0..3, all below the deadlines; a cycle
is 100, the hardware's timeouts 1200 and 6000.  With a tolerance of 5 it leaves room for
three torn increments; the assertions of `SchM_Cfg.h:151-158` are its first part.
TLC evaluates it for the instance of `startup`, and `Patient` for that of `backhaul`.

Only model-checked: what needs fairness, which the prover does not handle:
`ServiceResumes`, `DeferredWritten`, `BacklogDrains`, `StuckIsReset`,
`PreferredReturns` and `TransferEnds`.  Every other property of a passing run is a
theorem.

`ReadParts`, `Replay` and `Restore` are recursive functions so that they
can be reasoned about: the first is unfolded over its four parts at most; for the
others a proof is a loop invariant, whose induction is over a set of numbers
(`Counting`), by the least number missing from it.

## What the code does that one may not expect

Met while modelling.  The four runs that expect a violation show the ones that
contradict a comment most directly; these are in the models too, or next to them,
and the properties are stated so as to be true of them.

Start-up and supervision:

- Every task subscribes to the hardware watchdog (`SchM_Esp32.cpp:79`) but only
  the scheduler's calls `Wdg_Trigger`, which resets the caller's entry: as the
  vendor documents that table, the other entries run out and reset a healthy unit.
  `HealthyUndisturbed` therefore speaks of the hardware only where the scheduler
  is the only one in it (environment `tasks`); `watched` has the other table.  A
  property `~late => ~Bites` without that restriction fails there without a fault.
- The scheduler's own alive supervision is vacuous (it runs the judgement), and
  tasks with `AliveMin` 0 may stop unnoticed by WdgM.  An expired entity decays
  back to OK, so a trigger that was withheld resumes (`ForgivenLate` says when);
  a task that violates every other cycle does not escalate.
- Within a fixed window up to 2 * Count - 2 restarts may pass undetected
  (`LoopDetected`); without a valid clock every start counts.
- A task whose activation began before `EcuM` activates the supervision checks out
  without having checked in, which counts as a violation of the program flow; the
  tolerance absorbs it.
- Nothing calls `EcuM_ClearCrashLoopCounter`, `EcuM_ShutdownAndReset`, the setters
  of TimeAbs, or `WdgM_ActivateEntity`.
- The chip's stop flag is cleared by the first start that sees it; the next one
  trusts the date, which is wrong until it is set.  The wall clock jumps back when
  the millisecond count wraps, after 49.7 days.

The store:

- After a failed program operation `Fee_WriteBlock` collects before it appends again
  (`Fee.c:912-919`), `Fee_InvalidateBlock` does not: where the record had landed, the
  invalidation is written over it.  Nothing calls `Fee_InvalidateBlock`.

The odometer:

- `OdoSwc_Commit` reads the total a second time after the flash write and notes it
  as persisted (`OdoSwc.c:140-151`), with the distance that the acquisition task
  added meanwhile; a vehicle that then stops for good never writes that distance.
  `LossBounded` has the bound.

The log and its transfer:

- A read or a walk of the directory that ends early is answered `E_OK`
  (`FsAbs_Esp32.cpp:258-278`), and passes for the end of a file, a torn line, a
  short last chunk or the oldest file.  So a requested day may end like a whole one
  with a hole in it (`TelemSwc.c:480-496` does not compare what was read with what
  was asked for); `DaysWhole` says that nothing else is missing.
- `flush` and `close` are not looked at (`FsAbs_Esp32.cpp:219`), so an append may be
  acknowledged that is not on the card, and the first record after a torn line is
  acknowledged and skipped.
- A crossing whose store failed may leave the stored cursor on a file that
  housekeeping removes; a reset then ends the transfer for good (`Adrift`).

Backhaul:

- A record acquired while its predecessor is being published live loses its flag
  and does not go out live (`TelemSwc.c:345`); the flag is set before the record is
  stored, although `docs/01-requirements.md` has "Store before send".
- A bearer requested while the other one is connecting inherits its age.
  `GsmDisconnect` on a modem that is off pulses its power key, which turns it on.
- A subscription that fails is not tried again before the next session.
- A session lost in `MqttLoop` leaves `activeBearer` as it was.
- Live publication and the backlog send every record twice; a record taken
  without a clock goes out live only, if at all.

Devices and diagnosis:

- The two readers each count a stale read before either compares the count with
  the threshold, so the report can be skipped for a whole outage.
- `CAN_TIMEOUT` (threshold 5) and `GNSS_NO_FIX` (30) are reported failed once per
  outage and passed at its end, so they are never confirmed.  The 30 cycles that
  `GnssIf_Cfg.h` puts at 90 s are 3 s: the function runs every 100 ms.
- `PACK_NO_RESPONSE`, `TASK_OVERRUN` and the watchdog events have one counter for
  all instances: reports of healthy ones cancel those of the faulty one.
- A pack whose pack readings fail while its cell readings succeed, or the other
  way round, is never reported: one counter of failures serves both.
- A sentence within 200 ms of the last one is adopted without the plausibility
  check, and a wrong first fix locks the true one out for as long as the distance
  takes at the greatest speed (`PositionSound` states this bound).
- Healing never happens, as the operation cycle starts once, right after the
  replay.  Faults whose threshold is above the replays (`NO_BACKHAUL`, the bearers'
  and the receiver's) are not restored, and leave the flash at the next store.
  After a clear the count of confirmed faults is not reset, so as many new ones
  are not stored.  A clear that is answered negatively has cleared the RAM.
- Nothing calls `DiagSwc_HandleRequest`, `Can_RecoverBusOff` or the transmission
  of frames.

## Not modelled

Byte layouts and checksum arithmetic, statistics, logging and error traces; the
registers and vendor libraries below the drivers.  In the modelled components:

- reading faults during a collection and a scan of Fee, and two tasks inside Fee
  at once (`FsAbs_StoreCursor` is called on the other core); both are hazards;
- the 64-bit total read in two halves, the trip counter, the displayed speed;
- what is lost in flight after NetIf accepted it, and MQTT below NetIf;
- in DiagSwc the services that read and write data or run routines, and sessions;
  in Dem the occurrence counts, times and instances;
- in GnssIf speed, heading, altitude and the receiver's time, and digits below a
  minute; in Can the transmission and bit timing;
- HmiSwc (lamp patterns of its own two counters, which nothing reads), Crc, Det,
  Log, Adc, Dio, Port and Spi.
