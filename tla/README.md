# TLA+ models of the MatterESP32 hub

Specifications of the hub (Go), the ESPHome compile service (Python) and the
device firmware (C++) of this repository: TLA+ modules translated from the
source, TLC configurations that check them on small instances, and proofs that
TLAPS checks for every instance. Paths are relative to the repository's root;
`queue.go` is `internal/esphome/queue.go`, "the design doc" is
`docs/superpowers/specs/2026-04-21-esphome-compile-queue-design.md`.

Run a model with `tlc -config X.cfg M.tla`, a proof with `tlapm M.tla`.

## The system

| Component | State | Operations | Hard part |
|---|---|---|---|
| Compile queue (`queue.go`) | `pending`, `active`, `cancel`, `notify`; job rows; `esphome-builds/*.bin` | Enqueue, Cancel, worker/runJob, 7-day sweep, reset at start | HTTP handlers against one worker; crash between any two steps; two stores |
| SSE fan-out (`queue.go`, `api/jobs.go`) | `subs`, one buffered channel per tab | Subscribe, broadcast, closeSubscribers, cleanup | channels are copied, sent to and closed without a lock in common |
| Compile service (`esphome-svc/server.py`, `esphome/sidecar.go`) | `_proc`, build directories | POST /compile, DELETE /compile, health | abandoned calls, a global shared by threads |
| Firmware registry (`api/firmware.go`, `db/firmware.go`, `fwwatch`) | table `firmware`, `.bin` files, inbox directory | upload, watch, set latest, delete | a file and a row written in two steps by several actors |
| OTA server (`internal/ota`) | `last_seen`, `fw_version`, `ota_log` | check, download | request signed with a time stamp; file replaced while it is read |
| Firmware build (`api/build.go`) | `activeBuild`, its log and subscribers | start, stream log, run docker | a log that is appended, replayed and streamed at once |
| Flashing (`internal/flash`, `api/flash.go`, `api/webflash.go`) | key on the chip, key in `devices`, web-flash sessions | flash, prepare, manifest, session GC | two stores that must agree on a key |
| Device firmware (`firmware/main`) | H-bridge latches, WiFi state, NVS | console, Matter callback, boot | two tasks on one light; time-outs against late events |
| Start-up (`cmd/server`, `internal/db/db.go`, `config`, `tlsutil`) | schema, config file, certificates | open, migrate, write-once files | crash between steps |
| Catalogue (`yamldef`, `seed`, `library`, `api/modules.go` ...) | YAML rows | seed, upsert, validate | built-in against user rows |
| Pure algorithms (`matter/payload.go`, `nvs`, `assembler.go`) | none | encode, slug, defaults | limits and widths |

The hub's HTTP handlers call the queue; the queue's only worker calls the
compile service and shares the directory `esphome-cache` with it; the queue
announces what it does to SSE channels; builds and uploads feed the firmware
registry, which the OTA server reads; flashing creates the device rows the OTA
server authenticates against.

What makes each part correct is listed with its module below; every place that
is hard to test is a hazard in `PROJECT.json`, at its line, with the properties
that cover it or the reason why none does.

## Modules

### JobLifecycle: what the hub promises about a job

The life of one row of `esphome_jobs`: submitted, started when no other row is
running, finished, withdrawn, settled by a restart, deleted by the sweep. It
knows nothing of queues or goroutines and is the abstract specification
CompileQueue implements.

### CompileQueue: the queue, its worker, its rows and its files

One action per step between two points where another goroutine can get in: a
critical section of `q.mu`, one SQL statement (the pool has one connection), one
file operation, one operation on the `notify` channel. `Enqueue` is `CreateRow`,
`AppendJob`, `Notify`; `Cancel` is `RemovePending`, `MarkCancelled` for a queued
job and `CancelActive` for the active one (an error return changes nothing and
is no step); the worker is `WakeUp`, `PopNext`, the steps of `runJob` with each
of its failure exits, `ClearActive`, `Drained`; the sweep is `SweepRows`,
`SweepFiles` with `RowAges` and `FileAges` for the seven days; `HubRestart` may
happen between any two steps and includes the reset of stale rows in `db.Open`.

Properties: `NoLostWakeup`, `UnsettledJobsAreHeld` (a pending or running row
always belongs to some goroutine), `QueueHoldsPendingJobs` (a cancelled job is
never started later), `DoneHasBinary`, `FleetHasBuiltDevicesOnly`,
`ImplementsLifecycle` (refinement) and `EveryJobSettles` (liveness).

Assumed: SQL updates succeed (the code ignores their errors); a file is younger
than its row and the worker does not sit for seven days between saving a file
and settling its row; `created_at` and the cutoff of the sweep are in one time
zone (the container sets none).

### JobStream: the SSE fan-out of one job

Two writers announce events, the Enqueue call ("enq") and whoever carries the
job to its end ("fin"); each tab is a client with a channel of `Cap` events. The
list of subscribers is copied under the lock (`CopySubs`) and the sends and
closes follow without it, one channel at a time. `Subscribe` is `GetJob` (first
read and replay: local to the caller, so one step) and `Attach` (second read and
registration under the lock). A replay that does not fit leaves the handler
`"stuck"`, as in the code. That there is exactly one "fin" per job is what
CompileQueue shows (`QueueHoldsPendingJobs`).

Properties: `FinisherNeverPanics`, `NoOrphanStream`, `DoneMatchesRow`,
`SilentEndMeansOverflow`, `StreamEnds`. The text of log lines is left out. The
second read of the row is assumed to succeed.

### HubSidecar: the hub's calls and the compile service

The worker's calls, one after the other, each of which the hub may abandon
(cancel, 15 minutes, an over-long line, a restart of the hub); the service's
threads, one per POST, with the global `_proc`; the `esphome` process (external:
it reads `config.yaml`, leaves a firmware, exits); DELETE; a restart of the
container. All calls may share one build directory. SIGTERM is taken to end the
whole build.

Properties: `CompileIsAttended` (a live compile has a thread that reads its
output or waits for it), `BusyOnlyAfterAbandon`, `OverlapTakesThirdCall`,
`OwnFirmware`, and the liveness property `AbandonedIsStopped` (a compile the
hub has let go of is terminated, reaped and out of `_proc`, if it goes on
printing). Exception: the headers are sent outside the `try`,
so a thread whose hub was gone by then is lost (handler `"lost"`), and with it
whoever would stop the compile and clear `_proc`; the next POST that finds the
process over replaces it.

### FirmwareRegistry: versions, files, inbox and downloads

Table `firmware` with its `is_latest` mark, the files `firmware/<version>.bin`,
`firmware/incoming`, and everybody who touches two of them. A file is an inode:
`TakeDrop` (the watcher's rename) puts another inode under the version's name,
`CreateFile` (an upload) truncates the one that is there, `RemoveFile` leaves it
to those who have it open; so a mixture of two images is a state the model can
be in, and a download can send it. `uploadFirmware` is `CreateFile`, `CopyImage`
(which may break off), `InsertUploaded`; `deleteFirmware` is `DeleteRow`,
`RemoveFile`; the watcher is `TakeDrop`, `InsertTaken`, `MarkTaken`;
`handleDownload` is `AskLatest`, `OpenFile`, `SendFile`. A drop's writer is a
build or a person: the file appears empty (`Drop`), has its first bytes
(`FillDrop`), is complete (`FinishDrop`), and its writer may stall at any point.
`sizeStable` refuses an empty file always, a growing one as long as it grows, and
takes one whose writer stalls for the second it waits.
`HubRestart` loses what is under way.

Properties: `ListedHasFile` (table against disk), `ServedWhole` (what a device
that reports success has received), `DropIsRegistered` (liveness). Their
exceptions are what the code really does wrong: a deletion that removes the file
of its successor, an upload over a file being downloaded, a stalled copy, a
restart between rename and insert. Each is a hazard of its own in
`PROJECT.json`; the history variables `deleted`, `rewritten`, `hasty` and
`orphaned` keep the exceptions that narrow.

### DeviceTable: the rows of the fleet

The one table that both the start of the hub and the provisioning of a chip are
about (`db/device.go`), with one operator per SQL statement. A row is the
*bundle* it was registered with, the key and the Matter credentials one attempt
draws, and the bundle whose key signed the version it shows. Startup and
Provisioning extend it.

### Startup: configuration, schema, migration, seeding, certificates

`main` of `cmd/server` as a chain of phases, one action for every write that is
on disk by itself: `CreateConfig`/`WriteConfig` (`config.go`), `ApplySchema`,
`Detect`, `CreateShadow`, `CopyRows`, `DropDevices`, `RenameShadow` (the
migration of table `devices`, `db.go`), `SeedModule` for one module at a time and
`Seeded` (`seed`), `EnsureCerts`, `FillCrt`, `OpenKey`, `FillKey` (`tlsutil`), `Listen`. `Crash` may come in every
phase; `log.Fatalf` is phase `"dead"`; both are followed by another start over
what is on disk. `CreateModule` and `DeleteModule` are the catalogue's API.

Properties: `FleetKept` (no row is lost by a migration cut short; it may be
stranded in `devices_v2`), `CatalogueAfterStart` (built-in modules are brought up
to date, a user's own are never touched), `HubServes` (liveness: the hub comes up
however often it died before). `cut` remembers the phases in which the process
died and nothing mends it: a hub that dies between the DROP and the RENAME serves
an empty fleet, one that dies between creating and writing `app.yaml` comes up on
ports 0, one that dies while writing the key never gets past its certificates.
They are hazards, and the exceptions of the properties are exactly these phases.

### BuildLog: the firmware build and its log

`StartBuild` is the check and the assignment under `buildMu`; the goroutine of
`runBuild` goes through `MakeIncoming`, `CheckImage`, `StartDocker`, `Output`,
`DockerSucceeds` or `DockerFails`, `Complete`, `Finish`, appending to a log whose
lines are counted (`docker images` decides between two ways to build, and an
error of it, which the code ignores, for the longer one); a stream is `OpenTab`,
then a `Poll` every 250 ms that reads the lines behind its cursor, `done` and
`err` under one lock.

Properties: `TerminalHasAll` (a tab that is told the end has every line, also
when the next build has begun), `OneBuild`, `TabEnds` (liveness). A container that
outlives its `docker` client is not among those counted.

### Hub: start-up and what lives in memory

Composes Startup and BuildLog: builds and tabs exist only while the hub serves,
and a death loses them. It is what makes `TabEnds` and `HubServes` about the
same process: the stream of a build ends although the hub dies in between.

### WebFlash and Provisioning: keys on chips, keys in rows

WebFlash is the in-memory sessions of browser flashing: `Prepare`, the three
fetches of the page, their refusal, ageing and collection, loss by a restart.

Provisioning composes it with DeviceTable and the rest of what touches a chip.
`runFlash` is `StartFlash`, then per name `ReadChip`, `WriteImage`, `WriteNVS`
(each one run of `esptool`, with its failures) and `Register`, up to the first
error; in between the user may `PlugIn` another chip, a browser may flash one
(`BrowserFlash`) and rows may be deleted (`RemoveDevice`). `GET /ota/check` is
`Authenticate` and `HandleCheck`, between which the row may be replaced. A death
of the hub (`HubRestart`) takes the requests and the sessions.

Properties: `RowMatchesChip` (a row is never ahead of its chip), `OkMeansEnrolled`
(what is reported as flashed has its row), `ReportedVersionIsOwn`,
`KeysAreApart` (no two rows and no two chips share a key, whatever is plugged,
torn, deleted and registered again; only a browser session's key may be on
several chips), `InstalledAsPrepared`. Exceptions, each a hazard: `writer`
is `Nothing` when another chip was plugged in during an attempt (the key may then
be on one chip and the row about another); `moot` marks a report whose row was
replaced before it was written. A chip that is flashed again gets a new key while
its old row stays: the call reports the failure (`OkMeansEnrolled`), but the
device no longer authenticates.

### Boot, Light, Device: the firmware

Boot is `app_main`: NVS, light, console, then WiFi with `WIFI_MAX_RETRIES` and 60
seconds, then Matter. The driver and the access point are external and post
events that one task handles in order (`HandleStart`, `HandleDisconnected`,
`HandleIP`); after Matter has started its own connection manager calls
`esp_wifi_connect` too. `TestDisconnect` and `TestConnect` are the two halves of
the console's `wifi_test`.

Light is the H-bridge: a call of `drv8833_set` is `Enter` and two `SetCh`, one
per channel, and two tasks make calls without a lock, Matter's callback
(`AttributeUpdate`) and the console (`LedCommand`, `LedRaw`, the effects' `Frame`,
`EndFade`, `EndEffect`), each from a state of its own. The gamma curve is a
constant function `Gamma` of 0..254; durations of effects are left out.

Device composes them: the light exists from the start, Matter's task only in
`boot = "matter"`, a reset loses everything but NVS.

Properties: `ShowsLastCaller` (once its last call is over the light shows the
state of the task that made it), `BrakeNeedsRace` (the two pulses, taken on the
circle of the timer's 2048 counts, do not overlap after a call that ran alone,
whatever was on the channels before), `SilentMeansGaveUp` (no event that is lost or
comes late ends the chain of connection attempts before its retries are used up),
`OnlineWithoutMatter`. Exceptions: `raced`, the last call overlapped one of the
other task, which may leave one channel of each, and pulses that overlap;
`led_raw`, which is no state; `wifi_test`, which resets nothing of
what was decided. `ShowsLastCaller` takes the driver's arithmetic as it is, both
sides lit in proportion; the documents say otherwise (see below).

## Runs

| Run | Instance | Distinct states | Shows |
|---|---|---|---|
| `queue` | jobs j1, j2 of device d1 | 115,000 | invariants, refinement and liveness of the queue |
| `acked_cancel` | job j1 | violation | a Cancel answered 204 need not stop the job |
| `stream` | 2 tabs, channels of 2, 1 log line, the job ends done or cancelled | 124,000 | what a stream promises |
| `stream_safe` | 1 tab, channel of 3, 1 line | violation | the position broadcast of Enqueue can panic |
| `sidecar` | 3 calls for one directory, 1 event (DELETE, hub or service restart) | 387,000 | who attends to a compile, what stops it, what 409 and the firmware file mean |
| `one_compile` | 3 calls, no event | violation | two compiles at a time |
| `kill_on_timeout` | 1 call, no event | violation | a silent compile survives its time-out |
| `registry` | upload and drop of v1, drop of v2, 2 requests, 1 restart, 1 download | 1.7 million | table, disk and downloads agree |
| `hub` | 2 chips, 2 modules, 2 builds, 1 tab, 1 death | 815,000 | starts over what a death left, the catalogue, the build log |
| `provisioning` | 2 chips (c1 registered), 1 request of two names, 1 browser session, 2 versions | 1.2 million | chips, rows, keys, reports and sessions agree |
| `flash_boots` | the same, with version files that hold the program alone | violation | a chip the hub reports as flashed need not boot |
| `device` | levels 0 and 64, 370 mireds, 1 retry, 2 waiting events | 2.6 million | light and boot of a device |

Why these bounds are enough to meet the interesting cases:

* `queue`. The worker holds one job and the queue the other, so every step of
  runJob is interleaved with an Enqueue, a Cancel of either kind and a sweep of
  a settled job; the two jobs share a device, so a re-submit after a purge or a
  deletion of the device is there. Restarts are not bounded.
* `stream`. The code's channels hold 128 events, the model's 2: the overflow of
  a channel, a replay that does not fit and a final event that does not fit all
  happen with one log line. Two tabs make the loop over the copied list two
  steps long, so that one channel closes between the sends of a broadcast.
* `sidecar`. Three calls are the fewest with which two compiles overlap
  (`OverlapTakesThirdCall` says so); one event is enough to separate the hub's
  view of a call from the service's.
* `registry`. One upload and one drop meet on one name, the other drop moves the
  mark; two requests delete and then delete or mark again.
* `hub`. One death in any phase leaves every partial state there is, and the
  number of starts is not bounded; the second build starts while a tab still
  follows the first, and a death between two modules leaves one refreshed and one
  not. Both starting points, an empty directory and one of an older
  release, are initial states.
* `provisioning`. The two names of the request flash the same chip twice or two
  chips in turn, with a row there before or not; the session's version need not
  be the request's. Deletions, plugging, reports and restarts are not bounded.
* `device`. With a level between 0 and 254 both channels are lit at that colour
  temperature and both dark otherwise, so a light that mixes two calls shows; one
  retry makes a disconnection that is retried and one that is not; with two
  waiting events an address and the disconnection after it, or that of
  `wifi_test`, wait at the same time.

`MaxLines`, `Outcomes`, `NCalls`, `MaxEvents`, `MaxRequests`, `MaxRestarts`,
`MaxCrashes`, `MaxBuilds` and `MaxOutput`
only bound the instance; they appear in guards and nowhere else. Deadlock is not
checked: a system whose users do nothing more stops.

## Fairness

Only what the Go and Python schedulers and the code's own time-outs give is
assumed. CompileQueue: the worker runs, an Enqueue or Cancel call that has begun
goes on; the compile returns because its context ends after 15 minutes. Users,
deadlines, sweeps and restarts are never required. JobStream: goroutines run, and
a tab that stays connected keeps reading, so that writes to its response
complete (one that stops reading would hold its handler in a write, which says
nothing about the queue). HubSidecar: the worker and the threads run, the context ends a
call left waiting, a process that was sent SIGTERM exits; nothing is assumed
of a process left to itself. `AbandonedIsStopped` is about a compile that goes on
printing to a dropped connection, and says so by the fairness of `BrokenPipe` in
its own antecedent; without it the compile is the silent one of
`kill_on_timeout`. FirmwareRegistry: the watcher's goroutine polls
for ever and ends a registration it began; it is bound to take a drop only when
its writer has finished, since `sizeStable` may refuse any other for ever, and no
request, upload or drop is required to go on. Hub: Docker restarts
the process that ended (`restart: unless-stopped`) and `main` goes on by itself;
while it serves, the build's goroutine goes on, `docker` exits, and a tab that
stays open polls; deaths are bounded by `MaxCrashes` and never required.

## Where the code and its documents disagree

Five of them are runs TLC must find violated; the quotations are in `PROJECT.json`.

* `acked_cancel`: the design doc promises that DELETE cancels a running job.
  `Cancel` only cancels the context, and `runJob` looks at it only when the
  compile has failed: a cancel acknowledged later leaves a job that ends `done`.
* `stream_safe`: the design doc calls concurrent subscribers safe. The list of
  channels is copied under the lock, the sends follow without it; `Enqueue`'s
  position broadcast may be overtaken by the whole job, whose end closes the
  channels, and then sends on a closed one. (`FinisherNeverPanics` shows that
  the worker itself, which has no recoverer, never does.)
* `one_compile`: "one compile at a time". A service thread whose process is over
  sets `_proc` to None although a later call has stored its own there.
* `kill_on_timeout`: "subprocess is killed" on time-out. The service learns of
  the dropped connection from a failed write, and a silent compile causes none.
* `flash_boots`: `firmware/BUILD.md` has the hub write "bootloader + partition
  table + app" at 0. The file it tells the user to upload, and the one the Docker
  build drops into the registry, is the application alone, which the browser
  writes at 0x20000 beside a bootloader of its own; written at 0 it does not boot.

Three more have no run of their own; the passing properties state what the code
does, and say so:

* `internal/seed/seed.go:1` has built-ins inserted "on first boot. All operations
  are idempotent (INSERT OR IGNORE)". Modules are upserted, at every start
  (`internal/db/module.go:35`): a start of a newer release rewrites built-in rows
  that exist. The comment of `UpsertBuiltinModule` intends the refresh, and
  `CatalogueAfterStart` states that intent; the package comment is out of date.
* `firmware/main/drv8833.h:28` has one side driven below 326 mireds and the other
  from there on, and `firmware/BUILD.md:76` "AIN1 PWM, AIN2=0" for warm light.
  `drv8833_set` (`drv8833.cpp:102`) has no threshold; it gives each side a share of the
  period in proportion to (ct - 153) / 347, and 370 mireds, the value both tasks
  start with, light both. `ShowsLastCaller` passes on that arithmetic.
* `drv8833.cpp:106`: "guaranteed no overlap, no brake state"; `drv8833.h:13`:
  "mutually exclusive". Each call keeps that promise (`BrakeNeedsRace`), but
  Matter's task and the console's make calls without a lock, one channel after the
  other, and the warm pulse of one may stay with the cool pulse of the other,
  which begins before the first ends. `BrakeNeedsRace` excepts it (`raced`).

## Proofs

`CompileQueueProofs` proves, for every set of jobs and devices and every
`DeviceOf`, from the assumptions `JobsAssumption` (the null job is no job) and
`DevicesAssumption`:

* `Invariance`: `IInv` is inductive. The stated invariants are not inductive by
  themselves: that a popped job is still pending, that the job being executed is
  the running one, that a saved file belongs to a row that can only be settled
  or purged, and that the sweep's files belong to purged rows are the
  conjuncts `WorkerControl`, `EnqueueControl` and `FileControl`.
* `TypeCorrect`, `NoWakeupIsLost`, `NoOrphanRow`, `BinariesAreKept`: the parts.
* `Refinement`: every step of the queue is a step of JobLifecycle or leaves the
  rows alone (`StepSimulation`, one case per action).

The proof goes action by action (`EnqueueKeepsIInv`, `CancelKeepsIInv`,
`WorkerKeepsIInv`, `SurroundingsKeepIInv`); the actions that move entries of
`q.pending` rest on `RemoveAtFacts` and have lemmas of their own.

`FirmwareRegistryProofs` proves, for every set of versions, uploads, drops and
downloads, from `RegistryAssumption`:

* `TypeCorrect`, which includes that at most one existing row is the latest;
* `RowsHaveFiles`: `ListedHasFile`. It is not inductive, because a row appears
  one or two steps after its file: `RegistrationsHaveFiles` carries the fact
  along an upload and a registration, and `DeletionsAreKnown` says that only a
  deletion takes a file away. `Opened` and `Targets` give the inode variables
  their sharper types. One lemma per actor (`UploadKeepsIInv`,
  `WatcherKeepsIInv`, `RequestKeepsIInv`, `DownloadKeepsIInv`).
* `DownloadsAreWhole`: `ServedWhole`. `WholeInv`, inductive together with `IInv`,
  says of the inodes what `ServedWhole` says of the answers: `Whole(i)`, the
  inode holds its creator's image or one of the excuses applies. A drop is whole
  when its writer has finished (`DropsAreWhole`); an upload's inode is its own
  alone, or its version was rewritten (`UploadsAreApart`); so a file is whole as
  soon as its version is registered or about to be (`FilesAreWhole`), and a
  download that reads it twice reads the same image (`ReadsAreWhole`).

`JobStreamProofs` proves, for every set of tabs, every capacity of a channel and
every length of the log, from `StreamAssumption`, all five invariants of the run:

* `FinisherIsSafe` and `NoStreamIsOrphaned` need to know where a channel can be:
  on no list before Subscribe registers it, and off the lists before anybody
  closes it (`Lists`); an open one that is read from is still on a list to be
  closed (`Owned`). `Control` ties the lists to the step of the goroutine that
  ends the job.
* `DoneTellsTheRow` and `SilenceIsOverflow`: `Announced` lists what a writer may
  still send, and `Ending` says of every channel that lost nothing that it has the
  final event already, or gets it before it is closed.

`ListFacts` and `RemoveAtFacts` are what Append, Tail and RemoveAt do to the
members of a list without repetitions.

`HubSidecarProofs` proves, for every number of calls and interventions and every
assignment of directories, from `SidecarAssumption`:

* `NoneIsLeftAlone`, `BusyBlamesAbandoned`, `OverlapNeedsThree`, `FirmwareIsOwn`. The
  properties speak of the end of a call, so the strengthening follows it from its
  thread over its process to `_proc` and the directory: `Progress` (a thread that
  still works for the hub works for the current call), `OwnProcess` (its process
  does not outlive it unless the hub has abandoned the call), `SlotHolds` (a live
  process is in `_proc` unless a thread has wiped it, for which it must have seen
  another process end), `BusyReplies` (409 names its abandoned call) and
  `OwnBuild` (whose configuration and firmware lie in the current directory, and
  whom a foreign build there must have met).

`ProvisioningProofs` proves, for every set of chips, requests, names and browser
sessions, from `DevicesAssumption`, `WebAssumption`, `ProvAssumption` and
`FreshKeys`, all six invariants of the run. `FreshKeys` is the one assumption about
cryptography: keys are 32 bytes from `crypto/rand`, so no two attempts or sessions
draw the same. `ProvAssumption` has every request name a device, because
`runFlash` answers an empty list with 400.

* `RowMatchesItsChip` follows the life of a key: it is on no chip before its
  attempt writes and in no row before the attempt is over (`Fresh`); in between
  only the chip on the port can have it, and has it in its NVS partition before
  the INSERT (`OnPort`); a browser writes keys no row has (`NoTokenRow`).
* `OkIsEnrolled` needs `Fresh` as well: an attempt's row is not there before.
* `VersionIsOwn`: a report under way was signed with the key of the row, or the
  row has gone since (`SignedByRow`).
* `KeysStayApart`: no chip holds a key before it is written (`Virgin`), which
  happens once per attempt, so the key that comes onto a chip is on no other; the
  rows' half follows from `Fresh`.
* `InstalledIsPrepared`: `Session` relates what a page has to its session,
  `Installed` says that only a page with all parts wrote.

`HubProofs` proves, about `HubSpec` (which `FairHubSpec` implies), for every fleet and catalogue and every number
of deaths, builds, tabs and output lines, from `DevicesAssumption`,
`StartAssumption` and `BuildAssumption`:

* `FleetIsKept`. The fleet is in `devices` except between the DROP and the RENAME;
  a process that migrates has not died there before, because whoever did left no
  table `devices`, and the one the next start creates counts as migrated
  (`Migration`). Without that conjunct the copy could overwrite the stranded rows.
* `CatalogueIsFresh`: no row of an earlier release from the seeding on
  (`Refreshed`).
* `TerminalIsComplete` and `OneBuildAtATime`: a build that is neither to come nor
  over is the one in `activeBuild`, and exactly the builds that are over are done
  (`Jobs`), so nothing is appended to a log after its terminal event.

`BootProofs` and `DeviceProofs` prove, for every set of configurations, number of
retries, bound on waiting events, gamma curve, levels, colour temperatures and
raw duties, from `BootAssumption` and `LightAssumption`:

* `TypeCorrect`, and `Invariance` of `BootInv /\ LightInv`.
* `SilenceIsGivingUp` and `VerdictIsFinal`. Neither property is inductive: an idle
  station may have an event waiting. `Chain` says that such an event, behind all
  others, connects it again; `Counted` ties the handler's counter to the
  disconnections since the last address; `Orderly` lists the queues there can be
  without `wifi_test` and Matter; `Verdict` what a verdict was based on.
* `LightShowsLastCaller`. The property is about the time after a call, so `Tracks`
  says it of the channels already set and of the target of those to come, with
  `Wanted` for the frame of a running fade; `Lone` says that without an overlap
  nobody else is in a call. One lemma per action.
* `LoneCallNeverBrakes`: `OneSetting` says of the channels what `Tracks` does, for
  some setting, also in the middle of an effect, and `Unrouted` that a channel
  without a pin is dark. `SplitIsApart` is the arithmetic on the timer's circle: the
  cool pulse begins where the warm one ends (`WarmIsAShare`), and does not run into
  the next period because no curve asks for more than `MaxDuty` (`DutyInRange`).

Every invariant a passing run checks is proved. Only model-checked are the liveness
properties (`EveryJobSettles`, `StreamEnds`, `AbandonedIsStopped`, `DropIsRegistered`,
`HubServes`, `TabEnds`), which need fairness and ENABLED, out of
TLAPS's reach. A strengthened invariant was first checked by TLC on the run's
instance and then proved.

## Not modelled, and what is left

* `yamldef` validation, `assembler.go` (defaults, slugs, text of the ESPHome
  configuration), the Matter setup payload and the limits of the NVS image writer
  are functions without state; what they compute is compared with examples by the
  repository's own tests and is not modelled.
* Of the catalogue only the modules are modelled; effects and templates are seeded
  by `INSERT OR IGNORE`, which has no upgrade to go wrong, and created and deleted
  through the API by single statements.
* `ota_log` and the heartbeat of `api/devices.go` only append or stamp a time. The
  OTA signature is reduced to which key made it; its window of five minutes is an assumption.
* The console's `gpio_read` and `gpio_set` may take a pin away from the light;
  `wifi_scan` and the credentials given to `wifi_test` are left out.
* USB enumeration and `esptool`, routing and static files, the browser code and
  the Matter stack are external or pure I/O.
