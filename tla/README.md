# A verification development for pulsecounter128

This directory holds TLA+ models of the pulse counter firmware (an ESP32 that
scans up to 128 meters through I2C port expanders and publishes the counts by
MQTT), the TLC configurations that check them and theorems about them that
TLAPS proves. Paths are relative to `src/`, the repository's root.

- [1. The system](#1-the-system)
- [2. The models](#2-the-models)
- [3. What the runs check](#3-what-the-runs-check)
- [4. What is proved](#4-what-is-proved)
- [5. Where code and documentation disagree](#5-where-code-and-documentation-disagree)
- [6. What is not modelled](#6-what-is-not-modelled)
- [7. Plan](#7-plan)

## 1. The system

Five tasks share the device: the *main loop* (`app_main`), the *reader* (a thread
of `Pulsecounter`), the *scheduler* (a thread of `Scheduler`), the task of the
*web server* (esp_http_server) and the task of an *MQTT client* while one exists.
They communicate through shared variables, most of them without a lock.

| Component | State it keeps | Operations | Talks to |
|---|---|---|---|
| Pulse counter, `lib/pulsecounter` | output table (type, `maxCount`, `currentCount`, masks), `pulseCounters[]`, `resetRequest`, `atLeastOneOutput` | `setConfig`, `readInput` (reader thread), `countPulses`, `getCounts`, `reset`, `getStatusJson` | I2C expanders; called by scheduler and web server |
| Scheduler, `lib/scheduler/scheduler.cpp` | `stopRequest`, `cv`/`cv_m`, the thread `t`, `maxWaitTime`, `lastRun`; references to the schedule in main.cpp's `cfg` | `setConfig`, `run`, `executeLocal` (thread), `stopThread`, `joinThread`, `getMilliSecondsToNextRun` | its `execute` is the scheduled run |
| Scheduled run, `lib/scheduler/pcscheduler.cpp` | `countersStorage`, `counterStorageCount`, `mqttErrors`, times for the status | `execute` = `storePulseCounts`, `generatePayload`, `publish`; `reset`, `updateMqttErrors` | pulse counter; makes an MQTT client for 400 ms |
| MQTT client, `lib/hardware/src/mqtt.cpp` | connection handle, the one live instance | `start`, `publish`, `eventHandler` (library task) | calls back `onConnected`, `onPublished`, `onError` |
| Main loop and boot, `src/main.cpp` | the global `cfg`, the two servers | `app_main`, `reconfigureHttp`, `reconfigurePcScheduler`, reset button | everything |
| Web server, `src/webserver.cpp`, `src/websrvplscount.cpp` | its handle, `reconfigureRequest`; the body being received; the validation client | `postConfigHandler`, `getHandler` (status, `api/restartSchedule`), start and stop | flash, scheduler, main loop |
| Configuration, `lib/config` | the parsed configuration `theConfiguration`, the JSON in the flash | `setJson`, `getJson`, `getConfig`, `checkConfiguration` | read by all |
| Over-the-air update, `src/otaHandler.cpp`, `lib/common/html/ota.js` | `otaStarted`, `otaSize`, `otaReceived`, `otaBuffer`, `otaHandle`, the partition | one chunk per request | flash partitions, restart |
| I2C expanders, `lib/hardware/src/hardware.cpp` | registers of the expanders | read and write 8 ports | reader |
| Network, `lib/hardware/src/network.cpp`; NTP | the event bits, the DNS query, the clock | `init`, `waitForConnection`, event handlers | boot |
| Web page, `lib/common/html` | the form's fields, which output is open, `lastCountIsRunning`, the file to import | form to JSON and back, schedule text to lists and back, import and download, the status every five seconds, upload of files | web server |
| Logging, tests, JSON library | | | |

How they interact. At the boot `app_main` starts the reader, waits for the network and,
if a name could be resolved, starts the scheduler and the web server. Every 20 ms the
reader switches on one output after the other that is due, reads the input lines,
restores the outputs, reads the lines again for the direct meters and counts every line
that rose. At the scheduled seconds the scheduler thread reads all counters one by one,
sets `resetRequest` (the reader zeroes the counters when it comes to it), makes a
payload and lets a client publish it for 400 ms. A configuration that the page posts is
stored by a task of the MQTT library once its broker has answered; the main loop then
restarts the web server and the scheduler with it. The web server's task restarts the
scheduler as well, on `api/restartSchedule`, and receives the chunks of an update.

What is hard, and what has to hold:

| Component | Hard behaviour | Properties |
|---|---|---|
| Pulse counter | meters move between any two samples of an iteration; one input line belongs to eight outputs; stale masks of outputs that are not due; truncating periods; the reset against the batch; transfers that fail | an edge belongs to its own meter; every edge seen is counted; how often at most; nothing is reported twice; slow meters lose nothing; every output with a period is sampled for ever; what a failed transfer can add |
| Schedule arithmetic | carries between seconds, minutes, hours and days; milliseconds that have passed; a wait of 0 and the longest wait; a clock that is set | the next run is the first scheduled second; when no time is found; how long a clock change disturbs |
| Scheduler thread | a stop request at any point of the loop; a notification while nobody waits; two tasks that restart; a configuration saved meanwhile | nothing is executed once it is stopped; one thread; the join returns; the last configuration wins |
| Scheduled run | callbacks in the task of the MQTT library that clear the table; an unreachable broker; reused entries; full tables | the payload is what was read; no pulse is delivered twice; callbacks clear nothing; no write beyond a table; errors are counted |
| Web server, configuration | late and repeated answers of brokers; a global configuration that two tasks write; a flag that the restart clears | the flash never goes back to an earlier post; only what was stored reaches the scheduler; a stored configuration reaches it |
| Update | uploads of two pages; chunks that are cut short, empty or never come; globals that outlive a request | the buffer is there; the device never boots from something else than one whole file; an undisturbed upload is installed |
| Web page | what saving adds by itself; texts that must survive being read back; errors that make a status unreadable; a request nobody answers; clicks in any order | a field that is not touched does not change; the device is what the page shows; what the page shows of a running device, and when it shows nothing; no meter is hidden |
| Boot | link, lease and DNS answer in any order or never; two timeouts; a bus or a flash that cannot be opened; the button | what was started follows from the answer; every boot ends; the button works; a saved configuration starts the scheduler |

`PROJECT.json` lists the components and, line by line, the hazards.

## 2. The models

| Module | Models | Composition |
|---|---|---|
| `Pulsecounter` | the reader thread, the wiring, the batch of the scheduler | implements `PulseCount` |
| `FaultyBus` | the same on an I2C bus that fails | extends `Pulsecounter` |
| `PulseCount` | the abstract promise of the pulse counter | |
| `ScheduleTime`, `ScheduleLoop` | when a run is due | the loop extends the arithmetic |
| `ScheduleText` | the page's texts of a schedule | joined with `ScheduleLoop` in `MCLoop` |
| `ConfigForm` | the page's form, and what the device loads from it | extends `ScheduleText`, joined with `ConfigUpdate` in `MCConfig` |
| `StatusPage` | the requests of the page and the status it shows | joined with `PCScheduler` in `MCPublish` |
| `SchedulerThread` | the thread's life and its restarts | |
| `PCScheduler` | a scheduled run, its MQTT client and the list of errors | |
| `ConfigUpdate` | a posted configuration on its way to the scheduler | implements `ConfigRegister` |
| `ConfigRegister` | the abstract promise of that way | |
| `OtaUpdate` | the over-the-air update, page and handler | |
| `Boot` | the start of the device, the main loop and the button | |
| `MC*` | constants for TLC | |
| `*Proofs` | theorems | extend the module they are about |

### `Pulsecounter` — the reader and the batch

One action per step of `Pulsecounter::readInput` (lib/pulsecounter/src/pulsecounter.cpp):

| Action | Code |
|---|---|
| `StartIteration` | the sleep is over: `resetCounters` if requested, read the output mask |
| `SampleOutput`, `SkipOutput` | the loop over the outputs: is it used and due? select it, read all lines, compare with its last masks |
| `SampleNoOutput` | restore the outputs, read the direct meters |
| `CountPulses` | `countPulses` when any sample of the iteration rose |
| `CountDown` | `currentCount` of every output; back to the sleep |
| `CloseContact`, `OpenContact`, `Elapse` | the meters and the time the reader sleeps |
| `StartStore`, `StoreCount`, `RequestReset` | `storePulseCounts`, one counter at a time, then `Pulsecounter::reset` |

A port mask is the set of the ports whose bit is 1. `OnMask`, `PcMask`,
`RestMask` and `MaxCount` are what `setOutputConfiguration` computes: an EMeter is
selected by clearing its bit while the other EMeters' bits are set, a water meter
by setting its own. `MaxCount` is the integer expression of the code, truncation
included. `ReadInputPorts` is the wiring: a line is high unless a connected meter
with a closed contact pulls it down.

The wiring is an assumption (`WiringAssumption`): `Meters` are the meters really
there. The page also configures a counter with output 0xFF for every line that has
no direct meter; such a counter has none and counts what the line shows, so the
properties about pulses are about counters with a meter. Without the assumption
that a direct meter and a matrix meter do not share a line the direct meter's
contact would be counted for every output.

`pulses`, `edges`, `counted`, `reported` are history variables: nothing but
properties reads them. `edges` counts where a rising edge is *observed* (the
sample), `counted` where the code increments a counter.

A batch starts only when the reader has served the last reset request. The code
has nothing that ensures this; batches are at least a second apart (`ScheduleLoop`)
and the reader iterates every 20 ms.

`PulseCount` is what is left when bus, scan and masks are taken away: meters give pulses,
one iteration records at most one for a counter and not more than the repeats its
sampling period allows, a batch publishes what was recorded and not yet published.
`KeepsPromise` says that `Pulsecounter` implements it, with `pulses`, `counted` and
`reported` in the place of its variables.

### `FaultyBus` — transfers that fail

`pcf8574_read` returns its uninitialised local when the transfer fails, and
nobody looks at the result of a write. `StartIterationReading` and `SampleReading` of
`Pulsecounter` take what was read as a parameter, so a failure is the same step with any
mask: `FaultyInit`, `FaultyStartIteration` (the output mask that is restored later),
`FaultySampleOutput` and `FaultySampleNoOutput` (the register, the lines or both). A
step that was hit counts as one fault, whichever of its transfers failed.

### `ScheduleTime`, `ScheduleLoop` — when a run is due

`ScheduleTime` is `getMaxWaitTime`, `getNextTime` and `getMilliSecondsToNextRun`
step by step as functions, the struct tm as a record that `Mktime` normalises, and
the reference: the seconds a schedule names. `consumedTime` is the difference of
two `tv_usec`, negative over a second's end, as in the code. The sizes of the clock
are constants, so a small clock can be checked with all its schedules. `ScheduleLoop` is
`executeLocal` over days, with any of the schedules: plan, wait, execute, with the test
against `lastRun` and the second request when the answer is 0; calculation, wait and run
take some time. `SetClock` is NTP changing the clock during a wait: nobody calls
`waitForSntp`, so at every boot the thread may plan with a clock that was never set.
`WakeSpuriously` is `wait_for` without a predicate returning early. `upset` remembers that
one of these happened, or that a calculation lasted into the next second: then
`consumedTime` is off by a second and the wait a second too long.

The lists of a schedule are ascending and not empty (`ScheduleAssumption`): the calculation
takes the last entry for the latest. The page writes them in the order in which they were
typed, and nothing checks that. `Regular` says for which schedules the properties are meant:
every hour, and either every minute or one second only. For others the code's carries do not
look for the next configured entry (section 5). `Apart`, for `EveryRunIsDue`, excludes
neighbouring seconds.

### `ScheduleText` — the schedule in the page

`buildScheduleString` and `buildTimeArray` of pulse.js, on texts that are split at
their commas and dashes: `Resaved` is what becomes of a list when the page is opened and
saved. A dash is written before the end of its run is known, and a text remembers it
by writing the next number into the same part.

### `ConfigForm` — what is in a configuration

The fields of the page: the texts (`input`), those of the schedule (`list`), the selections
`method` and `type`, and per counter `name` and `divider`, a number or `Blank`, which
`Number()` reads as 0 (`NumberOf`). The NTP server is a field of the page (`PageTexts`) that
is not saved (`SavedTexts`). `BuildJsonFromHtml` is what is posted: `Counters` goes through the
inputs in the order of the document, which is first a counter for every direct line,
`unconfigured` when it has no name, then the named places of the matrix (`Pushed`); and the
output with port 0xFF that stands for no output. `BuildConfigHtml` is the page that is opened with a JSON, `ConfigLoad`
the device's parse of it, part by part, where a number that its type cannot hold becomes 0.
`CheckConfiguration` is the test the posts of `ConfigUpdate` have to pass, `Credentials` what
the MQTT client is then given to log in with, and `WithSlot` says which counters find a place
in `pulseCounters[]` after a restart.

`Opened` is the page that is opened, with the file in localStorage if there is one (it is
removed before it is read) and with the device's configuration otherwise; `SendConfig`,
`DownloadConfiguration` and `ImportConfig` are its ways out and in. A panel is what is
visible of an output: its type, whether its meters are shown, and the button to show them
(`Toggle`, `CategoryHeaderUpdateActive`).

### `StatusPage` — what the page is shown

`UriHandlers` and `GetHandler` say what a request is answered, `GetStatusJson` what the
status holds, and `UpdateLastCount` what the page makes of an answer: an unreadable one
changes nothing, one that never comes leaves `lastCountIsRunning` set. The status is a
sequence of items, or nothing when it cannot be parsed, which is so whenever it contains the
text of an error (section 5). In `MCPublish` the errors, the last publication and the
counters are those of `PCScheduler`, and the page may be waiting for an answer and show anything
of before.

### `SchedulerThread` — the thread's life

`executeLocal` with the mutex and the condition variable (`CheckStop`, `PlanRun`,
`RefuseRun`, `WaitFor`, `WakeUp`, `Relock`, `StartExecute`, `EndIteration`),
`stopThread` (`StopThread`), `joinThread` (`JoinNothing`, `JoinThread`, `Joined`),
`run` (`Run`), and both callers of `reconfigurePcScheduler`: the main loop after
`reconfigureHttp`, and the web server's task. `wait_for` is a wait set: the thread
leaves the mutex, is taken out of the set by the notification, the timeout or for
no reason, and takes the mutex again. Which configuration the threads use is part
of the state since the scheduler's members are references into main.cpp's `cfg`.

Nothing keeps `api/restartSchedule` out while the main loop, having restarted the web
server, is still restarting the scheduler, and nothing does in the model. The history
variable `overlapped` remembers that one task made its request to stop between the
other's and the `run` after it. From then on two threads may live, a request to stop may
be lost, and two tasks may join one thread or one may delete the object of another
thread: `Fatal` names the two cases in which the program ends, and `Panic` is the start
after it. The configuration is read from the flash twice, in `ReconfigureHttp` and in
`LoadConfig`, and each time may come out empty (`Loaded`).

### `ConfigUpdate` — a posted configuration

The way of a configuration from the post to the scheduler, in three tasks:

| Task | Actions | Code |
|---|---|---|
| web server | `BeginPost`, `ReceiveFails`, `ReceiveClosed`, `ParsePost`, `StartClient`, `EndPost` | `postConfigHandler`, `startValidationMqttClient` |
| MQTT library | `OnConnected` | `ValidationMqttClient::onConnected`, `Config::setJson` |
| main loop | `PressButton`, `TakeRequest`, `ReconfigureHttp`, `StopServer`, `StartServer`, `ReconfigurePcScheduler` | main.cpp's loop, `reconfigureHttp`, `configureLogging`, `reconfigurePcScheduler`, `WebserverPulsecounter::setConfig` |

A configuration is the number of the post that brought it. `getConfig` returns a reference
to the global `theConfiguration`, so reading it from the flash is two steps of the main
loop, `Load` and `Copy`, and `ParsePost` of the web server writes the same variable, at any
time. `strays` remembers the posts that came between the load for the scheduler and its copy.
A flash that cannot be read gives the empty configuration (`Empty`), which nobody tells from a
stored one. A validation client gets references into the same global: `asked` says whose broker
it connects to, which is that of the flash's configuration when the main loop loads between
`ParsePost` and `StartClient`. It lives until the next post and calls `onConnected`
whenever it gets a connection, also after the handler has stopped waiting. `setJson` may
fail without anybody being told. A peer that closes the connection in the middle of its post
makes `httpd_req_recv` return 0 again and again: the handler stays in its loop
(`ReceiveClosed`), and a main loop that restarts the server waits for it for ever.

`ConfigRegister` is the promise: a register only a newer configuration replaces, and a
scheduler that moves forward along what the register held; one of the strays may take it off
that way, until the next configuration is applied. `KeepsRegister` says that the three tasks
together implement it.

### `PCScheduler` — a scheduled run

`execute` in its steps (`StoreCount` for one counter, `ResetCounters`,
`GeneratePayload`, `Publish`, `EndPublish`) and the client's task (`OnConnected`,
`OnPublished`, `OnError`, the broker's `Receive`). An entry of `countersStorage`
has a date, an output port and one value per input; the model keeps what is left in
an entry that is used again, and the last entry that is never used. Three things
are simplified: a run's number stands for its date (two runs never share a second,
`ScheduleLoop`), the reset takes effect at once (what comes between is in
`Pulsecounter`), and the sorting before the payload has no effect because a payload
has one date.

`UpdateMqttErrors` is the list of error texts with their numbers. When it is full its
entries are moved with a `memcpy` whose source and destination overlap: `MovedUp` has the
outcomes, and the new text then takes the last entry. `errors` and `mqttStatus` are what
`setErrors` and `setMqttStatus` keep for the status page.

### `OtaUpdate` — page and handler of the update

| Part | Actions | Code |
|---|---|---|
| page | `StartUpload`, `SendFileSlice`, `Reload` | ota.js: chunks of a hundredth of the file, rounded up |
| handler | `ServeEmpty`, `ServeFirst`, `ServeNext`, `BeginFails`, `Receive`, `WriteFails`, `ReceiveTimeout`, `ReceiveClosed`, `ReceiveError`, `Answer`, `EndFails`, `BootNotSet`, `EndAndRestart` | `postUpdateHandler` |
| device | `PowerFailure` | |

A byte is a pair of its page and its position, so that the partition shows what was
written in which order. `IsImage` is what `esp_ota_end` verifies: the length in the
header and the hash. The handler's globals live from request to request; `pc` is the one
request the web server's task is serving.

### `Boot` — what runs on the device

`app_main` step by step (`StartReader`, `InstallDriver`, `InitEthernet`, `AskName`, `WaitForName`, `ConfigureLogging`,
`StartScheduler`, `RestartServer`, then `LookAtButton`, `LookAtRequest`,
`ReconfigureHttp`, `ReconfigurePcScheduler` in its loop), the events of the network
(`LinkUp`, `LinkDown`, `GotIp`, `DnsFound`, `TimeSync`), the button, saved configurations and
restarts of the device. The I2C bus is opened first, and a bus that cannot be opened ends in
`panic`. `ntp` is the NTP service: set up before the network's driver, started with it,
restarted when the name is resolved. `Ethernet::init` may fail at any of its steps, the waits may end with
their timeouts at any time, and a configuration read from a flash that does not answer is
the empty one (`Unread`).

### How they compose

The modules meet at narrow places, and what one assumes another shows:

- `Pulsecounter` contains the part of `storePulseCounts` that touches the counters;
  `PCScheduler` contains all of it with a counter that is incremented at any time.
- `SchedulerThread` leaves open when a run is due and `ScheduleLoop` says it;
  `ScheduleLoop` leaves out the stop requests that `SchedulerThread` has.
- `SaveConfig` of `SchedulerThread` and `Boot` is a configuration that was validated in
  time; `ConfigUpdate` shows how it gets there. `ConfigUpdate` in turn takes `setConfig` of
  the scheduler as one step.
- `ConfigUpdate` takes a configuration for a number; in `MCConfig` each number is a page of
  `ConfigForm`, the one the post before left with some fields changed, and `ValidConfigs` is
  what `CheckConfiguration` accepts of them.
- `Boot` starts from `Restart`, the other modules from a device that is up; in `Boot` the
  scheduler is only there or not.
- One run a second at most (`EveryRunIsDue`) is what `PCScheduler` (one date per
  run) and `Pulsecounter` (the reset is served) build on.

The `MC*` modules only give values to the constants, but for `MCLoop`, which joins the loop
with the page's texts, `MCConfig`, which joins the posts with their contents, and `MCPublish`,
which joins the scheduled run with the page that shows it.
`SchedulerThread` and `Boot` need none.

## 3. What the runs check

| Run | Instance | Checks |
|---|---|---|
| `bus` | a water meter and an EMeter on one line, both sampled every other iteration, and a direct meter; contacts free to move at any step; one transfer fails | `TypeOK`, `FalseEdgesBounded`, `EveryEdgeCounted`, `RecountBound` |
| `batch` | an EMeter configured twice, a water meter of a longer period on its line, a counter too many for the table; batches at any time | `NoPhantomPulse`, `ReportedOnce`, `KeepsPromise` |
| `slow` | meters that hold each position one tick longer than the sampling period; fairness | `NoMissedPulse`, `EveryOutputSampled`, `PulseEventuallyCounted` |
| `loop` | a clock of 2 hours of 3 minutes of 5 seconds, a day and the runs planned in it, every regular hourly schedule, started in any second, at its first or its last millisecond, one clock change or early wake-up | `EveryRunIsDue`, `NextRunExact`, `RefusedOnlyAtLongestGap`, `ResaveKeeps` |
| `thread` | 3 configurations, one of them incomplete, the device booting with or without a complete one, a flash that may not be readable, 2 saves, 1 restart by the page at any time | `NoRunOnceStopped`, `OneThread`, `EndsOnlyByItself`, `JoinReturns`, `SavedIsApplied` |
| `config` | 3 posts, of which the second is incomplete, parsed at any time, from peers that may go away; clients that answer in time, late, again or never; a flash that cannot be written or read; the reset button; pages of 2 outputs and 2 lines, a table of 4 | `OnlyStored`, `NeverBackwards`, `RequestedIsApplied`, `KeepsRegister`, `ShownAgain`, `DeviceAsShown`, `SlotsServe`, `OutputsReachable` |
| `publish` | 4 outputs of which 2 fit, 3 error texts of which 2 fit, 2 runs; a page that waits for an answer or not and shows anything of before, pulses 0 to 7200 seconds old | `PayloadIsBatch`, `DeliveredOnce`, `TablesInBounds`, `StatusShown`, `ErrorsAccounted`, `ResetDiscardsNothing` |
| `ota` | 2 pages with files of 6 and 4 bytes in 3 chunks, a buffer of 2; 3 uploads, 2 faults | `BufferHeld`, `BootsOnlyWhole`, `FirstUploadInstalls` |
| `boot` | 2 complete configurations, an incomplete and an empty one, 1 restart; link, lease, answer and button at any time | `BootFollowsAnswer`, `EveryBootEnds`, `ButtonBringsServer`, `SavedStartsScheduler` |
| `water`, `quarter`, `not_kept` | small instances of the same modules | one statement each that the code does not keep, section 5 |

Each property of a passing run has a mutant in `PROJECT.json`: a definition of the
model with a plausible mistake, under which TLC finds the property violated. The
mutants stand beside what they replace, marked `mutant` or `Bug`.

What some of them say in words:

- `FalseEdgesBounded`: a step whose transfers fail adds at most one edge to a counter, and
  no more later, although a wrong output mask may be restored for ever.
- `EveryRunIsDue`: without a disturbance the waits end exactly in the scheduled seconds; after
  one, the run of this wait may come at any time, the next may be taken for done, and then
  they are the scheduled ones again. The run itself may begin later, when the thread gets the
  processor late.
- `NoMissedPulse`: of a meter that holds its contact longer than the sampling period of its
  output (`SlowEnough`) at most the pulse that is being given is not yet seen. In `slow` all
  meters are of that kind.
- `DeliveredOnce`: what all payloads the broker received say of a channel, added up, is not
  more than its meter gave.
- `ResaveKeeps`: a list survives the page exactly when it is full or no run of consecutive
  numbers is followed by another number.
- `NoRunOnceStopped`, `OneThread`, `EndsOnlyByItself`, `JoinReturns`, `SavedIsApplied`: what a
  restart of the scheduler is for, as long as no two of them have overlapped; whether they do is
  up to the two tasks. `SavedIsApplied` also names a flash that could not be read.
- `OnlyStored`, `KeepsRegister`: what is applied was stored, and what was stored was validated by
  its own broker or by that of a stored configuration; but for the strays.
- `RequestedIsApplied`: a stored configuration whose client answered in time is applied, with
  four exceptions: a later one is stored, the button is pressed first, an empty or a stray
  configuration comes to the scheduler instead, a peer goes away in the middle of its post.
- `ShownAgain`: a page that was edited, saved and opened again (or imported from its
  download) shows the fields as they were left, and nothing that was not typed, like the
  `unconfigured` counters. Exceptions are the NTP server, a divider without a name and the
  schedules of `ResaveKeeps`; of a blank or zero divider nothing is said.
- `DeviceAsShown`: the device has exactly the meters, types, texts and schedule the page
  shows, and an unnamed counter for every other direct line, but for the NTP server. A divider
  is the page's when that is a positive int.
  The texts `checkConfiguration` asks for are those the MQTT client logs in with.
- `OutputsReachable`: after any three clicks and choices at most one output is open, only one
  with a type, and every output with a type has its button.
- `StatusShown`: while the device has no errors to tell of, a page that asks shows each meter's
  last pulse and the last publication as they are. There are errors from the first one to an
  acknowledged payload and none after the second; between the two acknowledgements the code tells
  of errors that are over, and the property leaves that open. An answer that is lost or refused
  changes nothing that is shown.
  An input port 0xFF is none: the status leaves its counter out.
- `SlotsServe`: after a restart every direct meter with a name has a slot, and every meter has
  one while no more are named in the matrix than the direct lines leave room for. Of a matrix
  with more nothing is said (section 5).
- `BootFollowsAnswer`: what is started depends on the DNS answer and the configuration
  alone, not on the link, the lease or a late answer.

Bounds, and why they are enough.

- *Pulses.* A meter gives one pulse, in `slow` two. An edge needs one; a confusion of two
  meters needs one of each; `RecountBound` relates the counts of one edge. The theorems of
  section 4 have no bound.
- *Ports.* Two outputs and two lines have every relation two counters can have: same
  line, same output, both, none. The scan treats outputs one after the other alike.
- *Faults.* One fault of the bus shows what it adds; the theorem `FalseEdges` is for any
  number. Two faults of an update let a second upload meet what a first one left.
- *Small clock.* Carries depend on whether a list has a later entry, and on which of
  the three fields is the last, not on there being 60 of anything. All non-empty
  ascending lists of 3 and 5 values occur; five values have a run before another number,
  before another run, and after one. `quarter` uses the real clock.
- *Threads.* Two saves let a configuration be saved while the one before is applied;
  three restarts let each thread be a predecessor and a successor, and one task restart while
  the other does for the first or the second time.
- *Posts.* Three let a complete configuration follow an incomplete one, a late answer
  of either of two earlier posts meet a later one, and a post be a stray while one is applied and
  another one stored.
- *Pages.* Two outputs and two lines give direct meters and a matrix, and with 4 slots for 6
  places the table can be too small, as with the 128 slots for 144 places of the device. From
  each posted page every page with one other field is tried, a divider above `INT_MAX`
  included; `INT_MAX` is 2000 so that the arithmetic stays small.
- *Runs.* Two runs let the second use the entries and the client of the first. Three errors
  fill the list, repeat a text or do both. The texts are symmetric: the model only compares
  them.
- *Uploads.* Files whose length is and is not a multiple of the chunk, one of them with an
  empty last chunk; two pages that mix their chunks in one partition, and one more upload.
- *Restarts.* One restart of the device: nothing but the flash and the button outlives it.
- *Time.* `slow` has a tick of 10 ms and a sleep of two ticks, so that a contact can
  move at half an iteration. I2C transfers take no time; that the reader's period is
  exactly 20 ms is an idealisation, the real one is a little longer.

Fairness. `Pulsecounter`: the reader's steps and the clock are weakly fair (a thread
with a sleep and no lock), and a batch runs to its end; the meters have none.
`SchedulerThread`: every thread and both callers are strongly fair, since a mutex that is free
again and again is got in the end, and nothing else another task does can take a thread's or a
caller's next step from it (`wait_for`'s timeout is among these steps); the main loop takes a
request and restarts the server (weak fairness); nothing forces the page to save or restart. That `JoinReturns` holds says nothing about how long it lasts: a
notification sent when nobody waits is lost and the thread then sleeps until the next
run, up to a day. `ConfigUpdate`: the web server's task and the main loop take their next
step; no broker has to answer, and posts are bounded, so that `httpd_stop` finds a pause,
unless a peer has gone away: `RequestedIsApplied` names that case, in which only switching the
device off helps.
`OtaUpdate`: the page's timer runs out and the handler goes on; faults are never forced, and
`FirstUploadInstalls` speaks of an upload without one. `Boot`: the main loop takes its
next step, since its waits have timeouts; the network and the user owe nothing.
`PCScheduler`, `FaultyBus` and `ScheduleLoop` have safety properties only.

Deadlock is checked where the system never stops (`Pulsecounter`, `FaultyBus`; `PCScheduler`,
where the broker always comes or goes; `Boot`, where the button can
always be pressed). It is not checked in `ScheduleLoop` (`MaxDays`, and a thread that refuses
its schedule ends), `SchedulerThread` (a thread that refuses its schedule ends),
`ConfigUpdate` (a peer that goes away stops the web server and with it the main loop) and
`OtaUpdate` (a page that got no answer waits for ever, and uploads and faults are bounded).

## 4. What is proved

For every value of the constants that satisfies the named assumptions of the modules
(`BoardAssumption`, `ConfigAssumption`, `WiringAssumption`, ...), which TLC evaluates
in every run.

`PulsecounterProofs` is about `Pulsecounter`:

| Theorem | States | Inductive invariant |
|---|---|---|
| `TypeCorrect` | `Spec => []TypeOK` | `TypeOK` itself |
| `NoPhantom` | `Spec => []NoPhantomPulse` | `PhantomInv`: besides the edges, the pulse "in hand". When the masks still show the line low, the contact has been closed by a pulse no edge was seen of, so the next edge is covered. It rests on `SelectOne` (while an output is selected, of all meters of a line only its own is connected) |
| `EdgesCounted` | `Spec => []EveryEdgeCounted` | `EdgeInv`: an edge not yet counted is alone, noted in `risingEdges`, and its masks will not be overwritten before `countPulses` sees them |
| `Recount` | `Spec => []RecountBound` | `RecountInv`: an edge leaves room for `Left(s)` more counts, the iterations that may still see the same masks: `1 + MaxCount` after a sample, one less with each count, none when the output is due. It needs that an output with `MaxCount` 0 never shows an edge |
| `NothingTwice` | `Spec => []ReportedOnce` | `ReportInv`: no batch is under way while a reset is requested; what a counter shows has been reported only between the batch's read of it and the reset |
| `NoneMissed` | `Spec => []NoMissedPulse` | `SlowInv`: what the last sample showed of a slow meter is what its contact is now, or the contact has moved since and the next sample comes (`DueIn`) before it may move again |
| `PromiseKept` | `Spec => KeepsPromise` | all of the above together (`PromiseStep`): an iteration's counts are one `Record`, each read of a batch one `Publish`, every other step a `Give` or a stutter |

None of these properties is inductive: each is about numbers that grow in
different steps, and the invariant says what has happened to an edge (or a count)
in between. The proofs take minima of sets of naturals from `MinOfNats`, which uses
the library's well-foundedness of `<`. The lemmas about a sample hold whatever was read,
so they are put together with the failing steps: `FaultyEdgesCounted` and `FaultyRecount` are the same bounds on a bus that fails, and `FalseEdges` is
`FalseEdgesBounded`, from the number of faults and the pulse in hand (`FalseEdgeInv`).

`PCSchedulerProofs`: from `Inv` follow `ResetHarmless` (`ResetDiscardsNothing`: a client
lives only while `publish` sleeps, and the table is empty from `generatePayload` on); from
`ErrorInv` follows `ErrorsCounted`, and from both `InBounds` (`TablesInBounds`). While there
were no more texts than the list has entries, the entries in use hold different texts, and one entry
for each text there was an error of. `NothingDeliveredTwice` (`DeliveredOnce`) rests on
`DeliverInv`: a pulse is still in its counter, or on its way (read by this run, in the payload
or with a client that has not handed it over), or with the broker, and in one of these only. A
payload has one value for each channel, the one the run read (`ValueOfBatch`).

`PayloadsAreBatches` (`PayloadIsBatch`), in the same module, is for every configuration and
table. It is about the loop of `storePulseCounts`: when the first `k` counters have been
read, the table holds one entry of this run for each of their outputs that fits, in the
order in which the outputs came, with the values that were read (`Held`). What is behind
`counterStorageCount` may be anything earlier runs left there, and once the table is full
an output that was seen before keeps its entry while a new one is dropped.

The same module, which extends `MCPublish`, is about the page. `ItemsListed` says what the
loop of `getStatusJson` puts into the status, by induction over the slots; `PageFollows`, from
`StatusRead` and `StatusTaken`, that any page (`IsPage`: it has a meter for each channel) then shows the last
pulse of each channel, how long ago that was, and the last publication, of a device that has
no errors to tell of. `AlwaysFollowed`
(`StatusShown`) puts this together with `StatusInv`: the text of errors the page is given was
made before the list was emptied, so it is there after an error (`calm = 0`, the list is not
empty) and gone with the second acknowledged payload. `DeliverInv` keeps a counter within the pulses of
its channel, so a channel without a pulse is shown without a count. `TimeAssumption` asks for
a last pulse after the clock's second 0, which stands for none.

`ConfigProofs` is about `ConfigUpdate`, `ConfigForm` and both together in `MCConfig`.
`FlashForward` (`NeverBackwards`) rests on there being one client at
most, which is no older than the flash. For `StoredOnly` and `RegisterKept`, `LoadInv` says what the
main loop holds between the load for the scheduler and the setting of it: a configuration that
was in the flash and is no older than what is applied (unless that is a stray), a stray, or the
empty one, which is not accepted. `AskInv` says whose brokers are asked: the global holds the
post or what was loaded since, and what was loaded had been stored.

The theorems about the form are for any number of outputs, lines and slots and for any page
with its fields whose texts of a schedule can be read (`IsPage`); `FormAssumption` asks for
port numbers below 0xFF and a slot for each direct line, of which the device has 16 and 128.

- What a page makes of its counters is one invariant of the two loops over the ports, `Lists`:
  each place that is kept has exactly one counter, no other has one, and the direct lines come
  before all others. A port that is visited keeps it (`PushedLists`); by induction over the
  inputs and the outputs it holds at the end (`CountersListed`).
- `FormShown`: `IsPage` includes the NTP server, which the theorem names as lost, and blank
  dividers, of which it says nothing. The first counter found at a port is the one pushed there (`FirstCounter`), the
  last output of a port is the one added for it (`TypesShown`), and the lists are a matter of
  `ResavedLists`. `FormLoaded`: none of the numbers but a divider leaves its type, so the device
  reads what was pushed. `FormServed`: the number of counters is that of the direct lines and
  the named places, and those without a slot are the last.
- `AlwaysShownAgain`, `AlwaysAsShown` and `AlwaysServed` say the same of each configuration
  that gets into the flash or the global (`ShownAgain`, `DeviceAsShown`, `SlotsServe`). What is
  typed and chosen makes a page of a page (`Edited`), saving and opening it too as long as
  the lists are kept (`Reopened`), and all begin with the page of an empty flash (`EmptyPage`,
  `PagesKept`).
- `AlwaysReachable` (`OutputsReachable`): `Panels`, that only one output is open, is kept by each
  click and choice (`PanelsNext`), so `PanelsOfOne` holds after any number of them.

`SchedulerThreadProofs`: for the model in which the tasks restart whenever they like. As long as
no two restarts have overlapped, one task at most is between its request to stop and `run`, only
the thread `t` is alive, and in between it has been asked to stop. `NoneRunsStopped`,
`OnlyOneThread` and `EndsByItself` follow.

`OtaUpdateProofs`: `TypeCorrect`, `BufferAlwaysHeld` and `WholeImagesOnly`, for any number of
pages, any files and any faults. `BootProofs`: `TypeCorrect` and `BootAnswered`, from what
each place of `app_main` says about the bits and the services (`AnswerInv`, `ServiceInv`).

`ScheduleProofs` is about `ScheduleTime` and `ScheduleLoop`, for a clock of any size
(`ClockAssumption`: an hour, a minute and a day have at least two parts each) and any set of
legal schedules (`ScheduleAssumption`), with no bound on the days or the disturbances:

- `NextRunFound` (`NextRunExact`). A moment is its four digits, and moments are ordered as
  their digits are (`Digits`, `MktimeOrder`). The calculation has two cases: the last run of
  the day is over (`FoundTomorrow`) or not (`FoundToday`); the second splits by
  whether the hour has a minute left. Both end in the first scheduled second from where one has to
  look (`Found`).
- `RefusedAtLongestGap` (`RefusedOnlyAtLongestGap`). Around the clock a list names a number
  within its longest gap (`ListGap`, `Around`), so no wait is longer than `maxWaitTime`
  (`NoLongerGap`) and the refused one is as long.
- `RunsAreDue` (`EveryRunIsDue`). The property is not inductive: which second a wait ends in
  follows from when it was planned. `RunInv` says that what is due is the first scheduled
  second after this one, that a second taken for done was scheduled, and that an undisturbed
  wait ends in the first scheduled second after the one it was asked from. The corner is an
  answer of -1 for the second after a run: that second is the last of its day, and the wait of
  999 ms ends in it (`NoAnswerAfter`).
- `SchedulesResaved` (`ResaveKeeps`) from `ResavedLists` of `ListProofs`, below.

`ListProofs` holds the facts about numbers, lists and recursive functions (`Induction`,
`Iterates`, `Smallest`, `Largest`) that the proofs of the form, the schedule and the status
use too. It is about `ScheduleText`: `ResavedLists` says which ascending lists, of any length
and for a field of any size, survive being written as a text and read back. The two functions
are recursive over the list and over the parts of the text, so its lemmas are proved by
induction over the numbers reached (`Induction`, which puts the well-foundedness of `<` in
the form of a set that is closed under successors). Up to the first run the text is one part
for each number (`SinglesWritten`, `SinglesRead`). A run writes nothing until a number that does
not follow comes (`RunAddsNothing`); when the list ends with it, its last part is read as the
whole run (`KeptList`), when another number comes, the dash takes that number's
place and what is read skips numbers or invents them (`LostParts`).

Model-checked only: everything about liveness, which is out of the prover's reach
(`EveryOutputSampled`, `PulseEventuallyCounted`, `JoinReturns`, `SavedIsApplied`,
`RequestedIsApplied`, `FirstUploadInstalls`, `EveryBootEnds`, `ButtonBringsServer`,
`SavedStartsScheduler`). Every invariant and
action property of the passing runs and both refinements are theorems.

## 5. Where code and documentation disagree

Three disagreements are runs that TLC must find violated.

- `water` — `maxCount` of a water meter is `2.5 * maxDivider / 180000`, truncated. For
  every divider below 72000 it is 0, and an output with `maxCount` 0 is never sampled.
  The comment above it says "Ceiling", README.md gives 1000 as the default divider.
- `quarter` — the README's example of a run every 15 minutes. After 23:45 the wait is
  computed to midnight with the passed milliseconds dropped: 15 minutes, which is not
  below `maxWaitTime`, so the thread takes it for an error and ends. In general
  (`RefusedOnlyAtLongestGap`) it happens when the next run is as far away as the
  longest gap of the schedule.
- `not_kept` — `generatePayload` empties the table before anything is published, so a
  result that the broker did not take within 400 ms is gone. README.md:39 says it will
  be stored until the broker is available.

The others are described here without a run.

Within the models, where the properties of the passing runs state the condition under which
it does not happen, or leave the case open:

- *Restarts that overlap* (`overlapped` in `SchedulerThread`). The main loop and the web
  server's task can restart the scheduler at once. The request to stop of one is then cleared by
  `run` of the other (scheduler.cpp:28, 81), and the first waits in `joinThread` for a thread
  nobody stops; a later save is never applied. Or both reach `run`, and two threads live. The
  test at test/test_native/scheduler.cpp:34 takes it for granted that the two calls come to an
  end ("If this test doesn't work, it will run forever"). TLC finds `JoinReturns` violated
  without its condition.
- *Strays* (`strays` in `ConfigUpdate`). `postConfigHandler` parses what was posted into the
  global configuration before any broker has answered for it, and the main loop copies the
  configuration from there. A post that is parsed between the main loop's load of the flash and
  its copy reaches the scheduler without validation, or, when it is incomplete, makes it
  drop the request. The comment at main.cpp:139 says "Reconfigure only if validation is
  successful". TLC finds `OnlyStored` violated without its exception.
- *The NTP server* (`PageTexts` and `SavedTexts` in `ConfigForm`). The page asks for one
  (index.html:35-37) and the device reads one (config.cpp:83), but the page's save leaves it
  out.
- *A blank divider* is saved as 0 (pulse.js:150), though README.md:33 says that the default is
  1000 and the blank field shows it (index.html:177). The payload divides by it
  (pcscheduler.cpp:108), so the value it names is no number.
- *A full matrix*. With all 128 channels in use (README.md:3, 9, 57-62) 16 of them have no slot
  and are not counted: the direct counters come first and are always there.
- *The status with an error*. `getErrorsString` leaves the quote of the message open
  (pcscheduler.cpp:172-176; the fixture `cypress/fixtures/status.json` shows the form the page
  expects). With an error in it the whole status is no JSON: the page shows no errors, and no
  new counts either, until two payloads in a row have been acknowledged. The test at
  test/test_native/pulsecounter.cpp:250-253 sets an error and asserts valid JSON.

Counting:

- `countPulses` looks at the masks of all outputs, also of those that were not sampled in
  this iteration. Their last edge is still in the masks and counts again whenever another
  line rises. `RecountBound` shows the limit: once per iteration of the output's period.
- A contact that holds 30 ms behind an EMeter output is missed: `maxCount` 1 means every
  *second* iteration (the countdown from 1 to 0 takes one, the reset to 1 another), 40 ms
  and not the 20 ms of the comment at pulsecounter.cpp:357. `slow` shows from when on
  nothing is missed.
- A pulse counted between the read of its counter by a batch and the reader's reset is in
  no batch.
- `Pulsecounter::setConfig` is called at boot only (main.cpp:95). After a configuration is
  saved the reader keeps its masks and slots, and a new channel is published as 0 until a
  restart (README.md:37 promises the counts of all configured counters).
- `pcf8574_write` sends its address byte as data first.

Schedule:

- When two configured seconds are neighbours, the last run of a day is left out if another
  comes in the second before it.
- With hours 0, 6, 12, 18 the run after 01:07 is at 07:00: when no minute of the hour is
  left, the hour is advanced by one and not to the next configured hour.
- A calculation that lasts into the next second makes the wait a second too long
  (`consumedTime` is a difference of two `tv_usec`), and the run comes in the second after.
- The page writes the lists as they were typed. With hours "12,6" the calculation takes 6 for
  the last hour of the day; nothing sorts the lists and nothing checks them.
- The scheduler starts without waiting for the time (`waitForSntp` has no caller), so the
  first run may come at a time nobody configured. A clock set back by less than a second
  makes the run come in the second before, and the proper second then counts as done.
- `checkConfiguration` does not look at the schedule: with an empty one the thread ends at
  once.
- Minutes 0, 1, 2, 5, 6 are shown by the page as "0-5-6" and read back as 0; 5, 6, 9 become
  "5-9", that is 5 to 9. Opening the page and saving it changes such schedules
  (`ResaveKeeps`). The page's own example '0,15-30,45' (the title in index.html) is one of them.

Configuration and restarts:

- A validation client keeps references into the global configuration: when the main loop loads
  from the flash between the parse of a post and its `StartClient`, the post is stored if the
  broker of the flash's configuration answers (`asked` in `ConfigUpdate`).
- The reset button clears a request: when it is pressed before the main loop gets to a
  configuration that was stored, `reconfigureHttp` restarts the web server, which clears
  `reconfigureRequest`, and the scheduler is not reconfigured.
- A configuration stored after the validation's second makes no request; it is used from the
  next restart on.
- A configuration that `checkConfiguration` rejects is used by the running scheduler all
  the same, since it was assigned to `cfg` before ("Reconfigure only if validation is
  successful", main.cpp:139).
- A flash that cannot be read replaces the configuration in use by an empty one, and the
  request that made the main loop read it is lost.

Boot and network:

- A device that boots without a network starts neither the scheduler nor the web server and
  notices no network that comes later. The message at main.cpp:127 says "Press reset button
  to try again"; the button starts the web server, but connects to nothing and starts no
  scheduler. Storing results until the broker is back (README.md:39) does not happen then.
- The DNS query is made once, after a wait whose result is ignored.
- When the I2C bus cannot be opened, `I2c::get` returns a null pointer and `app_main` calls
  through it (main.cpp:93): the device restarts for ever, and the check in `readInput` never
  sees it (`panic` in `Boot`).
- The NTP service is set up before the network is, and nobody looks at the result: where
  that fails, neither `start` nor `restart` helps.

MQTT errors:

- When the list is full, the move keeps the oldest entry, twice, and drops the two newest
  ones (the last is moved over, the one before it is overwritten by the new text); a text
  may then stand in the list twice.
- `setErrors` is called before the number is cleared, so the status goes on with errors that
  were acknowledged until the next payload is. The text of the list is put into 512 bytes, which about six entries
  fill.
- The key of the next run in the status is `", nextRunTime"`; nothing reads it.

Page:

- A status request that is not answered leaves `lastCountIsRunning` set (pulse.js:438), and the
  page asks no more until it is loaded again.
- The button of the Configuration does nothing: `changeVisibility` wants a type, which that
  category does not have.
- `getHandler` sends the main page after `pulse.js`, as an `else` is missing
  (websrvplscount.cpp:33).
- `MqttClient::init` reports a missing key of the certificate when there is one (mqtt.cpp:75).
- An imported file without `counters` leaves the fields of the meters without their ports: what
  is typed there is not saved.

Update:

- `otaReceived` is never set back: after a failed or truncated upload the next one is ended
  with its first chunk, and no update succeeds until a restart. That is why
  `FirstUploadInstalls` is about the first.
- A failed `esp_ota_begin` leaves `otaStarted` set. An empty chunk is not answered. The page
  tries nothing again, and says "Wait for reboot" though nothing may follow.
- The comment at otaHandler.cpp:97 says "Retry receiving if timeout occurred"; `continue`
  goes to the condition of the do-while and leaves the loop.

## 6. What is not modelled

The map names three tenths of the implementation's lines. Of the rest, the vendored
`include/json.hpp` is 5319 lines of 8437; without it, the map names four fifths.
What remains is text (logs, the page's layout) and the set-up of drivers.

- The output with port 0xFF that the page always adds: `outputData[255]` lies outside of
  the array. `ConfigAssumption` excludes it.
- What a device does after two restarts have overlapped is modelled, but no property speaks of
  it.
- The iteration of the scheduler thread over `cfg`'s vectors while another task replaces
  them (undefined behaviour); `SchedulerThread` has the assignment as one step.
- What the page is answered: a failed validation is not answered at all (`onError` is not
  registered), a failing `setJson` is answered like a success.
- The NVS that `getJson` shuts down while another task writes, and that its early returns
  leave open.
- The pulse counter with a configuration that changes while it runs (it does not notice).
- Changes to daylight saving time.
- Files for the import other than a download or one without a network, and a page whose
  configuration was never answered.
- Text: the JSON's syntax, the payload's wording, the layout of the page, logs. The text that `checkConfiguration` returns has ceased to exist when it is read.
- `Pulsecounter::stopThread` and `joinThread` and `lib/hardware/src/ota.cpp`, which the
  program never uses.
- The web server with SSL, the ids of the MQTT clients; drivers of ESP-IDF.

## 7. Plan

Done, in this order: `Pulsecounter` and its proofs, the schedule arithmetic and loop,
`SchedulerThread`, `PCScheduler`, `ConfigUpdate`, then `FaultyBus`, the two abstract
specifications and their refinements, `OtaUpdate`, `Boot`, the list of errors,
`ScheduleText`, `ConfigForm`, `StatusPage`, and the proofs of the safety of each, those of the
schedule, of the form and of the status last. What is left:

1. The answers to the page.
2. `SaveConfig` of `SchedulerThread` and `Boot` refined by `ConfigUpdate`.
3. `ConfigUpdate` composed with `Pulsecounter`: which channels a payload names after a
   configuration was saved, and which of them the reader counts.
