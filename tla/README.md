# Verification of meater-golang

This directory holds a TLA+ model of the program in `src/`: what its goroutines
and its SQLite store do to a cook, what its status feed delivers, the
configurations that model-check it with TLC, and theorems about it whose proofs
TLAPS checks. Source lines are cited as `file:line` of the repository; paths
without a directory are `src/internal/monitor/monitor.go`,
`src/internal/monitor/history.go`, `src/internal/store/store.go`,
`src/internal/server/server.go`, `src/internal/metrics/metrics.go`, `src/main.go`,
`src/bridge.go`, `src/ble.go`, `src/bluez_linux.go` and `src/firmware/src/main.cpp`.

1. [Inventory](#1-inventory)
2. [Modules](#2-modules)
3. [Runs](#3-runs)
4. [Proofs](#4-proofs)
5. [Where code and comments part ways](#5-where-code-and-comments-part-ways)
6. [What is left out](#6-what-is-left-out)
7. [Plan](#7-plan)

## 1. Inventory

The program reads a MEATER temperature probe, by Bluetooth or through an ESP32
that bridges it to TCP, charts the readings as "cooks", estimates when the
target temperature is reached, and serves a web page, an iOS app, Home Assistant
and Prometheus.

| Component | State it keeps | Operations | Correct when |
| --- | --- | --- | --- |
| **Monitor** (`monitor.go`) | `running`, `connected`, `hasRead`, `cookID`, `history`, `lastSampleAt`, labels, `stopCh`, `subs`, all under one `sync.RWMutex` | `Start`, `Stop`, `NewCook`, `DeleteCook`, `Update`, `SetConnected`, `RunJanitor`, `Resume`, `EnableDiscovery`, label setters, `Status`, `Subscribe` | no cook leaks without an end time; readings go to an open row; the chart is what a restart would show; flags agree with the link |
| **Cook store** (`store.go`) | tables `cooks`, `samples`; one connection | one method per request, one or two statements each | ends are final; open cooks lose nothing; samples go with their cook |
| **main** (`main.go`) | none | `resumeCook`, prune, start of the goroutines | a restart takes up the open cook, or ends it, and turns discovery on |
| **HTTP API** (`server.go`) | one goroutine per request | session, cook, label and stream handlers | requests compose under any interleaving |
| **Status feed** (`Subscribe`, `broadcast`, `handleStream`) | one bounded channel per stream | subscribe, send without blocking, cancel | no send on a closed channel; a slow client holds nobody up; no status lost but by overflow |
| **Bridge link** (`bridge.go`, `firmware/src/main.cpp`) | socket, watchdog clock; on the board a queue of 16 payloads and two flags | dial, stream, redial; scan, connect, notify, keep alive | Stop ends the stream; silence is noticed, and work is not taken for silence; what is shown of probe and signal is what the board has said |
| **Bluetooth link** (`ble.go`, `bluez_linux.go`) | BlueZ connection | find, connect with timeout, notify, stale watchdog | Stop ends it; a connect that hangs or comes late does not keep a probe in range from streaming |
| **Mock probe** (`main.go:232`) | none | a reading per tick | same contract as the links |
| **ETA model** (`history.go`, `monitor.go:757`) | finished cooks loaded by a goroutine | `LoadHistory`, `etaSeconds`, `historicalETALocked`, `blendETA` | the figures of a status agree with each other; the learned curves are those of whole cooks; the model follows the store |
| **Probe decoding** (`meater.go`) | none | `ParseTemperature` | exact for every payload |
| **Metrics** (`internal/metrics`) | cached database numbers | `Collect` | scrapes share one scan of the tables |
| **Web client** (`app.js`) | series, alert latches, session state | stream, history load, alerts | one series per cook; one alert per event |
| **iOS app** (`AppModel.swift`, `LiveActivityController.swift`) | the same, and a Live Activity | stream generations, alerts, sync | an old generation changes nothing |
| **Home Assistant** (`custom_components`) | the last poll | poll, commands | a command is followed by a refresh |
| iOS views, widgets, front-end listeners, packaging | none worth a model | | |

How they interact:

- *Handlers to Monitor.* Each request is a goroutine that takes `m.mu`, changes
  the state, releases it, then runs SQL statements and a broadcast. Another
  goroutine may act between any two of those.
- *Links to Monitor.* `runBridge` and `runMock` call `Update` from the loop that
  owns the link; `runBLE` gets its readings on BlueZ callbacks that nothing
  orders before or after that loop. All wait in `WaitForStart`, then fetch the
  stop channel in a second critical section, and are stopped by its closing.
- *Janitor to Monitor and store.* A goroutine that looks under the lock, ends and
  prunes without it, and looks again.
- *main to everything.* It resumes and prunes before the links, the janitor and
  the server run.
- *Monitor to clients.* `broadcast` sends a snapshot to every stream's channel
  under the read lock, skipping channels that are full.
- *Clients to server.* Each combines a snapshot, a fetched history and a stream.

What is hard here: check-then-act across critical sections (janitor, delete,
prune), late readings after Stop, two transports with different concurrency,
crashes between memory and disk, SQL errors that are logged and passed over, a
lossy broadcast, watchdogs and timeouts that race late answers. `PROJECT.json`
lists each such hazard at its line, with the properties that cover it.

## 2. Modules

| Module | Models | Uses |
| --- | --- | --- |
| `CookStore` | the tables, one action per statement that writes, one operator per query | |
| `CookSession` | Monitor, handlers, janitor, main, the goroutines that deliver readings and own the link, crash and restart | EXTENDS `CookStore` |
| `CookLog` | abstract specification: what the bookkeeping of cooks promises | INSTANCE in `CookSession`, `live <- cookID` |
| `CookLabels` | name, meat type and target in memory, pending, and in the rows; each request as the calls its handler makes | |
| `StoreReaders` | `LoadHistory` and `dbStats`, which read with several statements while the writers write | EXTENDS `CookStore` |
| `StatusFeed` | `Subscribe`, `broadcast`, `handleStream` | |
| `ProbeLink` | abstract specification: the contract of whatever owns the link to the probe | INSTANCE in the next two |
| `BridgeLink` | `runBridge`, its watchdog, the socket, the board's loop and its BLE task | implements `ProbeLink` |
| `BleLink` | `runBLE` down to `connectWithTimeout` and `ensureConnected`, and BlueZ as they rely on it | implements `ProbeLink` |
| `EtaModel` | the numbers of a status: rates, the physics and the learned estimate, the blend | EXTENDS `Rationals` |
| `Rationals` | exact arithmetic for what the code computes in `float64` | |
| `CookSessionProofs`, `CookLabelsProofs`, `StoreReadersProofs`, `StatusFeedProofs`, `BridgeLinkProofs`, `BleLinkProofs`, `EtaModelProofs` | theorems | each EXTENDS its module |
| `CookChartProofs` | theorems about the chart of a session | EXTENDS `CookSession` |
| `MCCookSession`, `MCStatusFeed`, `MCEtaModel` | symmetry sets, and past cooks, for TLC | EXTEND theirs |

### The session

A step of `CookSession` is one critical section of `m.mu`, or one SQL statement
run outside of it. The pool has a single connection (store.go:54), so statements
do not overlap, and inside a critical section no other goroutine sees a
difference. `Update` opens a cook's row while it holds the lock; that is one step,
and so is everything else under the lock.

| Code | Model |
| --- | --- |
| `m.running`, `m.connected`, `m.hasRead`, `m.cookID`, `m.lastSampleAt` | the variables of that name |
| `m.history` | `history`, the times of the samples; temperatures are not told apart |
| `m.stopCh` as held by the link's loop | `stopClosed`: that channel is closed |
| rows of `cooks` | `row[c]` (absent, open, ended) and `started[c]`; ids are handed out once, as `AUTOINCREMENT` does |
| rows of `samples` | `samples` |
| program counters of handlers, janitor, main | `thread[t]`: `end` (about to run EndCook), `prune1`, `prune2`, `clear` (the janitor's second critical section), `del1`, `del2`, `resume` |
| an `Update` in progress | `upd[r]`: `lock` (time taken, lock not), `append` (row to insert) |
| the loop of `runBridge`/`runBLE`/`runMock` | `link`: `parked`, `woken`, `dialing`, `streaming`, `closing` |
| a logged and ignored SQL error | `StatementFails`, `UpdateOpenFails`, `UpdateAppends` without effect, `ResumeNothing`, `ResumeUnread`, when `StoreMayFail` |

`Async = FALSE` is the bridge and the mock, whose loop calls `Update` itself and
cannot leave the stream before it returns (`Quiet`); `Async = TRUE` is Bluetooth.
`abandoned` and `resumedAt` are history variables: no action reads them except
to keep them.

`CookLog` knows no goroutines: at most one cook is live; it begins with a fresh id
and only when none is live; an end is final; only finished cooks lose samples or
rows; a restart may take up a cook that has no end. `ImplementsLog` says that
`CookSession` implements it under `live <- cookID`, with the tables as they are.

### The labels

`CookLabels` abstracts a request to the sequence of Monitor calls its handler
makes (`SessionStart`: set the name if given, start, set the meat type if given;
server.go:190-210), each call a step under `m.mu` (`SetLabel`, `Start`, `Stop`,
`NewCook`) that may leave a statement to run after the unlock (`WriteRow`,
`EndCook`). `status` is what a snapshot shows, `pending` what the next cook gets
(`Open`), `table` the labels of the rows. A restart (`Restart`) restores them from
the newest open row. `last` and `unsure` are history variables: what the status
said when a cook was retired, and which row labels a failed or overlapping write
may have spoiled.

### The readers of the store

In `StoreReaders` the writers are `CookSession`'s goroutines cut down to the
statements the readers can see. A loader lists the finished cooks (`ListCooks`),
reads one cook per step (`ReadSamples`) and swaps the model (`SwapModel`); any
statement may fail. A scrape finds cached counts or refreshes them under the
collector's mutex (`Refresh`, `CountCooks`, `CountSamples`).

### The links

`ProbeLink` is the contract that bridge.go:89-91 names and `CookSession` relies
on: park until discovery runs, take the stop channel, dial, stream, and leave
nothing reported. Both links implement it, with their program counters mapped to
its five.

| Code | `BridgeLink` |
| --- | --- |
| `runBridge`, `dialBridge`, `discoverBridge`, `streamBridge` | `loop`, one value per place the goroutine can be overtaken at |
| the watchdog goroutine, `stalled` channel, `lastUpdate` | `watchdog`, `stalled`, `silence` (ticks) |
| the connection | `sock`; `wire`: the lines written and not yet scanned, also after a close |
| `loop()` on the board | `board`: `waiting` for a client, `top`, `scanning`, `attaching`, `reporting` (the first look at `probeConnected`), `measuring` (the second), `draining` |
| `reported`, `probeConnected`, `payloadQueue`, the RSSI timer | `reported`, `probe`, `queue`, `rssiDue` |
| which connection the board serves | `serves`: the client's current one, an old one, none |
| a hang of board or network, a reset | `Wedge`, `BoardRestarts` |

A tick is the ten seconds of a scan on the board. The probe may be lost at any
point, also between its first payload and the board's "connected"; the history
variable `unsaid` remembers that it was, until the board has a status line to send
again (see section 5).

| Code | `BleLink` |
| --- | --- |
| `runBLE`, `findAndConnect`, `scanOnce`, `connectWithRetries`, `streamUntilStale` | `loop`; `attempt` counts connects, then discoveries |
| the device as BlueZ has it | `device`: `off`, `linked`, `resolved` |
| calls of `Connect` that timed out and still wait | `abandoned`; they may return late and disconnect (`AbandonedReturns`) |
| the notification callback | `callback`, between `lastUpdate` and `Update`'s lock |

A tick is the five seconds between two looks at the age of the last reading.

### The estimates

`EtaModel` defines each estimator as an operator with the code's name
(`clampF`, `etaSeconds`, `finalRise`, `buildHistCook`, `reachTime`,
`reachToTarget`, `medianSorted`, `blendETA`, `ambientAvg`, `progress`, `Status`)
over a history of `[at, tip, amb]` readings, of which the newest `HistoryLimit` are
kept (`Retain`), and the steps that change what they read. A temperature is a whole
number of an instance's unit, of which `Degree` make one °C (32 for the probe), and
the bar is rounded by the code's `round1` to one in `BarSteps` (1000 in the code).
Arithmetic is exact. `math.Log` is modelled by 2(x-1)/(x+1), which is below
it for every x > 1 and agrees with it to second order at 1: `NewtonIsLonger` holds
for the code's logarithm if it holds for this one.

### The feed

`StatusFeed` takes a status to be the version of the state it was taken from:
everything the feed can do to a status is deliver it late, out of order or not
at all. A writer is a goroutine in any method of the Monitor that broadcasts.
Most take the snapshot with their change (`Change`); `Update` stores the sample
first and takes its snapshot later (`Record`, `Snapshot`). A broadcast holds
`m.mu` shared from `Broadcast` to `BroadcastEnds`, one step per channel, so that
`Subscribe`, `Cancel` and changes, which need it alone, wait (`Unshared`).

## 3. Runs

Deadlock is checked in every run. `CookSession`'s and `StoreReaders`' runs keep
the store at `KeepEnded = 1` (10 in the code) so that a second finished cook is
pruned at once.

| Run | Instance | Shows |
| --- | --- | --- |
| `session_ble` | 2 handlers with all requests, 2 concurrent callbacks, janitor, 2 cooks, 2 ticks | a row that is open is the monitor's or is on its way to its end (`OpenRowIsOwned`); readings go to an open row but for the janitor's window (`CurrentCookIsOpen`); every charted reading of an open cook is stored or about to be (`ChartIsPersisted`); deleting and pruning never touch an open cook (`OpenCookKeepsSamples`) |
| `session_restart` | 1 handler, 1 reader of the bridge, any statement may fail, 1 crash | the inductive invariant `CookInv`; the chart stays oldest first through a resume (`HistoryOldestFirst`); `ImplementsLog` |
| `session_live` | 2 handlers with start and stop, bridge, fairness | a cook taken from the monitor gets its end time (`RetiredCookEnds`); a stopped session ends up disconnected, late readings and status lines notwithstanding (`StopDisconnects`) |
| `cook_labels` | 2 handlers, every request that touches a label, 2 cooks, restarts | a row says what the status said while its cook was current, each label once its own statement has run (`RowFollowsMemory`); what is shown between two cooks is what the next one gets (`PendingIsShown`) |
| `store_readers` | 2 readings, 2 requests, 2 loads, 2 scrapes, 2 cooks of up to 3 samples | no curve of a half-deleted or unfinished cook is kept (`CurvesAreWhole`); once the requests are through the model is what the store teaches (`ModelFollowsStore`); scrapes that meet scan once (`ScansAreRationed`) |
| `feed_live` | 2 writers, 2 streams, channels of 1, 2 changes, fairness | no send on a closed channel (`SendsToOpenChannels`); the newest status is seen, queued, owed or turned away by a full channel (`NewestAccountedFor`); a client that has stopped reading blocks neither a broadcast nor its own cancel (`BroadcastReturns`, `StreamLeaves`) |
| `bridge_link` | the browsed address, a queue of 1, 3 lines on the wire, fairness | a signal strength has its probe (`RssiHasProbe`); a board that scans for a lost probe has said so, but in one case, *The board* of section 5 (`ScanningIsKnown`); a board at work is never silent for longer than a scan (`WorkingBoardSpeaks`); `ImplementsLink`; Stop hangs up (`StopHangsUp`), a silent board is noticed (`SilenceNoticed`), one that works serves again (`ClientServed`) |
| `ble_link` | 3 connects, 5 discoveries, 2 abandoned calls, fairness | `ImplementsLink`; Stop parks (`StopParks`); a stream that has lost its subscription ends (`LostStreamNoticed`); a probe in range ends up streaming (`ProbeIsReached`) |
| `eta` | charts of up to 4 readings of 3 kinds, trimmed, 4 past cooks, 2 targets | the figures of a status agree (`StatusCoherent`); the physics estimate is at least the linear one (`NewtonIsLonger`); the fit lies between the slopes of pairs (`SlopeIsBetweenPairs`); a learned curve lies on its readings (`CurveFollowsReadings`) |
| `session_late_reading`, `session_janitor_resumed`, `eta_stall` | smallest instance that shows it | violations, see section 5 |

Each module's `TypeOK` is checked in one run as well.

### Bounds, and why they are enough

- *Sessions.* `MaxCooks = 2`: the properties relate a cook to the one that follows
  it, and with `KeepEnded = 1` the second to end makes the first prunable.
  `MaxTime = 3` with timeouts of one or two ticks lets a sample be fresh, at the
  limit and past it; in `session_ble` the timeout is shorter than a tick, so that
  two of them do. `HistoryLimit = 2` makes the trim happen at the third sample.
  Two handlers are two requests that overlap each other, the janitor and a reading
  at every step; the properties speak of pairs. One crash reaches every state a
  crash can leave behind, since startup starts from the tables alone. `RoomForCook`
  keeps a reading from arriving when no id is left for the cook it may open: it
  bounds the model and not the code.
- *Labels.* Two names, a target of 0 besides the default, and no meat type but the empty
  one: the three labels take the same way through `SetLabel`, and a meat type that
  `SessionStart` sets after the start is, step by step, a name set by a request that
  follows a start. One handler's write may be overtaken by another's request, by a
  reading that opens the next cook and by a restart.
- *Readers.* `MinPoints = 3` is the code's `len(pts) < 3`. `CurvesAreWhole` needs
  that fewer readings can be on their way at one time than it takes samples to teach:
  late appends are the only samples a cook can have that has been ended and deleted.
  With `MinPoints = 2` the two readings of the run violate it. The code has one reading
  in flight on the bridge; on Bluetooth there is one per notification whose callback
  has not returned, and they come a second apart.
- *Bridge.* `StaleTicks = 3` is the code's 30 s in scans of 10 s;
  `ConnectTicks = 3` lets a connect outlast it. A queue of 1 (16 in the code) is
  full at the second payload, and may be left over when the probe is gone; 3 lines on the wire hold a status, its RSSI and a reading, the longest
  burst the board sends at a connection.
- *Bluetooth.* Retries and the 20 s of silence are the code's. `MaxAbandoned = 2`
  bounds the calls that hang at one time; `ConnectHangs` is not taken beyond it.
- *Feed.* A channel of one overflows at the second status, and two changes let two
  broadcasts overtake each other.
- *Estimates.* Three readings are the least that a fit can weigh unevenly, four let
  one leave the window; temperatures lie below, at and above the target and the
  chamber on both sides of it. The fourth reading fills the chart and the fifth
  moves its start, and with it the start of the bar. The units are the instance's,
  the formulas are homogeneous in them but for the constants, which are scaled along;
  a bar of two steps instead of a thousand is full before the target is reached on
  climbs of three and four units.

The theorems of section 4 hold without these bounds.

### Fairness, and why the code justifies it

- *Session.* SQL statements return (one connection, no other holder), an `Update`
  that has begun is a goroutine that nothing blocks, and the janitor's second
  critical section and `main`'s startup likewise: weak fairness. A dial gives up on
  a closed stop channel, and the end of a stream runs to the loop's top: weak. The
  end of a stream after Stop has strong fairness: the watchdog closes the socket,
  so that only lines already buffered can postpone it (in `BridgeLink` this is
  shown, as `StopHangsUp`). `StopDisconnects` is claimed for the bridge and the mock
  only: on Bluetooth an `Update` that gets the lock after the loop's
  `SetConnected(false)` sets `connected` again, and nothing clears it while
  discovery stays off.
- *Feed.* The writer goes on once it has changed the state, and `Cancel` has strong
  fairness because a `Lock` that waits on a `sync.RWMutex` keeps new readers out.
- *Bridge.* The loop's goroutine, the watchdog and the board's loop run: weak
  fairness of each as a whole. `StreamEnds` is weakly fair by itself: a closed
  socket yields an error once its buffer is read. Time passes. A bridge that is
  browsed for and dialled again and again is found and reached: strong fairness of
  those two outcomes, and of nothing else.
- *Bluetooth.* The loop's goroutine runs, and every call returns but `Connect`. The
  stop channel is selected on, so weak fairness of `StreamStops`. An adapter that
  is asked again and again finds and connects a probe in range and lists its
  services: strong fairness of those outcomes. `ProbeIsReached` assumes besides
  that the probe stops dropping and that late calls stop disconnecting it.

Requests, readings, clients, the probe and faults owe nothing.

## 4. Proofs

The eight proof modules are checked by `tlapm`; no step is left open.

| Module | Theorem | States, for every value of the constants |
| --- | --- | --- |
| `CookSessionProofs` | `TypeCorrect` | `Spec => []TypeOK` |
| | `CookInvariant` | `Spec => []CookInv` |
| | `OpenRowsOwned`, `CurrentCookOpen` | the two safety properties it implies |
| | `OpenCooksKeepSamples` | the action property `OpenCookKeepsSamples` |
| | `ImplementsCookLog` | the refinement of `CookLog`, `ImplementsLog` |
| `CookChartProofs` | `ChartPersisted` | `Spec => []ChartIsPersisted`, if no statement fails |
| | `ChartInOrder` | `Spec => []HistoryOldestFirst`, if readings come one at a time |
| `CookLabelsProofs` | `TypeCorrect` | `Spec => []TypeOK` |
| | `NextCookIsShown` | `Spec => []PendingIsShown` |
| | `RowsFollowMemory` | `Spec => []RowFollowsMemory` |
| `StoreReadersProofs` | `TypeCorrect` | `Spec => []TypeOK` |
| | `WholeCurves` | `Spec => []CurvesAreWhole`, if fewer readings than `MinPoints` are on their way at one time |
| | `ModelFollows` | `Spec => []ModelFollowsStore` |
| | `ScansShared` | the action property `ScansAreRationed` |
| `StatusFeedProofs` | `FeedTypeCorrect` | `Spec => []TypeOK` |
| | `FeedSendsToOpenChannels` | `Spec => []SendsToOpenChannels` |
| | `FeedAccountsForNewest` | `Spec => []NewestAccountedFor` |
| `BridgeLinkProofs` | `TypeCorrect` | `Spec => []TypeOK` |
| | `FlagsFollowTheSocket` | `Spec => []FlagsFollowSocket` |
| | `SignalStrengthHasProbe` | `Spec => []RssiHasProbe` |
| | `WorkingBoardIsHeard` | `Spec => []WorkingBoardSpeaks` |
| | `ScanIsKnown` | `Spec => []ScanningIsKnown` |
| | `ImplementsProbeLink` | the refinement of `ProbeLink`, `ImplementsLink` |
| `BleLinkProofs` | `TypeCorrect` | `Spec => []TypeOK` |
| | `ImplementsProbeLink` | the refinement of `ProbeLink`, `ImplementsLink` |
| `EtaModelProofs` | `TypeCorrect` | `Spec => []TypeOK` |
| | `PhysicsIsLonger` | `Spec => []NewtonIsLonger` |
| | `FitIsBetween` | `Spec => []SlopeIsBetweenPairs` |
| | `CurveFollows` | `Spec => []CurveFollowsReadings` |
| | `StatusAgrees` | `Spec => []StatusCoherent` |

They assume of the constants what the modules' ASSUMEs say: the bounds are
natural numbers, lengths and capacities are positive, the sets of goroutines are
apart, the switches are Boolean. They cover both transports, failing statements, any
number of crashes, requests, loads and scrapes, queues of any length, cooks of any
number of readings. Of `EtaModel`'s constants they assume that temperatures are whole
in the unit of the instance, rates and the cap of the blend rational, the cap between 0
and 1 and the plateau not negative, that a degree, the length of the chart and the steps
of the bar are positive, and that past cooks are finitely many with ids of their own.
Three have a
hypothesis besides, each the condition without which TLC finds the property violated:

- `ChartPersisted`: `~StoreMayFail`. An INSERT that fails is logged and the reading
  stays on the chart.
- `ChartInOrder`: at most one `Update` at a time, as on the bridge and the mock.
  Two notifications of Bluetooth may be recorded in the opposite order of their times.
- `WholeCurves`: `Cardinality(Readers) < MinPoints` (section 3, *Readers*).

*Why `CookInv`.* `OpenRowIsOwned` and `CurrentCookIsOpen` are not inductive. A step
that opens a cook could reuse the id of one a handler still has to end: so ids in
use never exceed `seq` (`IdsInUse`). A step of the janitor could clear a cook that
is still open: so what it clears has ended, or its EndCook was lost
(`HandedOver`); a handler that ends a cook must not end the monitor's, so the cook
it holds is not `cookID`. `Resume` overwrites `cookID`: so while main is at it
`cookID` is zero and nobody else runs (`BootAlone`). A delete must not hit an open
row: the cook it holds has ended, and ended rows do not open again. Each of these
is proved per action, the statements of Prune and DeleteCook together
(`MoveOnInv`: they at most take rows that are not open).

*The refinement of `CookLog`* needs `IdsInUse` (a sample belongs to a cook that was
begun), `BootAlone` (a restart takes up a cook while none is live) and `HandedOver`
(a deleted row is not open); each action maps to one action of the log or to a
stutter.

*The chart.* For `ChartPersisted` a charted reading of an open cook is stored or held
by an `Update` on its way to the row (`Kept`), and stays so until the process dies
(`KeptStays`): `CookInv` says that a delete or a prune takes samples of cooks that
are not open only. `ChartInOrder` needs `OrderInv`: neither the last sample nor a
stored one is newer than the clock, nor is the last sample newer than the time an
`Update` took before it waited for the lock; a resumed chart is sorted by the query.

*The labels.* `RowFollowsMemory` speaks of a row no request is writing and must survive
requests that overlap. `RowInv` says for each cook and each label (`PairInv`), unless
overlapping or failed writes have spoiled it (`unsure`): at most one request is about
to write it, what it writes is what the status shows, or showed when the cook was
retired (`Shown`), and if none is then the row says that already.

*The readers.* `StoreInv` has the types, and says which rows and samples there may be.
For `WholeCurves` a cook that is over has all the samples it ended with, or no more
of them, with those on their way, than there are readings (`FewOrWhole`): too few to
teach. A loader's list names only cooks that are over (`ListsClosed`), so all that is
learned is whole (`LearnedWhole`). For `ModelFollows`, unless loads that
overlap, a failed statement or a late reading have spoiled it (`disturbed`), at most one load is under way, and what it has and
what it has still to read is what the store teaches (`Follows`). For `ScansShared`
the collector's mutex admits one scan at a time, while the counts are stale (`OneScan`).

*Why `FeedInv`.* For `NewestAccountedFor` a broadcast must reach every live stream,
so the registered channels are exactly those of the streams under way
(`Registered`); and receiving or dropping the newest status must leave a record of
it, so no status is newer than the state (`NoneFromTheFuture`).

*Why `RssiInv`.* `RssiHasProbe` speaks of the monitor, but what could break it is
far away: a line still on the wire, a board that has forgotten what it said. So the
invariant follows the lines back to the board. A signal strength among the lines in
flight comes after the announcement of its probe, or the monitor already shows the
probe connected (`Backed`); what the whole wire will have told the monitor is what
the board last reported (`Told`, `Report`); and a board that has reported nothing to
its current client has put no signal strength on the wire. Lemmas say what
appending a burst of lines and hearing the first one do to `Backed` and `Told`; each
action of the board then has its own lemma.

*Why `LossInv`.* `ScanningIsKnown` is the same for bad news. A client that the board has not
told of a probe will have been told, once it has read the wire, that there is none
(`Gone`, the mirror image of `Told`; a reading counts as news of a probe). What could
undo it is a payload sent by the drain after the loss: so a board that drains or is
about to, and has not reported its probe, has none queued, unless it lost the probe in
between: that is what `unsaid` remembers, and what the invariant, like the property,
excepts.

*Why `SpeaksInv`.* The silence is measured at the monitor and filled at the board. Between them:
a signal strength that is not due was sent since the last tick; during a scan only
the keepalive was sent, and the silence is no longer than the scan so far.

*The refinements of `ProbeLink`* need no invariant: each place of a loop maps to a
place of the contract, and what is done there to the flags is what the contract
allows.

*The estimates.* The theorems of `EtaModelProofs` follow from three invariants that
are inductive one by one: there is a reading when the Monitor says so (`MonitorInv`),
readings are whole and none is from the future (`ReadingsInv`), and the model holds what
finished cooks teach (`LearnedInv`). The rest is data, and its lemmas are by induction:
the library's induction theorems take an operator and cannot be used, but a set of
naturals has a least element (`LeastNatural`), and a family of sets that holds the empty
one, and each set it holds with an element more, holds every finite set
(`FiniteInduction`).

- A fraction has one form in lowest terms, and so equal numbers are equal pairs; this
  orders them totally (`OrderOfQ`) and lets a comparison with a `Ratio` be multiplied out
  (`RatioCompares`).
- A sum over a window unfolds one reading at a time (`SumUnfolds`), and is linear.
- *Physics.* The modelled logarithm times the gap is at least the way to the target,
  2g(g-h)/(g+h) >= g-h, as the gap now, g, is not below the gap at the target, h.
- *The fit.* The slope is the quotient of two covariances, of time with temperature and
  of time with itself (`FitIsQuotient`). Were every pair of readings steeper than it, what
  remains of the temperature after taking off the fitted line would rise with time
  (`MovingTogether`: a positive covariance), while by linearity its covariance with time
  is zero (`NotBeyondPairs`); likewise were every pair flatter.
- *Sorting.* `Ordered` puts at place k the element with k - 1 before it; it lists each
  element once, in order (`OrderedSorts`).
- *The curve.* The readings it keeps are those warmer than all before, so the first
  reading at or above a temperature is one of them, and so is the warmest before it;
  interpolating between two points of a line stays between them and is monotone, and the
  extrapolation starts where the curve ends.
- *The status.* The median lies within the sorted estimates (`MedianIs`), the weight of
  the blend is between 0 and 1 (`WeightIsShare`), and tempering by one such weight keeps
  order (`TemperedInOrder`). A climb past the target rounds to a full bar (`BarIsFull`);
  a bar that rounds to full lacks at most half a step of the climb (`FullIsAlmost`).

*Model-checked only.* Liveness: fairness and ENABLED are beyond the prover. Every
invariant and every step property that a passing run checks is a theorem. Of the
invariants, `NewtonIsLonger` is proved for the modelled logarithm, and that the code's
is not below it is analysis, outside of both tools.

## 5. Where code and comments part ways

With a violation run, and a finding in `PROJECT.json`:

- `session_late_reading`: `Update` does not look at `running`, so a late reading
  opens a cook after Stop, which is said to end it (monitor.go:211 against 391).
- `session_janitor_resumed`: the janitor counts the silence before a restart and
  ends the cook just resumed (main.go:107-110 against monitor.go:301).
- `eta_stall`: on the plateau `statusLocked` reports a stall before it asks the past
  cooks, which "carry the cook through the stall" (monitor.go:693-694 and
  history.go:233-235 against monitor.go:686).

Met while modelling, in the modules but without a run of their own:

- *Prune* works out the kept cooks once per statement: an EndCook between its two
  leaves samples without a cook (store.go:361 against 373). A sample appended after
  its cook was ended and deleted ends up the same way. No code reads such rows.
- *Startup.* A failed query returns before `EnableDiscovery`, so the app stays idle
  in the middle of a cook (main.go:117-118 against 121-123).
- *Concurrent notifications* may be recorded in the opposite order of their times,
  so that the history is not "oldest first" (monitor.go:576 against 388).
- *The feed.* A full channel turns the newest status away, and broadcasts overtake
  each other: a client does not "simply miss intermediate updates", it may stay
  behind until the next one (monitor.go:610-611 against 618).
- *The janitor's window* (monitor.go:546-555): the monitor's cook is a finished row,
  which `DeleteCook` accepts although it "refuses to delete the currently active
  cook" (513). The janitor also ends a cook that had a reading after it looked.
- *After Stop* `history` is kept, so `CookStartedAt` is not "zero when no cook is
  open" (monitor.go:104).
- *Labels.* Two setters of one label may reach the row in the opposite order of
  memory (monitor.go:435-446), so that a restart brings the older value back. A
  target of 0 is accepted and stored (server.go:239), and taken for none by
  `Resume` (monitor.go:287). `handleSessionStart` sets the meat type
  after the start, not "before starting" (server.go:187-189), so a reading in between
  opens the cook without it and the row gets it by an update.
- *The scan* is not always aborted "immediately" on Stop (ble.go:234): an abort that
  comes before the adapter scans is an error nobody looks at.
- *The bridge* is said to guarantee "a line at least every ~10s" (bridge.go:65-67):
  while the board connects to a probe it sends nothing for as long as its BLE
  library takes. `WorkingBoardSpeaks` excepts that state, and `SilenceNoticed`
  then hangs up on a board at work.
- *The board* resets `reported` per client so that "the client must never have to
  infer" the probe's state (main.cpp:316-317). A probe lost after its first payload
  and before the look at main.cpp:346 leaves a reading to be drained, and with it
  "connected", that no status line takes back until the next change: the client shows
  a probe connected that the board is scanning for. `ScanningIsKnown` excepts this case
  by `unsaid`, and that it holds says that this is the only one; without that conjunct
  TLC finds it violated in 25 steps.
- *The bar* reads 100.0 before the cook is ready, for the last 0.05 % of the climb
  (`round1`, monitor.go:735): from 20 to 95 °C, at 94.97 °C. `StatusCoherent` allows
  that much and no more.
- *The janitor and the loader* change what a status shows, the chart cleared
  (monitor.go:552-556) and the model swapped (history.go:63-65), without a broadcast:
  clients see it with the next one. `NewestAccountedFor` is about changes that are
  broadcast.
- *dbStats* "keeps serving the last good values" after an error
  (metrics.go:345-347), but `Collect` shows them only if the query went well (337).

## 6. What is left out

- *Clients* (web, iOS, Home Assistant): presentation of what the server sends; no
  state the server depends on. Their own hazards (a fetched history that arrives
  after a new cook, an answer to an old stream generation) are listed in
  `PROJECT.json` without a property.
- *Probe decoding*: a total function of six bytes, tested by a table of vectors.
- *Formatting, logging, request parsing, export, the read-only requests, metrics
  other than the cached counts*: no state.
- *Peaks and maxima* of a cook, `CookStartedAt`, `ElapsedSeconds`: data that no
  property tells apart.
- *float64*: `EtaModel` is exact; a comparison decided by the rounding of a float is
  not covered. The explicit rounding of the bar (`round1`) is modelled.
- *`-timeout`* (ble.go:215-217, off by default) ends the process. `-connect-retries 0`
  makes `connectWithRetries` return no device and no error (ble.go:268-283); `BleLink`
  assumes at least one attempt.
- *Writers of `StoreReaders`*: the janitor's pass (EndCook, Prune, clear, load;
  monitor.go:545-557) and failures of the writers' own statements are in `CookSession`
  and not there. A prune that comes with a load is, by way of the requests.
- *SQL transactions*: the code uses none, each statement commits by itself.
- *SQLite's durability*: a statement that returned has survived a crash.
- *SwiftUI views, widgets, CSS, the TLS and redirect listeners, packaging*: they keep
  no state whose interleaving matters.

## 7. Plan

Done: the session, the labels, the readers of the store, both links and the board,
the estimates, the feed; theorems for every safety property that a run checks.

To come, the most important first:

1. `Clients`: stream generations and history loads of the web and iOS clients, alert
   latches, the Live Activity, the Home Assistant poll.
