------------------------------ MODULE BridgeLink ------------------------------
(***************************************************************************)
(* The link through the ESP32 bridge: runBridge and its watchdog           *)
(* (bridge.go), the TCP connection, and the loop of the board              *)
(* (firmware/src/main.cpp) with the tasks that interrupt it.               *)
(*                                                                         *)
(* A tick of the clock is the length of a scan on the board, ten seconds;  *)
(* what takes less than one takes no time.  Lines arrive within a tick     *)
(* unless the board or the network is wedged.                              *)
(***************************************************************************)
EXTENDS Integers, Sequences, SequencesExt

CONSTANTS
    StaleTicks,       \* bridgeStaleAfter
    ConnectTicks,     \* how long the board's BLE library tries to connect
    AutoAddress,      \* TRUE: -bridge auto, the address is browsed for
    QueueLen,         \* payloadQueue
    WireCap           \* bound on the lines in flight: a write blocks on a full socket

ASSUME TicksPositive == StaleTicks \in Nat \ {0} /\ ConnectTicks \in Nat \ {0}
ASSUME SwitchBoolean == AutoAddress \in BOOLEAN
ASSUME CapsPositive == QueueLen \in Nat \ {0} /\ WireCap \in Nat \ {0}

VARIABLES
    running, connected, bridgeConnected, hasRSSI, \* the Monitor
    loop, stopClosed,          \* runBridge and the stop channel it holds
    watchdog, stalled, silence, \* streamBridge's goroutine, its verdict, and
                               \* the ticks since lastUpdate
    sock, wire,                \* the socket; the lines the board has written to it
    board, serves, reported,   \* loop() on the board, its client, its last status
    busy,                      \* ticks spent in the blocking call it is in
    rssiDue,                   \* kRssiIntervalMs have passed
    probe, queue,              \* the BLE link; payloads posted by onNotify
    alive,                     \* FALSE: the board or the network is wedged
    unsaid                     \* history variable: a probe was lost after its first
                               \* payload and before the status, and no status line
                               \* has been sent since

monVars == <<running, connected, bridgeConnected, hasRSSI>>
goVars == <<loop, stopClosed, watchdog, stalled, silence>>
boardVars == <<board, serves, reported, busy, rssiDue, probe, queue, unsaid>>
vars == <<monVars, goVars, sock, wire, boardVars, alive>>

Lines == {"connected", "disconnected", "R", "T", "comment"}

LoopPCs == {"parked", "woken", "dialing", "browsing", "connecting", "retrying",
            "dialed", "streaming", "ended", "closing"}

TypeOK ==
    /\ running \in BOOLEAN /\ connected \in BOOLEAN
    /\ bridgeConnected \in BOOLEAN /\ hasRSSI \in BOOLEAN
    /\ loop \in LoopPCs /\ stopClosed \in BOOLEAN
    /\ watchdog \in {"off", "watching", "closing"}
    /\ stalled \in {"empty", "stop", "stale"}
    /\ silence \in 0 .. StaleTicks + 1
    /\ sock \in {"open", "reset", "closed"}
    /\ wire \in Seq(Lines)
    /\ board \in {"waiting", "top", "scanning", "attaching", "reporting", "measuring",
                  "draining"}
    /\ serves \in {"nobody", "old", "current"}
    /\ reported \in {"nothing", "connected", "disconnected"}
    /\ busy \in Nat /\ rssiDue \in BOOLEAN
    /\ probe \in {"off", "linked", "subscribed"}
    /\ queue \in 0 .. QueueLen
    /\ alive \in BOOLEAN /\ unsaid \in BOOLEAN

BoardInit ==
    /\ board = "waiting" /\ serves = "nobody" /\ reported = "nothing"
    /\ busy = 0 /\ rssiDue = FALSE /\ probe = "off" /\ queue = 0 /\ unsaid = FALSE

Init ==
    /\ running = FALSE /\ connected = FALSE
    /\ bridgeConnected = FALSE /\ hasRSSI = FALSE
    /\ loop = "parked" /\ stopClosed = TRUE
    /\ watchdog = "off" /\ stalled = "empty" /\ silence = 0
    /\ sock = "closed" /\ wire = <<>>
    /\ BoardInit
    /\ alive = TRUE

-----------------------------------------------------------------------------
(* The Monitor's side: handlers *)

Start ==
    /\ ~running /\ running' = TRUE
    /\ UNCHANGED <<connected, bridgeConnected, hasRSSI, goVars, sock, wire, boardVars, alive>>

Stop ==
    /\ running /\ running' = FALSE
    /\ stopClosed' = TRUE
    /\ connected' = FALSE /\ bridgeConnected' = FALSE /\ hasRSSI' = FALSE
    /\ UNCHANGED <<loop, watchdog, stalled, silence, sock, wire, boardVars, alive>>

-----------------------------------------------------------------------------
(* runBridge and dialBridge *)

LoopGoes(from, to) == loop = from /\ loop' = to

LoopMoves(from, to) ==
    /\ LoopGoes(from, to)
    /\ UNCHANGED <<monVars, stopClosed, watchdog, stalled, silence, sock, wire,
                   boardVars, alive>>

Wake == running /\ LoopMoves("parked", "woken")

\* (Bug: a Stop since the wait goes unnoticed.)
TakeFreshStopChan ==
    /\ LoopGoes("woken", "dialing")
    /\ stopClosed' = FALSE
    /\ UNCHANGED <<monVars, watchdog, stalled, silence, sock, wire, boardVars, alive>>

TakeStopChan ==
    /\ LoopGoes("woken", "dialing")
    /\ stopClosed' = ~running
    /\ UNCHANGED <<monVars, watchdog, stalled, silence, sock, wire, boardVars, alive>>

\* The top of the dial loop looks at stop once, then browses or dials.
DialTop ==
    \/ stopClosed /\ LoopMoves("dialing", "parked")
    \/ ~stopClosed /\ LoopMoves("dialing", IF AutoAddress THEN "browsing" ELSE "connecting")

\* A service with a usable endpoint is found, or none before the timeout, or
\* Stop cancels the browse.
DiscoverBridge ==
    \/ stopClosed /\ LoopMoves("browsing", "parked")
    \/ LoopMoves("browsing", "connecting")
    \/ LoopMoves("browsing", "retrying")

\* DialTimeout does not look at stop.
DialFails == LoopMoves("connecting", "retrying")

DialSucceeds ==
    /\ LoopGoes("connecting", "dialed")
    /\ sock' = "open" /\ wire' = <<>>
    /\ serves' = IF serves = "nobody" THEN "nobody" ELSE "old"
    /\ UNCHANGED <<monVars, stopClosed, watchdog, stalled, silence, board, reported,
                   busy, rssiDue, probe, queue, unsaid, alive>>

WaitForBridgeRetry ==
    \/ stopClosed /\ LoopMoves("retrying", "parked")
    \/ LoopMoves("retrying", "dialing")

\* SetBridgeConnected(true), then streamBridge starts its watchdog.
StreamBegins ==
    /\ LoopGoes("dialed", "streaming")
    /\ bridgeConnected' = TRUE
    /\ watchdog' = "watching" /\ stalled' = "empty" /\ silence' = 0
    /\ UNCHANGED <<running, connected, hasRSSI, stopClosed, sock, wire, boardVars, alive>>

\* conn.Close and SetBridgeConnected(false); then SetConnected(false).
CloseBridge ==
    /\ LoopGoes("ended", "closing")
    /\ sock' = "closed"
    /\ bridgeConnected' = FALSE /\ hasRSSI' = FALSE
    /\ UNCHANGED <<running, connected, stopClosed, watchdog, stalled, silence, wire,
                   boardVars, alive>>

Disconnect ==
    /\ LoopGoes("closing", "parked")
    /\ connected' = FALSE /\ hasRSSI' = FALSE
    /\ UNCHANGED <<running, bridgeConnected, stopClosed, watchdog, stalled, silence,
                   sock, wire, boardVars, alive>>

-----------------------------------------------------------------------------
(* streamBridge: the scanner *)

\* (Bug: SetConnected(false) leaves the RSSI.)
HearKeepsRSSI(line) ==
    /\ connected' = CASE line \in {"connected", "T"} -> TRUE
                      [] line = "disconnected" -> FALSE
                      [] OTHER -> connected
    /\ hasRSSI' = (hasRSSI \/ line = "R")

\* What a line tells the Monitor.  Update sets connected; SetConnected(false)
\* clears the RSSI.
Hear(line) ==
    /\ connected' = CASE line \in {"connected", "T"} -> TRUE
                      [] line = "disconnected" -> FALSE
                      [] OTHER -> connected
    /\ hasRSSI' = CASE line = "R" -> TRUE
                    [] line = "disconnected" -> FALSE
                    [] OTHER -> hasRSSI

\* Any line proves the board alive.  Lines that were buffered before the
\* watchdog closed the socket are still read.
ScanLine ==
    /\ loop = "streaming" /\ wire # <<>>
    /\ wire' = Tail(wire)
    /\ \/ Hear(Head(wire))
       \/ Head(wire) \in {"T", "R"} /\ UNCHANGED <<connected, hasRSSI>>  \* undecodable
    /\ silence' = 0
    /\ UNCHANGED <<running, bridgeConnected, loop, stopClosed, watchdog, stalled, sock,
                   boardVars, alive>>

\* The scanner fails on the closed socket, or finds the end of the stream.
\* Returning closes done.
StreamEnds ==
    /\ LoopGoes("streaming", "ended")
    /\ \/ sock = "closed"
       \/ sock = "reset" /\ wire = <<>>
    /\ watchdog' = "off"
    /\ UNCHANGED <<monVars, stopClosed, stalled, silence, sock, wire, boardVars, alive>>

(* streamBridge: the watchdog, which leaves its verdict and then closes the socket *)

Verdict(v) ==
    /\ watchdog = "watching" /\ watchdog' = "closing" /\ stalled' = v
    /\ UNCHANGED <<monVars, loop, stopClosed, silence, sock, wire, boardVars, alive>>

\* (Bug: nobody watches the stop channel.)
WatchStopNever == FALSE /\ Verdict("stop")
WatchStop == stopClosed /\ Verdict("stop")

\* (Bug: a board that has gone silent is waited for.)
WatchSilenceNever == FALSE /\ Verdict("stale")
WatchSilence == silence > StaleTicks /\ Verdict("stale")

WatchCloses ==
    /\ watchdog = "closing" /\ watchdog' = "off"
    /\ sock' = "closed"
    /\ UNCHANGED <<monVars, loop, stopClosed, stalled, silence, wire, boardVars, alive>>

-----------------------------------------------------------------------------
(* The board: loop() *)

ClientUp == serves = "current" /\ sock = "open"

\* A client that is gone gets nothing.
Send(lines) ==
    /\ ClientUp => Len(wire) + Len(lines) <= WireCap
    /\ wire' = IF ClientUp THEN wire \o lines ELSE wire

BoardGoes(from, to) ==
    /\ alive /\ board = from /\ board' = to
    /\ UNCHANGED <<monVars, goVars, sock, alive>>

\* One client is served at a time; another one waits for its turn.
BoardAccepts ==
    /\ sock = "open" /\ serves = "nobody"
    /\ BoardGoes("waiting", "top")
    /\ serves' = "current" /\ wire' = Append(wire, "comment")
    /\ queue' = 0 /\ reported' = "nothing" /\ unsaid' = FALSE
    /\ UNCHANGED <<busy, rssiDue, probe>>

\* (Bug: the board keeps the client that is gone.)
BoardKeepsClient ==
    /\ ~ClientUp
    /\ BoardGoes("top", "waiting")
    /\ UNCHANGED <<serves, probe, wire, reported, busy, rssiDue, queue, unsaid>>

\* The probe is released; its link takes a moment to end.
BoardReleases ==
    /\ ~ClientUp
    /\ BoardGoes("top", "waiting")
    /\ serves' = "nobody"
    /\ probe' \in {"off", IF probe = "off" THEN "off" ELSE "linked"}
    /\ UNCHANGED <<wire, reported, busy, rssiDue, queue, unsaid>>

\* (Bug: no keepalive before a scan.)
BoardScansSilently ==
    /\ ClientUp /\ probe = "off"
    /\ BoardGoes("top", "scanning")
    /\ Send(IF reported # "disconnected" THEN <<"disconnected">> ELSE <<>>)
    /\ reported' = "disconnected" /\ busy' = 0
    /\ unsaid' = (unsaid /\ reported = "disconnected")
    /\ UNCHANGED <<serves, rssiDue, probe, queue>>

\* (Bug: a lost probe is taken to be reported.)
BoardScansUnreported ==
    /\ ClientUp /\ probe = "off"
    /\ BoardGoes("top", "scanning")
    /\ Send(IF reported = "nothing" THEN <<"disconnected", "comment">> ELSE <<"comment">>)
    /\ reported' = "disconnected" /\ busy' = 0
    /\ unsaid' = (unsaid /\ reported = "disconnected")
    /\ UNCHANGED <<serves, rssiDue, probe, queue>>

\* No probe: say so once, send the keepalive, scan.
BoardScans ==
    /\ ClientUp /\ probe = "off"
    /\ BoardGoes("top", "scanning")
    /\ Send(IF reported # "disconnected" THEN <<"disconnected", "comment">> ELSE <<"comment">>)
    /\ reported' = "disconnected" /\ busy' = 0
    /\ unsaid' = (unsaid /\ reported = "disconnected")
    /\ UNCHANGED <<serves, rssiDue, probe, queue>>

BoardHasProbe ==
    /\ ClientUp /\ probe # "off"
    /\ BoardGoes("top", "reporting")
    /\ UNCHANGED <<serves, reported, wire, busy, rssiDue, probe, queue, unsaid>>

\* findProbe blocks for the whole scan; a client that left meanwhile ends the
\* serving, otherwise a probe that was found is connected to.
ScanEnds ==
    /\ busy = 1
    /\ \/ BoardGoes("scanning", "top")
       \/ ClientUp /\ BoardGoes("scanning", "attaching")
    /\ busy' = 0
    /\ UNCHANGED <<serves, reported, wire, rssiDue, probe, queue, unsaid>>

\* connectProbe.  A failure past the connection disconnects, which takes a moment.
ConnectProbe ==
    /\ \/ BoardGoes("attaching", "reporting") /\ probe' = "subscribed"
       \/ BoardGoes("attaching", "top") /\ probe' \in {"off", "linked"}
    /\ busy' = 0
    /\ UNCHANGED <<serves, reported, wire, rssiDue, queue, unsaid>>

\* The status, once per connection; a signal strength is then due at once.
BoardReports ==
    /\ BoardGoes("reporting", "measuring")
    /\ LET fresh == probe # "off" /\ reported # "connected"
       IN  /\ Send(IF fresh THEN <<"connected">> ELSE <<>>)
           /\ reported' = IF fresh THEN "connected" ELSE reported
           /\ rssiDue' = (rssiDue \/ fresh)
           /\ unsaid' = (unsaid /\ ~fresh)
    /\ UNCHANGED <<serves, busy, probe, queue>>

\* The signal strength, of a probe that is still there, every so often.
BoardMeasures ==
    /\ BoardGoes("measuring", "draining")
    /\ Send(IF probe # "off" /\ rssiDue THEN <<"R">> ELSE <<>>)
    /\ rssiDue' = (rssiDue /\ probe = "off")
    /\ UNCHANGED <<serves, reported, busy, probe, queue, unsaid>>

\* Send what the queue holds, until it stays empty or the client is gone.
Drain ==
    \/ /\ queue > 0
       /\ BoardGoes("draining", IF ClientUp THEN "draining" ELSE "top")
       /\ Send(<<"T">>)
       /\ queue' = queue - 1
       /\ UNCHANGED <<serves, reported, busy, rssiDue, probe, unsaid>>
    \/ /\ queue = 0
       /\ BoardGoes("draining", "top")
       /\ UNCHANGED <<serves, reported, wire, busy, rssiDue, probe, queue, unsaid>>

(* The board: the BLE task *)

\* (Bug: a full queue grows.)
OnNotifyUnbounded ==
    /\ alive /\ probe = "subscribed"
    /\ queue' = queue + 1
    /\ UNCHANGED <<monVars, goVars, sock, wire, board, serves, reported, busy, rssiDue,
                   probe, unsaid, alive>>

\* onNotify posts, or drops when the queue is full.
OnNotify ==
    /\ alive /\ probe = "subscribed"
    /\ queue' = IF queue < QueueLen THEN queue + 1 ELSE queue
    /\ UNCHANGED <<monVars, goVars, sock, wire, board, serves, reported, busy, rssiDue,
                   probe, unsaid, alive>>

FirstPayloadUnreported == board = "reporting" /\ reported # "connected" /\ queue > 0

\* onDisconnect comes when it comes; the loop polls the flag.
OnDisconnect ==
    /\ alive /\ probe # "off"
    /\ probe' = "off" /\ unsaid' = (unsaid \/ FirstPayloadUnreported)
    /\ UNCHANGED <<monVars, goVars, sock, wire, board, serves, reported, busy, rssiDue,
                   queue, alive>>

-----------------------------------------------------------------------------
(* Faults and time *)

Wedge ==
    /\ alive /\ alive' = FALSE
    /\ UNCHANGED <<monVars, goVars, sock, wire, boardVars>>

\* The board restarts: its client reads to the end of the stream, or an error.
BoardRestarts ==
    /\ board' = "waiting" /\ serves' = "nobody" /\ reported' = "nothing"
    /\ busy' = 0 /\ rssiDue' = FALSE /\ probe' = "off" /\ queue' = 0 /\ unsaid' = FALSE
    /\ sock' = IF sock = "open" THEN "reset" ELSE sock
    /\ alive' = TRUE
    /\ UNCHANGED <<monVars, goVars, wire>>

\* A board that is not wedged has sent what it has to, and it has arrived.
BoardQuiet ==
    \/ board = "waiting" /\ (sock = "open" => serves # "nobody")
    \/ board = "scanning" /\ busy < 1
    \/ board = "attaching" /\ busy < ConnectTicks
    \/ board = "draining" /\ queue = 0 /\ probe # "off" /\ ~rssiDue

Tick ==
    /\ alive => BoardQuiet
    /\ loop = "streaming" => wire = <<>>
    /\ silence' = IF silence > StaleTicks THEN silence ELSE silence + 1
    /\ busy' = IF board \in {"scanning", "attaching"} /\ alive THEN busy + 1 ELSE busy
    /\ rssiDue' = TRUE
    /\ UNCHANGED <<monVars, loop, stopClosed, watchdog, stalled, sock, wire, board,
                   serves, reported, probe, queue, unsaid, alive>>

-----------------------------------------------------------------------------
Go ==
    \/ Wake \/ TakeStopChan
    \/ DialTop \/ DiscoverBridge \/ DialFails \/ DialSucceeds \/ WaitForBridgeRetry
    \/ StreamBegins \/ ScanLine \/ StreamEnds \/ CloseBridge \/ Disconnect

Watchdog == WatchStop \/ WatchSilence \/ WatchCloses

Board ==
    \/ BoardAccepts \/ BoardReleases \/ BoardScans \/ BoardHasProbe \/ ScanEnds
    \/ ConnectProbe \/ BoardReports \/ BoardMeasures \/ Drain

Next ==
    \/ Start \/ Stop
    \/ Go
    \/ Watchdog
    \/ Board \/ OnNotify \/ OnDisconnect
    \/ Wedge \/ BoardRestarts
    \/ Tick

Spec == Init /\ [][Next]_vars

-----------------------------------------------------------------------------
(* Safety *)

\* Whatever lines were still buffered when the watchdog closed the socket, and
\* however Stop fell in between, no flag of the Monitor outlives the stream that
\* set it (runBridge's two calls after conn.Close).
FlagsFollowSocket ==
    /\ loop \notin {"streaming", "ended"} => ~bridgeConnected /\ ~hasRSSI
    /\ loop \notin {"streaming", "ended", "closing"} => ~connected

\* Unless Stop has cleared the flags under it, a signal strength is that of a
\* probe reported connected: the board's order of status and RSSI lines survives
\* drops of the probe, clients that take turns and buffered lines.
RssiHasProbe == hasRSSI /\ ~stopClosed => connected

\* A client whose lines are all read, while the board scans for it, reports no probe:
\* the status once per change is enough, whatever readings, drops, restarts and other
\* clients came before.  That it "must never have to infer" the status (main.cpp:316-317)
\* is not so where a probe was lost between its first payload and the look at the flag
\* (346): the reading then stands for a probe until the board has a status to send again.
ScanningIsKnown ==
    board = "scanning" /\ ClientUp /\ loop = "streaming" /\ wire = <<>> /\ ~unsaid
        => ~connected

\* The keepalives, and the signal strength of a probe that sends nothing, carry a
\* stream through any number of scans and gaps: a board at work, not held up in
\* connecting to the probe, is never silent for longer than a scan.
WorkingBoardSpeaks ==
    alive /\ BoardQuiet /\ board # "attaching" /\ ClientUp
    /\ loop = "streaming" /\ wire = <<>> => silence <= 1

Link == INSTANCE ProbeLink WITH
    Async <- FALSE,
    link <- CASE loop \in {"parked", "woken", "streaming"} -> loop
              [] loop \in {"ended", "closing"} -> "closing"
              [] loop = "dialed" -> "streaming"
              [] OTHER -> "dialing"

\* The bridge keeps the contract of a link.
ImplementsLink == Link!Spec

-----------------------------------------------------------------------------
(* Liveness.  Goroutines run; dials and browses time out; the board's calls    *)
(* return and time passes; a bridge that is tried again and again is found.    *)
(* Handlers, the probe and faults owe nothing.                                 *)
Fairness ==
    /\ WF_vars(Go)
    /\ WF_vars(StreamEnds)
    /\ WF_vars(Watchdog)
    /\ WF_vars(Board)
    /\ WF_vars(Tick)
    /\ SF_vars(LoopMoves("browsing", "connecting"))
    /\ SF_vars(DialSucceeds)

FairSpec == Spec /\ Fairness

\* Stop hangs up, wherever it finds the link: the owner parks with every flag
\* cleared.
StopHangsUp ==
    ~running ~> (running \/ (loop = "parked" /\ ~bridgeConnected /\ ~connected))

\* A board that has stopped talking is noticed.
SilenceNoticed == (loop = "streaming" /\ ~alive) ~> (loop # "streaming" \/ alive)

\* The redials do not chase their own tail: a board that works comes back from
\* the client before, whatever scan or connection that one left it in, and
\* serves the next, unless it keeps restarting.
ClientServed ==
    <>[][~BoardRestarts]_vars => (running ~> (ClientUp \/ ~running \/ ~alive))

=============================================================================
