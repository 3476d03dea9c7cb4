-------------------------------- MODULE BleLink --------------------------------
(***************************************************************************)
(* The link through this host's Bluetooth adapter: runBLE with             *)
(* findAndConnect, scanOnce, connectWithRetries, connectWithTimeout and    *)
(* streamUntilStale (ble.go), ensureConnected (bluez_linux.go), and as     *)
(* much of BlueZ as they rely on.                                          *)
(*                                                                         *)
(* A tick of the clock is the five seconds between two looks at the age of *)
(* the last reading.                                                       *)
(***************************************************************************)
EXTENDS Integers

CONSTANTS
    ConnectRetries,    \* -connect-retries
    DiscoveryAttempts, \* attempts of streamUntilStale to discover services
    StaleTicks,        \* 20 seconds without a reading
    MaxAbandoned       \* bound on the calls of Connect that are given up and still wait

ASSUME CountsPositive ==
    ConnectRetries \in Nat \ {0} /\ DiscoveryAttempts \in Nat \ {0} /\ StaleTicks \in Nat \ {0}
ASSUME MaxAbandonedNat == MaxAbandoned \in Nat

VARIABLES
    running, connected, \* the Monitor
    loop, stopClosed,   \* runBLE and the stop channel it holds
    attempt,            \* of connecting, then of discovering services
    device,             \* the probe as BlueZ has it: no link, a link, a link
                        \* with its services resolved
    abandoned,          \* calls of Connect given up that have not returned
    subscribed,         \* EnableNotifications is in effect
    callback,           \* a notification is being delivered
    silence             \* ticks since lastUpdate

monVars == <<running, connected>>
streamVars == <<subscribed, callback, silence>>
vars == <<monVars, loop, stopClosed, attempt, device, abandoned, streamVars>>

LoopPCs == {"parked", "woken", "finding", "scanning", "found", "connecting", "hung", "again",
            "obtained", "discovering", "streaming", "closing", "closed"}

TypeOK ==
    /\ running \in BOOLEAN /\ connected \in BOOLEAN
    /\ loop \in LoopPCs /\ stopClosed \in BOOLEAN
    /\ attempt \in 1 .. ConnectRetries \cup 1 .. DiscoveryAttempts
    /\ device \in {"off", "linked", "resolved"}
    /\ abandoned \in 0 .. MaxAbandoned
    /\ subscribed \in BOOLEAN /\ callback \in BOOLEAN
    /\ silence \in 0 .. StaleTicks + 1

Init ==
    /\ running = FALSE /\ connected = FALSE
    /\ loop = "parked" /\ stopClosed = TRUE
    /\ attempt = 1
    /\ device = "off" /\ abandoned = 0
    /\ subscribed = FALSE /\ callback = FALSE /\ silence = 0

-----------------------------------------------------------------------------
(* The Monitor's side: handlers *)

Start ==
    /\ ~running /\ running' = TRUE
    /\ UNCHANGED <<connected, loop, stopClosed, attempt, device, abandoned,
                   streamVars>>

Stop ==
    /\ running /\ running' = FALSE
    /\ stopClosed' = TRUE /\ connected' = FALSE
    /\ UNCHANGED <<loop, attempt, device, abandoned, streamVars>>

-----------------------------------------------------------------------------
(* runBLE and findAndConnect *)

LoopGoes(from, to) == loop = from /\ loop' = to

LoopMoves(from, to) ==
    /\ LoopGoes(from, to)
    /\ UNCHANGED <<monVars, stopClosed, attempt, device, abandoned, streamVars>>

Wake == running /\ LoopMoves("parked", "woken")

TakeStopChan ==
    /\ LoopGoes("woken", "finding")
    /\ stopClosed' = ~running
    /\ UNCHANGED <<monVars, attempt, device, abandoned, streamVars>>

\* The top of the loop looks at stop.
FindTop ==
    \/ stopClosed /\ LoopMoves("finding", "parked")
    \/ ~stopClosed /\ LoopMoves("finding", "scanning")

(* scanOnce: StopScan and a wait, then Scan, with the timer and the goroutine that *)
(* waits for stop set to end it.  The abort may come before the adapter scans, and *)
(* is then an error nobody looks at: the scan runs for its whole window.           *)

ScanStops(to) ==
    /\ LoopGoes("scanning", to) /\ attempt' = 1
    /\ UNCHANGED <<monVars, stopClosed, device, abandoned, streamVars>>

\* A match was seen, also one seen just before the abort.
ScanFinds == ScanStops("found")

\* The window has elapsed or the scan was aborted; the caller looks at stop.
ScanFindsNothing == ScanStops("again")

\* The adapter refuses to scan: wait and go to the top.
ScanFails == LoopMoves("scanning", "finding")

\* (Bug: findAndConnect gives up after one round.)
BailAlways == LoopMoves("again", "parked")

\* (-timeout, off by default, would end the process here.)
Bail ==
    \/ stopClosed /\ LoopMoves("again", "parked")
    \/ ~stopClosed /\ LoopMoves("again", "finding")

-----------------------------------------------------------------------------
(* The connection *)

LinkTo(d) == device' = d /\ subscribed' = (subscribed /\ d # "off")

\* ensureConnected: a half-open link is cleared, a new one made and waited for
\* until its services are resolved.  Whatever comes of it, even nothing, as on
\* another system than Linux, the caller goes on to connect.
EnsureConnected ==
    /\ LoopGoes("found", "connecting")
    /\ \E d \in IF device = "resolved" THEN {device} ELSE {"off", "linked", "resolved"} :
           LinkTo(d)
    /\ UNCHANGED <<monVars, stopClosed, attempt, abandoned, callback, silence>>

\* Connect returns at once when BlueZ reports a link.
ConnectSucceeds ==
    /\ LoopGoes("connecting", "obtained")
    /\ \E d \in IF device = "off" THEN {"linked", "resolved"} ELSE {device} : LinkTo(d)
    /\ attempt' = 1
    /\ UNCHANGED <<monVars, stopClosed, abandoned, callback, silence>>

\* The next attempt; after the last one, the look at stop.
TryAgain ==
    IF attempt < ConnectRetries
    THEN loop' = "connecting" /\ attempt' = attempt + 1
    ELSE loop' = "again" /\ attempt' = 1

ConnectFails ==
    /\ loop = "connecting" /\ TryAgain
    /\ UNCHANGED <<monVars, stopClosed, device, abandoned, streamVars>>

\* The signal that the device is connected is missed, and Connect waits for it.
ConnectHangs == abandoned < MaxAbandoned /\ LoopMoves("connecting", "hung")

\* (Bug: Connect is called without a timeout.)
ConnectWaitsForever ==
    /\ FALSE /\ loop = "hung" /\ TryAgain
    /\ abandoned' = abandoned + 1
    /\ UNCHANGED <<monVars, stopClosed, device, streamVars>>

ConnectTimesOut ==
    /\ loop = "hung" /\ TryAgain
    /\ abandoned' = abandoned + 1
    /\ UNCHANGED <<monVars, stopClosed, device, streamVars>>

\* A call given up returns after all, by the signal of whatever attempt connected
\* the device since, and is cleaned up; or it fails.
AbandonedReturns ==
    /\ abandoned > 0 /\ abandoned' = abandoned - 1
    /\ device # "off" /\ LinkTo("off")
    /\ UNCHANGED <<monVars, loop, stopClosed, attempt, callback, silence>>

AbandonedFails ==
    /\ abandoned > 0 /\ abandoned' = abandoned - 1
    /\ UNCHANGED <<monVars, loop, stopClosed, attempt, device, streamVars>>

ReportConnected ==
    /\ LoopGoes("obtained", "discovering") /\ connected' = TRUE
    /\ UNCHANGED <<running, stopClosed, attempt, device, abandoned, streamVars>>

-----------------------------------------------------------------------------
(* streamUntilStale *)

\* (Bug: the attempts are not counted.)
DiscoveryRetriesUnbounded ==
    /\ loop = "discovering" /\ attempt' = attempt + 1
    /\ UNCHANGED <<monVars, loop, stopClosed, device, abandoned, streamVars>>

\* No services: try again, without a look at stop, or give the link up.
DiscoveryRetries ==
    /\ loop = "discovering" /\ attempt < DiscoveryAttempts /\ attempt' = attempt + 1
    /\ UNCHANGED <<monVars, loop, stopClosed, device, abandoned, streamVars>>

\* After the last attempt, or at the characteristic, or at its notifications.
DiscoveryFails ==
    /\ attempt = DiscoveryAttempts \/ device = "resolved"
    /\ LoopMoves("discovering", "closing")

StreamBegins ==
    /\ device = "resolved" /\ LoopGoes("discovering", "streaming")
    /\ subscribed' = TRUE /\ silence' = 0
    /\ UNCHANGED <<monVars, stopClosed, attempt, device, abandoned, callback>>

\* (Bug: the loop waits for its timer only.)
StreamIgnoresStop == FALSE /\ LoopMoves("streaming", "closing")
StreamStops == stopClosed /\ LoopMoves("streaming", "closing")

\* (Bug: the age of the last reading is not looked at.)
StreamIgnoresSilence == FALSE /\ LoopMoves("streaming", "closing")
StreamStale == silence > StaleTicks /\ LoopMoves("streaming", "closing")

\* conn.Disconnect, whose error is not looked at.
Disconnect ==
    /\ LoopGoes("closing", "closed")
    /\ \E d \in {device, "off"} : LinkTo(d)
    /\ UNCHANGED <<monVars, stopClosed, attempt, abandoned, callback, silence>>

ReportDisconnected ==
    /\ LoopGoes("closed", "parked") /\ connected' = FALSE /\ attempt' = 1
    /\ UNCHANGED <<running, stopClosed, device, abandoned, streamVars>>

(* The callback: lastUpdate first, then Update, which waits for the Monitor *)

Notified ==
    /\ subscribed /\ ~callback /\ callback' = TRUE
    /\ silence' = 0
    /\ UNCHANGED <<monVars, loop, stopClosed, attempt, device, abandoned,
                   subscribed>>

CallbackUpdates ==
    /\ callback /\ callback' = FALSE
    /\ connected' = TRUE
    /\ UNCHANGED <<running, loop, stopClosed, attempt, device, abandoned,
                   subscribed, silence>>

-----------------------------------------------------------------------------
(* BlueZ, the probe and time *)

ProbeDrops ==
    /\ device # "off" /\ LinkTo("off")
    /\ UNCHANGED <<monVars, loop, stopClosed, attempt, abandoned, callback,
                   silence>>

\* A trusted device may come back by itself; a link may get its services.
BluezAdvances ==
    /\ \/ device = "off" /\ LinkTo("linked")
       \/ device = "linked" /\ LinkTo("resolved")
    /\ UNCHANGED <<monVars, loop, stopClosed, attempt, abandoned, callback,
                   silence>>

Tick ==
    /\ loop = "streaming" /\ silence <= StaleTicks
    /\ silence' = silence + 1
    /\ UNCHANGED <<monVars, loop, stopClosed, attempt, device, abandoned,
                   subscribed, callback>>

-----------------------------------------------------------------------------
Scanning == ScanFinds \/ ScanFindsNothing \/ ScanFails

Connecting ==
    EnsureConnected \/ ConnectSucceeds \/ ConnectFails \/ ConnectHangs \/ ConnectTimesOut

Streaming ==
    \/ ReportConnected \/ DiscoveryRetries \/ DiscoveryFails \/ StreamBegins
    \/ StreamStops \/ StreamStale \/ Disconnect \/ ReportDisconnected

Go == Wake \/ TakeStopChan \/ FindTop \/ Scanning \/ Bail \/ Connecting \/ Streaming

Next ==
    \/ Start \/ Stop
    \/ Go
    \/ AbandonedReturns \/ AbandonedFails
    \/ Notified \/ CallbackUpdates
    \/ ProbeDrops \/ BluezAdvances
    \/ Tick

Spec == Init /\ [][Next]_vars

-----------------------------------------------------------------------------
(* Safety *)

Link == INSTANCE ProbeLink WITH
    Async <- TRUE,
    link <- CASE loop \in {"parked", "woken"} -> loop
              [] loop \in {"obtained", "discovering", "streaming"} -> "streaming"
              [] loop \in {"closing", "closed"} -> "closing"
              [] OTHER -> "dialing"

\* Bluetooth keeps the contract of a link: it gives a search up only after Stop,
\* and leaves no connection reported but by a notification under way.
ImplementsLink == Link!Spec

-----------------------------------------------------------------------------
(* Liveness.  The loop's goroutine runs and its calls return, but for Connect;  *)
(* an adapter that is asked again and again scans, finds and connects a probe   *)
(* that is in range, and lists its services.                                    *)
Fairness ==
    /\ WF_vars(Go)
    /\ WF_vars(Tick)
    /\ WF_vars(StreamStops)
    /\ SF_vars(ScanFinds)
    /\ SF_vars(EnsureConnected /\ device' = "resolved")
    /\ SF_vars(ConnectSucceeds /\ device' = "resolved")
    /\ SF_vars(StreamBegins)

FairSpec == Spec /\ Fairness

\* Stop ends in the wait for Start, from scans that were not aborted, attempts and
\* discoveries that do not look at stop, and calls that hang.
StopParks == ~running ~> (running \/ loop = "parked")

\* A stream whose link is gone is noticed, also when the link comes back by itself
\* without the notifications.
LostStreamNoticed ==
    (loop = "streaming" /\ ~subscribed) ~> ~(loop = "streaming" /\ ~subscribed)

\* A probe in range ends up streaming: hung calls, half-open links and failed
\* rounds are got over, unless the probe keeps dropping or late calls keep
\* disconnecting it.
ProbeIsReached ==
    <>[][~ProbeDrops /\ ~AbandonedReturns]_vars
        => (running ~> (loop = "streaming" \/ ~running))

=============================================================================
