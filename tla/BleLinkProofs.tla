---------------------------- MODULE BleLinkProofs ----------------------------
(***************************************************************************)
(* Theorems about BleLink, for any number of retries, attempts, ticks and  *)
(* abandoned calls: its states are well typed, and it keeps the contract   *)
(* of a link, whatever BlueZ, the probe and abandoned calls do.            *)
(***************************************************************************)
EXTENDS BleLink, TLAPS

Flags ==
    /\ running \in BOOLEAN /\ connected \in BOOLEAN /\ stopClosed \in BOOLEAN
    /\ subscribed \in BOOLEAN /\ callback \in BOOLEAN

Places ==
    /\ loop \in LoopPCs
    /\ attempt \in 1 .. ConnectRetries \cup 1 .. DiscoveryAttempts
    /\ device \in {"off", "linked", "resolved"}
    /\ abandoned \in 0 .. MaxAbandoned
    /\ silence \in 0 .. StaleTicks + 1
    /\ loop = "hung" => abandoned < MaxAbandoned

\* The variables that are not flags, which the flags have no part in.  A call of
\* Connect that hangs may still be given up.
LEMMA PlacesStep == Places /\ [Next]_vars => Places'
<1> SUFFICES ASSUME Places, [Next]_vars PROVE Places'
  OBVIOUS
<1> USE CountsPositive, MaxAbandonedNat
    DEF Places, LoopPCs, LoopGoes, LoopMoves, LinkTo, monVars, streamVars
<1>1. CASE Start \/ Stop
  BY <1>1 DEF Start, Stop
<1>2. CASE Wake \/ TakeStopChan \/ FindTop \/ Bail
  BY <1>2 DEF Wake, TakeStopChan, FindTop, Bail
<1>3. CASE Scanning
  BY <1>3 DEF Scanning, ScanFinds, ScanFindsNothing, ScanFails, ScanStops
<1>4. CASE EnsureConnected \/ ConnectSucceeds
  BY <1>4 DEF EnsureConnected, ConnectSucceeds
<1>5. CASE ConnectFails \/ ConnectHangs \/ ConnectTimesOut
  BY <1>5 DEF ConnectFails, ConnectHangs, ConnectTimesOut, TryAgain
<1>6. CASE ReportConnected \/ DiscoveryRetries \/ DiscoveryFails \/ StreamBegins
  BY <1>6 DEF ReportConnected, DiscoveryRetries, DiscoveryFails, StreamBegins
<1>7. CASE StreamStops \/ StreamStale \/ Disconnect \/ ReportDisconnected
  BY <1>7 DEF StreamStops, StreamStale, Disconnect, ReportDisconnected
<1>8. CASE AbandonedReturns \/ AbandonedFails
  BY <1>8 DEF AbandonedReturns, AbandonedFails
<1>9. CASE Notified \/ CallbackUpdates \/ ProbeDrops \/ BluezAdvances \/ Tick
  BY <1>9 DEF Notified, CallbackUpdates, ProbeDrops, BluezAdvances, Tick
<1>10. CASE UNCHANGED vars
  BY <1>10 DEF vars
<1> QED
  BY <1>1, <1>2, <1>3, <1>4, <1>5, <1>6, <1>7, <1>8, <1>9, <1>10
  DEF Next, Go, Connecting, Streaming

LEMMA FlagsStep == Flags /\ [Next]_vars => Flags'
<1> SUFFICES ASSUME Flags, [Next]_vars PROVE Flags'
  OBVIOUS
<1> USE DEF Flags, LoopGoes, LoopMoves, LinkTo, monVars, streamVars
<1>1. CASE Start \/ Stop
  BY <1>1 DEF Start, Stop
<1>2. CASE Wake \/ TakeStopChan \/ FindTop \/ Bail
  BY <1>2 DEF Wake, TakeStopChan, FindTop, Bail
<1>3. CASE Scanning
  BY <1>3 DEF Scanning, ScanFinds, ScanFindsNothing, ScanFails, ScanStops
<1>4. CASE EnsureConnected \/ ConnectSucceeds
  BY <1>4 DEF EnsureConnected, ConnectSucceeds
<1>5. CASE ConnectFails \/ ConnectHangs \/ ConnectTimesOut
  BY <1>5 DEF ConnectFails, ConnectHangs, ConnectTimesOut, TryAgain
<1>6. CASE ReportConnected \/ DiscoveryRetries \/ DiscoveryFails \/ StreamBegins
  BY <1>6 DEF ReportConnected, DiscoveryRetries, DiscoveryFails, StreamBegins
<1>7. CASE StreamStops \/ StreamStale \/ Disconnect \/ ReportDisconnected
  BY <1>7 DEF StreamStops, StreamStale, Disconnect, ReportDisconnected
<1>8. CASE AbandonedReturns \/ AbandonedFails
  BY <1>8 DEF AbandonedReturns, AbandonedFails
<1>9. CASE Notified \/ CallbackUpdates \/ ProbeDrops \/ BluezAdvances \/ Tick
  BY <1>9 DEF Notified, CallbackUpdates, ProbeDrops, BluezAdvances, Tick
<1>10. CASE UNCHANGED vars
  BY <1>10 DEF vars
<1> QED
  BY <1>1, <1>2, <1>3, <1>4, <1>5, <1>6, <1>7, <1>8, <1>9, <1>10
  DEF Next, Go, Connecting, Streaming

\* runBLE, its callback and BlueZ keep every variable in its type.
THEOREM TypeCorrect == Spec => []TypeOK
<1>1. Init => Places
  BY CountsPositive, MaxAbandonedNat DEF Init, Places, LoopPCs
<1>2. Init => Flags
  BY DEF Init, Flags
<1>3. Places /\ Flags => TypeOK
  BY DEF Places, Flags, TypeOK
<1> QED
  BY <1>1, <1>2, <1>3, PlacesStep, FlagsStep, PTL DEF Spec

-----------------------------------------------------------------------------


\* A step of runBLE's goroutine is a step of the link's owner, or none the Monitor sees.
LEMMA GoSteps == Go => [Link!Next]_(Link!linkVars)
<1> SUFFICES ASSUME Go PROVE [Link!Next]_(Link!linkVars)
  OBVIOUS
<1> USE DEF LoopGoes, LoopMoves, LinkTo, monVars, streamVars, Link!linkVars, Link!Next, Link!Step
<1>1. CASE Wake \/ TakeStopChan
  BY <1>1 DEF Wake, TakeStopChan, Link!Wake, Link!TakeStopChan
<1>2. CASE FindTop \/ Bail
  BY <1>2 DEF FindTop, Bail, Link!GiveUp
<1>3. CASE Scanning
  BY <1>3 DEF Scanning, ScanFinds, ScanFindsNothing, ScanFails, ScanStops
<1>4. CASE EnsureConnected \/ ConnectFails \/ ConnectHangs \/ ConnectTimesOut
  BY <1>4 DEF EnsureConnected, ConnectFails, ConnectHangs, ConnectTimesOut, TryAgain
<1>5. CASE ConnectSucceeds
  BY <1>5 DEF ConnectSucceeds, Link!Connect
<1>6. CASE ReportConnected
  BY <1>6 DEF ReportConnected, Link!Report
<1>7. CASE DiscoveryRetries \/ StreamBegins \/ Disconnect
  BY <1>7 DEF DiscoveryRetries, StreamBegins, Disconnect
<1>8. CASE DiscoveryFails \/ StreamStops \/ StreamStale
  BY <1>8 DEF DiscoveryFails, StreamStops, StreamStale, Link!Lose
<1>9. CASE ReportDisconnected
  BY <1>9 DEF ReportDisconnected, Link!Close
<1> QED
  BY <1>1, <1>2, <1>3, <1>4, <1>5, <1>6, <1>7, <1>8, <1>9 DEF Go, Connecting, Streaming

\* Bluetooth keeps the contract of a link (bridge.go:89-91): no connection is
\* reported but by a stream or a notification under way, and a stream's end takes
\* the report back.
THEOREM ImplementsProbeLink == Spec => ImplementsLink
<1>1. Init => Link!Init
  BY DEF Init, Link!Init
<1>2. [Next]_vars => [Link!Next]_(Link!linkVars)
  <2> SUFFICES ASSUME [Next]_vars PROVE [Link!Next]_(Link!linkVars)
    OBVIOUS
  <2>1. CASE Go
    BY <2>1, GoSteps
  <2>2. CASE Start \/ Stop
    BY <2>2 DEF Start, Stop, Link!Start, Link!Stop, Link!Next, Link!linkVars
  <2>3. CASE CallbackUpdates
    BY <2>3 DEF CallbackUpdates, Link!ReportLate, Link!Next, Link!linkVars
  <2>4. CASE \/ AbandonedReturns \/ AbandonedFails \/ Notified
             \/ ProbeDrops \/ BluezAdvances \/ Tick \/ UNCHANGED vars
    BY <2>4 DEF AbandonedReturns, AbandonedFails, Notified, ProbeDrops, BluezAdvances, Tick,
                vars, monVars, Link!linkVars
  <2> QED
    BY <2>1, <2>2, <2>3, <2>4 DEF Next
<1> QED
  BY <1>1, <1>2, PTL DEF Spec, ImplementsLink, Link!Spec

=============================================================================
