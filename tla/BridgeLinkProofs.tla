--------------------------- MODULE BridgeLinkProofs ---------------------------
(***************************************************************************)
(* Theorems about BridgeLink, for any timeouts, queue and socket buffer,   *)
(* whether or not the address is browsed for: the link keeps its contract, *)
(* the Monitor's flags do not outlive the stream that set them, a signal   *)
(* strength is that of a probe reported connected, and a board at work is  *)
(* not silent for longer than a scan.  A scan is known to the Monitor, but *)
(* for the one of a probe lost between its first payload and its status.   *)
(***************************************************************************)
EXTENDS BridgeLink, SequenceTheorems, TLAPS

(***************************************************************************)
(* The contract                                                            *)
(***************************************************************************)

\* A step of runBridge's goroutine is a step of the link's owner, or none that the
\* Monitor sees.
LEMMA GoSteps == Go => [Link!Next]_(Link!linkVars)
<1> SUFFICES ASSUME Go PROVE [Link!Next]_(Link!linkVars)
  OBVIOUS
<1> USE DEF LoopGoes, LoopMoves, monVars, Link!linkVars, Link!Next, Link!Step
<1>1. CASE Wake \/ TakeStopChan
  BY <1>1 DEF Wake, TakeStopChan, Link!Wake, Link!TakeStopChan
<1>2. CASE DialTop \/ DiscoverBridge \/ WaitForBridgeRetry
  BY <1>2 DEF DialTop, DiscoverBridge, WaitForBridgeRetry, Link!GiveUp
<1>3. CASE DialFails \/ StreamBegins
  BY <1>3 DEF DialFails, StreamBegins
<1>4. CASE DialSucceeds
  BY <1>4 DEF DialSucceeds, Link!Connect
<1>5. CASE ScanLine
  BY <1>5 DEF ScanLine, Hear, Link!Report
<1>6. CASE StreamEnds
  BY <1>6 DEF StreamEnds, Link!Lose
<1>7. CASE CloseBridge
  BY <1>7 DEF CloseBridge
<1>8. CASE Disconnect
  BY <1>8 DEF Disconnect, Link!Close
<1> QED
  BY <1>1, <1>2, <1>3, <1>4, <1>5, <1>6, <1>7, <1>8 DEF Go

\* What the watchdog, the board, faults and time do is not seen by the Monitor, and
\* leaves runBridge where it is.
LEMMA OthersStutter ==
    ASSUME Watchdog \/ Board \/ OnNotify \/ OnDisconnect \/ Wedge \/ BoardRestarts \/ Tick
    PROVE  UNCHANGED <<monVars, loop, stopClosed>>
<1> USE DEF monVars, goVars
<1>1. CASE Watchdog
  BY <1>1 DEF Watchdog, WatchStop, WatchSilence, WatchCloses, Verdict
<1>2. CASE Board
  BY <1>2 DEF Board, BoardAccepts, BoardReleases, BoardScans, BoardHasProbe, ScanEnds,
              ConnectProbe, BoardReports, BoardMeasures, Drain, BoardGoes
<1>3. CASE OnNotify \/ OnDisconnect \/ Wedge \/ BoardRestarts \/ Tick
  BY <1>3 DEF OnNotify, OnDisconnect, Wedge, BoardRestarts, Tick
<1> QED
  BY <1>1, <1>2, <1>3

\* The bridge is a peer of the other links, "same WaitForStart / SetConnected / Update
\* contract, different transport" (bridge.go:89-91), whatever the board, the network
\* and the watchdog do to the stream.
THEOREM ImplementsProbeLink == Spec => ImplementsLink
<1>1. Init => Link!Init
  BY DEF Init, Link!Init
<1>2. [Next]_vars => [Link!Next]_(Link!linkVars)
  <2> SUFFICES ASSUME [Next]_vars PROVE [Link!Next]_(Link!linkVars)
    OBVIOUS
  <2>1. CASE Go
    BY <2>1, GoSteps
  <2>2. CASE Start \/ Stop
    BY <2>2 DEF Start, Stop, goVars, Link!Start, Link!Stop, Link!Next, Link!linkVars
  <2>3. CASE \/ Watchdog \/ Board \/ OnNotify \/ OnDisconnect
             \/ Wedge \/ BoardRestarts \/ Tick
    BY <2>3, OthersStutter DEF monVars, Link!linkVars
  <2>4. CASE UNCHANGED vars
    BY <2>4 DEF vars, monVars, goVars, Link!linkVars
  <2> QED
    BY <2>1, <2>2, <2>3, <2>4 DEF Next
<1> QED
  BY <1>1, <1>2, PTL DEF Spec, Link!Spec, ImplementsLink

(***************************************************************************)
(* The flags                                                               *)
(***************************************************************************)

LEMMA FlagsStep == FlagsFollowSocket /\ [Next]_vars => FlagsFollowSocket'
<1> SUFFICES ASSUME FlagsFollowSocket, [Next]_vars PROVE FlagsFollowSocket'
  OBVIOUS
<1> USE DEF FlagsFollowSocket, LoopGoes, LoopMoves, monVars, goVars
<1>1. CASE Start \/ Stop
  BY <1>1 DEF Start, Stop
<1>2. CASE Wake \/ TakeStopChan \/ DialTop \/ DiscoverBridge \/ WaitForBridgeRetry
  BY <1>2 DEF Wake, TakeStopChan, DialTop, DiscoverBridge, WaitForBridgeRetry
<1>3. CASE DialFails \/ DialSucceeds \/ StreamBegins
  BY <1>3 DEF DialFails, DialSucceeds, StreamBegins
<1>4. CASE ScanLine
  BY <1>4 DEF ScanLine
<1>5. CASE StreamEnds \/ CloseBridge \/ Disconnect
  BY <1>5 DEF StreamEnds, CloseBridge, Disconnect
<1>6. CASE \/ Watchdog \/ Board \/ OnNotify \/ OnDisconnect
           \/ Wedge \/ BoardRestarts \/ Tick
  BY <1>6, OthersStutter
<1>7. CASE UNCHANGED vars
  BY <1>7 DEF vars
<1> QED
  BY <1>1, <1>2, <1>3, <1>4, <1>5, <1>6, <1>7 DEF Next, Go

\* However Stop falls into the end of a stream, and whatever lines the scanner still
\* had, no flag outlives the stream (runBridge, after conn.Close).
THEOREM FlagsFollowTheSocket == Spec => []FlagsFollowSocket
<1>1. Init => FlagsFollowSocket
  BY DEF Init, FlagsFollowSocket
<1> QED
  BY <1>1, FlagsStep, PTL DEF Spec

(***************************************************************************)
(* Signal strength                                                         *)
(***************************************************************************)

\* What the Monitor reports, as the line that would have said so.
Report == IF connected THEN "connected" ELSE "disconnected"

\* Once the lines of w before i are read, by a Monitor that reports c, it reports a
\* probe: it was told of one there, or reports one now, and of no loss since.
Told(w, c, i) ==
    \/ \E j \in 1 .. i - 1 :
          w[j] = "connected" /\ \A k \in j + 1 .. i - 1 : w[k] # "disconnected"
    \/ c = "connected" /\ \A k \in 1 .. i - 1 : w[k] # "disconnected"

\* What has been said stands, whatever is said next.
LEMMA SaidStands ==
    ASSUME NEW w \in Seq(Lines), NEW x \in Lines, NEW c, NEW i \in 1 .. Len(w) + 1,
           Told(w, c, i)
    PROVE  Told(Append(w, x), c, i)
<1>1. i \in Nat /\ \A k \in 1 .. i - 1 : Append(w, x)[k] = w[k]
  BY AppendProperties, LenProperties
<1>2. CASE c = "connected" /\ \A k \in 1 .. i - 1 : w[k] # "disconnected"
  BY <1>1, <1>2 DEF Told
<1>3. ASSUME NEW j \in 1 .. i - 1, w[j] = "connected",
             \A k \in j + 1 .. i - 1 : w[k] # "disconnected"
      PROVE  Told(Append(w, x), c, i)
  <2>1. Append(w, x)[j] = "connected"
    BY <1>1, <1>3
  <2>2. \A k \in j + 1 .. i - 1 : Append(w, x)[k] # "disconnected"
    BY <1>1, <1>3
  <2> QED
    BY <2>1, <2>2 DEF Told
<1> QED
  BY <1>2, <1>3 DEF Told

\* A probe once announced is known until the line that takes it back.
LEMMA SaidIsKnown ==
    ASSUME NEW w \in Seq(Lines), NEW x \in Lines, NEW c,
           x = "connected" \/ (Told(w, c, Len(w) + 1) /\ x # "disconnected")
    PROVE  Told(Append(w, x), c, Len(w) + 2)
<1> DEFINE n == Len(w) + 1
           v == Append(w, x)
<1>1. n \in Nat /\ n >= 1 /\ v[n] = x /\ n + 1 = Len(w) + 2
  BY AppendProperties, LenProperties
<1> HIDE DEF n, v
<1>2. CASE x = "connected"
  <2>1. n \in 1 .. (n + 1) - 1 /\ n + 1 .. (n + 1) - 1 = {}
    BY <1>1
  <2>2. Told(v, c, n + 1)
    BY <1>1, <1>2, <2>1 DEF Told
  <2> QED
    BY <1>1, <2>2 DEF v
<1>3. CASE Told(w, c, Len(w) + 1) /\ x # "disconnected"
  <2>1. Told(v, c, n)
    <3>1. n \in 1 .. Len(w) + 1
      BY LenProperties DEF n
    <3> QED
      BY <1>3, <3>1, SaidStands DEF n, v
  <2>2. CASE c = "connected" /\ \A k \in 1 .. n - 1 : v[k] # "disconnected"
    <3>1. \A k \in 1 .. (n + 1) - 1 : v[k] # "disconnected"
      BY <1>1, <1>3, <2>2
    <3> QED
      BY <1>1, <2>2, <3>1 DEF Told, v
  <2>3. ASSUME NEW j \in 1 .. n - 1, v[j] = "connected",
               \A k \in j + 1 .. n - 1 : v[k] # "disconnected"
        PROVE  Told(v, c, n + 1)
    <3>1. \A k \in j + 1 .. (n + 1) - 1 : v[k] # "disconnected"
      BY <1>1, <1>3, <2>3
    <3>2. j \in 1 .. (n + 1) - 1
      BY <1>1
    <3> QED
      BY <2>3, <3>1, <3>2 DEF Told
  <2> QED
    BY <1>1, <2>1, <2>2, <2>3 DEF Told, v
<1> QED
  BY <1>2, <1>3

\* To read a line is to move what it says into the Monitor's report.
LEMMA HeardIsKnown ==
    ASSUME NEW w \in Seq(Lines), w # <<>>, NEW c, NEW d, NEW i \in 2 .. Len(w) + 1,
           Told(w, c, i),
           w[1] = "connected" => d = "connected",
           w[1] # "disconnected" /\ c = "connected" => d = "connected"
    PROVE  Told(Tail(w), d, i - 1)
<1> DEFINE v == Tail(w)
           m == i - 1
<1>1. \A k \in 1 .. m - 1 : v[k] = w[k + 1]
  BY HeadTailProperties, LenProperties
<1>2. m \in Nat /\ m >= 1 /\ i = m + 1
  BY LenProperties
<1> HIDE DEF v, m
<1>3. CASE c = "connected" /\ \A k \in 1 .. i - 1 : w[k] # "disconnected"
  <2>1. \A k \in 1 .. m - 1 : v[k] # "disconnected"
    BY <1>1, <1>2, <1>3
  <2>2. d = "connected"
    BY <1>2, <1>3
  <2> QED
    BY <2>1, <2>2 DEF Told, v, m
<1>4. ASSUME NEW j \in 1 .. i - 1, w[j] = "connected",
             \A k \in j + 1 .. i - 1 : w[k] # "disconnected"
      PROVE  Told(v, d, m)
  <2>1. CASE j = 1
    <3>1. \A k \in 1 .. m - 1 : v[k] # "disconnected"
      BY <1>1, <1>2, <1>4, <2>1
    <3> QED
      BY <1>4, <2>1, <3>1 DEF Told
  <2>2. CASE j # 1
    <3>1. j - 1 \in 1 .. m - 1 /\ v[j - 1] = "connected"
      BY <1>1, <1>2, <1>4, <2>2
    <3>2. \A k \in (j - 1) + 1 .. m - 1 : v[k] # "disconnected"
      BY <1>1, <1>2, <1>4, <2>2
    <3> QED
      BY <3>1, <3>2 DEF Told
  <2> QED
    BY <2>1, <2>2
<1> QED
  BY <1>3, <1>4 DEF Told, v, m

\* Every signal strength on the wire comes after the announcement of its probe.
Backed(w, c) == \A i \in 1 .. Len(w) : w[i] = "R" => Told(w, c, i)

LEMMA BackedAppend ==
    ASSUME NEW w \in Seq(Lines), NEW c, NEW x \in Lines, Backed(w, c),
           x = "R" => Told(w, c, Len(w) + 1)
    PROVE  Append(w, x) \in Seq(Lines) /\ Backed(Append(w, x), c)
<1>1. /\ Append(w, x) \in Seq(Lines)
      /\ Len(w) \in Nat /\ Len(Append(w, x)) = Len(w) + 1
      /\ \A i \in 1 .. Len(w) : Append(w, x)[i] = w[i]
      /\ Append(w, x)[Len(w) + 1] = x
  BY AppendProperties, LenProperties
<1>2. ASSUME NEW i \in 1 .. Len(w) + 1, Append(w, x)[i] = "R"
      PROVE  Told(w, c, i)
  <2>1. CASE i = Len(w) + 1
    BY <1>1, <1>2, <2>1
  <2>2. CASE i \in 1 .. Len(w)
    BY <1>1, <1>2, <2>2 DEF Backed
  <2> QED
    BY <1>1, <2>1, <2>2
<1> QED
  BY <1>1, <1>2, SaidStands DEF Backed

\* What the board writes are one or two lines more.
LEMMA TwoLines ==
    ASSUME NEW w \in Seq(Lines), NEW x \in Lines, NEW y \in Lines
    PROVE  /\ w \o <<x>> = Append(w, x)
           /\ w \o <<x, y>> = Append(Append(w, x), y)
           /\ w \o (<<x>> \o <<y>>) = Append(Append(w, x), y)
<1>1. w \o <<x>> = Append(w, x)
  BY AppendIsConcat
<1>2. <<x>> \in Seq(Lines) /\ <<y>> \in Seq(Lines)
  OBVIOUS
<1>3. Append(Append(w, x), y) = (w \o <<x>>) \o <<y>>
  BY AppendIsConcat, AppendProperties
<1>4. (w \o <<x>>) \o <<y>> = w \o (<<x>> \o <<y>>)
  BY <1>2, ConcatAssociative
<1>5. <<x>> \o <<y>> = <<x, y>>
  <2>1. <<x>> \o <<y>> \in Seq(Lines) /\ <<x, y>> \in Seq(Lines)
    BY <1>2, ConcatProperties
  <2>2. Len(<<x>> \o <<y>>) = 2 /\ (<<x>> \o <<y>>)[1] = x /\ (<<x>> \o <<y>>)[2] = y
    BY <1>2, ConcatProperties
  <2>3. Len(<<x, y>>) = 2 /\ <<x, y>>[1] = x /\ <<x, y>>[2] = y
    OBVIOUS
  <2>4. \A i \in 1 .. 2 : i = 1 \/ i = 2
    OBVIOUS
  <2>5. \A i \in 1 .. 2 : (<<x>> \o <<y>>)[i] = <<x, y>>[i]
    BY <2>2, <2>3, <2>4
  <2> QED
    BY <2>1, <2>2, <2>3, <2>5, SeqEqual
<1> QED
  BY <1>1, <1>3, <1>4, <1>5

\* The inductive invariant: so does the one just read, and any the board may send now.
RssiInv ==
    /\ wire \in Seq(Lines)
    /\ sock = "open" => loop \in {"dialed", "streaming"}
    /\ RssiHasProbe
    /\ ~stopClosed /\ loop \in {"dialed", "streaming"} =>
          Backed(wire, Report)
    /\ ~stopClosed /\ ClientUp /\ reported = "connected" =>
          Told(wire, Report, Len(wire) + 1)
    /\ board = "measuring" /\ probe # "off" => reported = "connected"

\* What the scanner hears, in terms of the report.
LEMMA HearReports ==
    ASSUME NEW line, Hear(line) \/ (line \in {"T", "R"} /\ UNCHANGED <<connected, hasRSSI>>)
    PROVE  /\ line = "connected" => Report' = "connected"
           /\ line # "disconnected" /\ Report = "connected" => Report' = "connected"
           /\ line = "disconnected" => hasRSSI' = FALSE
           /\ hasRSSI' => hasRSSI \/ line = "R"
<1>1. CASE Hear(line)
  BY <1>1 DEF Hear, Report
<1>2. CASE line \in {"T", "R"} /\ UNCHANGED <<connected, hasRSSI>>
  BY <1>2 DEF Report
<1> QED
  BY <1>1, <1>2

LEMMA RssiScanLine == RssiInv /\ ScanLine => RssiInv'
<1> SUFFICES ASSUME RssiInv, ScanLine PROVE RssiInv'
  OBVIOUS
<1> DEFINE line == wire[1]
<1>1. /\ wire \in Seq(Lines) /\ wire # <<>> /\ wire' = Tail(wire) /\ loop = "streaming"
      /\ UNCHANGED <<loop, stopClosed, sock, serves, reported, board, probe>>
  BY DEF ScanLine, RssiInv, boardVars
<1>2. Hear(line) \/ (line \in {"T", "R"} /\ UNCHANGED <<connected, hasRSSI>>)
  <2>1. Head(wire) = line
    BY <1>1
  <2> QED
    BY <2>1 DEF ScanLine
<1>3. /\ wire' \in Seq(Lines) /\ Len(wire') = Len(wire) - 1
      /\ Len(wire) \in Nat /\ Len(wire) > 0
      /\ \A k \in 1 .. Len(wire') : wire'[k] = wire[k + 1]
  BY <1>1, HeadTailProperties, LenProperties
<1> HIDE DEF line
<1>4. /\ line = "connected" => Report' = "connected"
      /\ line # "disconnected" /\ Report = "connected" => Report' = "connected"
  BY <1>2, HearReports
<1>5. ASSUME NEW i \in 2 .. Len(wire) + 1, Told(wire, Report, i)
      PROVE  Told(wire', Report', i - 1)
  BY <1>1, <1>4, <1>5, HeardIsKnown DEF line
<1>6. RssiHasProbe'
  <2>1. ASSUME ~stopClosed, line = "R"
        PROVE  Report = "connected"
    <3>1. 1 \in 1 .. Len(wire) /\ wire[1] = "R"
      BY <1>3, <2>1 DEF line
    <3>2. Told(wire, Report, 1)
      BY <1>1, <2>1, <3>1 DEF RssiInv, Backed
    <3>3. 1 .. 1 - 1 = {}
      OBVIOUS
    <3> QED
      BY <3>2, <3>3 DEF Told
  <2>2. Report = "connected" <=> connected
    BY DEF Report
  <2>3. (Report = "connected" <=> connected)'
    BY DEF Report
  <2> QED
    BY <1>1, <1>2, <2>1, <2>2, <2>3, HearReports DEF RssiInv, RssiHasProbe
<1>7. ASSUME ~stopClosed, NEW i \in 1 .. Len(wire'), wire'[i] = "R"
      PROVE  Told(wire', Report', i)
  <2>1. /\ i + 1 \in 1 .. Len(wire) /\ i + 1 \in 2 .. Len(wire) + 1
        /\ wire[i + 1] = "R" /\ (i + 1) - 1 = i
    BY <1>3, <1>7
  <2>2. Told(wire, Report, i + 1)
    BY <1>1, <1>7, <2>1 DEF RssiInv, Backed
  <2> QED
    BY <1>5, <2>1, <2>2
<1>8. ASSUME ~stopClosed, ClientUp, reported = "connected"
      PROVE  Told(wire', Report', Len(wire') + 1)
  <2>1. Len(wire) + 1 \in 2 .. Len(wire) + 1 /\ (Len(wire) + 1) - 1 = Len(wire') + 1
    BY <1>3
  <2>2. Told(wire, Report, Len(wire) + 1)
    BY <1>8 DEF RssiInv
  <2> QED
    BY <1>5, <2>1, <2>2
<1> QED
  BY <1>1, <1>3, <1>6, <1>7, <1>8 DEF RssiInv, ClientUp, Backed

LEMMA RssiGo == RssiInv /\ FlagsFollowSocket /\ Go => RssiInv'
<1> SUFFICES ASSUME RssiInv, FlagsFollowSocket, Go PROVE RssiInv'
  OBVIOUS
<1> USE DEF RssiInv, RssiHasProbe, ClientUp, FlagsFollowSocket, LoopGoes, LoopMoves,
            monVars, goVars, boardVars
<1>1. CASE Wake \/ TakeStopChan \/ DialTop \/ DiscoverBridge \/ WaitForBridgeRetry
  BY <1>1 DEF Wake, TakeStopChan, DialTop, DiscoverBridge, WaitForBridgeRetry
<1>2. CASE DialFails \/ StreamBegins
  <2>1. Report' = Report
    BY <1>2 DEF DialFails, StreamBegins, Report
  <2> QED
    BY <1>2, <2>1 DEF DialFails, StreamBegins
<1>3. CASE DialSucceeds
  BY <1>3 DEF DialSucceeds, Backed
<1>4. CASE StreamEnds \/ CloseBridge \/ Disconnect
  BY <1>4 DEF StreamEnds, CloseBridge, Disconnect
<1>5. CASE ScanLine
  BY <1>5, RssiScanLine
<1> QED
  BY <1>1, <1>2, <1>3, <1>4, <1>5 DEF Go

\* What a step of the board must see to.
LEMMA RssiHolds ==
    ASSUME RssiInv, UNCHANGED <<connected, hasRSSI, loop, stopClosed, sock>>,
           wire' \in Seq(Lines),
           ~stopClosed /\ Backed(wire, Report) => Backed(wire', Report),
           ~stopClosed /\ ClientUp' /\ reported' = "connected" /\ Backed(wire, Report) =>
               Told(wire', Report, Len(wire') + 1),
           board' = "measuring" /\ probe' # "off" => reported' = "connected"
    PROVE  RssiInv'
<1>1. Report' = Report
  BY DEF Report
<1> QED
  BY <1>1 DEF RssiInv, RssiHasProbe, ClientUp

LEMMA RssiBoard == RssiInv /\ Board => RssiInv'
<1> SUFFICES ASSUME RssiInv, Board PROVE RssiInv'
  OBVIOUS
<1> USE DEF BoardGoes, monVars, goVars
<1>1. UNCHANGED <<connected, hasRSSI, loop, stopClosed, sock>>
  BY DEF Board, BoardAccepts, BoardReleases, BoardScans, BoardHasProbe, ScanEnds,
         ConnectProbe, BoardReports, BoardMeasures, Drain
<1>2. wire \in Seq(Lines) /\ Len(wire) \in Nat
  BY LenProperties DEF RssiInv
<1>3. ~stopClosed /\ ClientUp /\ reported = "connected" => Told(wire, Report, Len(wire) + 1)
  BY DEF RssiInv
<1>4. ASSUME NEW x \in Lines, x # "R", reported' # "connected", wire' = Append(wire, x),
             board' # "measuring"
      PROVE  RssiInv'
  BY <1>1, <1>2, <1>4, BackedAppend, RssiHolds
<1>5. CASE BoardAccepts
  BY <1>4, <1>5 DEF BoardAccepts, Lines
<1>6. CASE BoardReleases
  BY <1>1, <1>2, <1>6, RssiHolds DEF BoardReleases, ClientUp
<1>7. CASE BoardScans
  <2>1. CASE reported # "disconnected"
    <3>1. /\ Append(wire, "disconnected") \in Seq(Lines)
          /\ wire' = Append(Append(wire, "disconnected"), "comment")
      BY <1>2, <1>7, <2>1, TwoLines, AppendProperties DEF BoardScans, Send, Lines
    <3>2. wire' \in Seq(Lines) /\ (Backed(wire, Report) => Backed(wire', Report))
      BY <1>2, <3>1, BackedAppend, AppendProperties DEF Lines
    <3> QED
      BY <1>1, <1>7, <3>2, RssiHolds DEF BoardScans
  <2>2. CASE reported = "disconnected"
    BY <1>2, <1>4, <1>7, <2>2, TwoLines DEF BoardScans, Send, Lines
  <2> QED
    BY <2>1, <2>2
<1>8. CASE BoardHasProbe \/ ScanEnds \/ ConnectProbe
  BY <1>1, <1>2, <1>3, <1>8, RssiHolds DEF BoardHasProbe, ScanEnds, ConnectProbe, ClientUp
<1>9. CASE BoardReports
  <2> DEFINE fresh == probe # "off" /\ reported # "connected"
  <2>1. /\ ClientUp' = ClientUp /\ UNCHANGED probe
        /\ reported' = IF fresh THEN "connected" ELSE reported
    BY <1>1, <1>9 DEF BoardReports, ClientUp
  <2>2. board' = "measuring" /\ probe' # "off" => reported' = "connected"
    BY <2>1
  <2>3. CASE wire' = wire /\ (ClientUp => ~fresh)
    BY <1>1, <1>2, <1>3, <2>1, <2>2, <2>3, RssiHolds
  <2>4. CASE wire' = Append(wire, "connected")
    <3>1. wire' \in Seq(Lines) /\ (Backed(wire, Report) => Backed(wire', Report))
      BY <1>2, <2>4, BackedAppend DEF Lines
    <3>2. Told(wire', Report, Len(wire) + 2)
      BY <1>2, <2>4, SaidIsKnown DEF Lines
    <3>3. Len(wire') + 1 = Len(wire) + 2
      BY <1>2, <2>4, AppendProperties DEF Lines
    <3> QED
      BY <1>1, <2>2, <3>1, <3>2, <3>3, RssiHolds
  <2>5. \/ wire' = wire /\ (ClientUp => ~fresh)
        \/ wire' = Append(wire, "connected")
    <3>1. wire \o <<"connected">> = Append(wire, "connected") /\ wire \o <<>> = wire
      BY <1>2, TwoLines, ConcatEmptySeq DEF Lines
    <3> QED
      BY <1>9, <3>1 DEF BoardReports, Send
  <2> QED
    BY <2>3, <2>4, <2>5
<1>10. CASE BoardMeasures
  <2>1. /\ ClientUp' = ClientUp /\ UNCHANGED <<probe, reported>>
        /\ board = "measuring" /\ board' = "draining"
    BY <1>1, <1>10 DEF BoardMeasures, ClientUp
  <2>2. CASE wire' = wire
    BY <1>1, <1>2, <1>3, <2>1, <2>2, RssiHolds
  <2>3. CASE ClientUp /\ probe # "off" /\ wire' = Append(wire, "R")
    <3>1. ~stopClosed => Told(wire, Report, Len(wire) + 1)
      BY <1>3, <2>1, <2>3 DEF RssiInv
    <3>2. wire' \in Seq(Lines) /\ (~stopClosed /\ Backed(wire, Report) => Backed(wire', Report))
      BY <1>2, <2>3, <3>1, BackedAppend, AppendProperties DEF Lines
    <3>3. ~stopClosed => Told(wire', Report, Len(wire) + 2)
      BY <1>2, <2>3, <3>1, SaidIsKnown DEF Lines
    <3>4. Len(wire') + 1 = Len(wire) + 2
      BY <1>2, <2>3, AppendProperties DEF Lines
    <3> QED
      BY <1>1, <2>1, <3>2, <3>3, <3>4, RssiHolds
  <2>4. wire' = wire \/ (ClientUp /\ probe # "off" /\ wire' = Append(wire, "R"))
    <3>1. wire \o <<"R">> = Append(wire, "R") /\ wire \o <<>> = wire
      BY <1>2, TwoLines, ConcatEmptySeq DEF Lines
    <3> QED
      BY <1>10, <3>1 DEF BoardMeasures, Send
  <2> QED
    BY <2>2, <2>3, <2>4
<1>11. CASE Drain
  <2>1. UNCHANGED reported /\ (ClientUp' = ClientUp) /\ board' # "measuring"
    BY <1>1, <1>11 DEF Drain, ClientUp
  <2>2. CASE wire' = wire
    BY <1>1, <1>2, <1>3, <2>1, <2>2, RssiHolds
  <2>3. CASE ClientUp /\ wire' = Append(wire, "T")
    <3>1. wire' \in Seq(Lines) /\ (Backed(wire, Report) => Backed(wire', Report))
      BY <1>2, <2>3, BackedAppend, AppendProperties DEF Lines
    <3>2. ~stopClosed /\ reported = "connected" => Told(wire', Report, Len(wire) + 2)
      BY <1>2, <1>3, <2>3, SaidIsKnown DEF Lines
    <3>3. Len(wire') + 1 = Len(wire) + 2
      BY <1>2, <2>3, AppendProperties DEF Lines
    <3> QED
      BY <1>1, <2>1, <3>1, <3>2, <3>3, RssiHolds
  <2> QED
    BY <1>2, <1>11, <2>2, <2>3, TwoLines DEF Drain, Send, Lines
<1> QED
  BY <1>5, <1>6, <1>7, <1>8, <1>9, <1>10, <1>11 DEF Board

LEMMA RssiStep == RssiInv /\ FlagsFollowSocket /\ [Next]_vars => RssiInv'
<1> SUFFICES ASSUME RssiInv, FlagsFollowSocket, [Next]_vars PROVE RssiInv'
  OBVIOUS
<1> USE DEF monVars, goVars, boardVars
<1>1. CASE Go
  BY <1>1, RssiGo
<1>2. CASE Board
  BY <1>2, RssiBoard
<1>3. CASE Start \/ Wedge \/ OnNotify \/ OnDisconnect \/ Tick \/ UNCHANGED vars
  <2>1. /\ UNCHANGED <<connected, hasRSSI, loop, stopClosed, sock, wire, serves, reported, board>>
        /\ probe' \in {probe, "off"}
    BY <1>3 DEF Start, Wedge, OnNotify, OnDisconnect, Tick, vars
  <2> QED
    BY <2>1 DEF RssiInv, RssiHasProbe, ClientUp, Report
<1>4. CASE Stop
  BY <1>4 DEF Stop, RssiInv, RssiHasProbe
<1>5. CASE Watchdog
  <2>1. /\ UNCHANGED <<connected, hasRSSI, loop, stopClosed, wire, serves, reported,
                        board, probe>>
        /\ sock' \in {sock, "closed"}
    BY <1>5 DEF Watchdog, WatchStop, WatchSilence, WatchCloses, Verdict
  <2> QED
    BY <2>1 DEF RssiInv, RssiHasProbe, ClientUp, Report
<1>6. CASE BoardRestarts
  <2>1. /\ UNCHANGED <<connected, hasRSSI, loop, stopClosed, wire>>
        /\ sock' # "open" /\ serves' = "nobody" /\ board' = "waiting"
    BY <1>6 DEF BoardRestarts
  <2> QED
    BY <2>1 DEF RssiInv, RssiHasProbe, ClientUp, Report
<1> QED
  BY <1>1, <1>2, <1>3, <1>4, <1>5, <1>6 DEF Next

\* Through drops of the probe, clients that take turns, restarts of the board and
\* lines read after the watchdog has closed the socket, a signal strength is that of
\* a probe the Monitor reports, unless Stop has just cleared the report under it.
THEOREM SignalStrengthHasProbe == Spec => []RssiHasProbe
<1>1. Init => RssiInv /\ FlagsFollowSocket
  BY DEF Init, BoardInit, RssiInv, RssiHasProbe, ClientUp, FlagsFollowSocket
<1>2. RssiInv => RssiHasProbe
  BY DEF RssiInv
<1> QED
  BY <1>1, <1>2, FlagsStep, RssiStep, PTL DEF Spec

(***************************************************************************)
(* Types                                                                   *)
(***************************************************************************)

Flags ==
    /\ running \in BOOLEAN /\ connected \in BOOLEAN
    /\ bridgeConnected \in BOOLEAN /\ hasRSSI \in BOOLEAN
    /\ stopClosed \in BOOLEAN /\ rssiDue \in BOOLEAN /\ alive \in BOOLEAN
    /\ unsaid \in BOOLEAN

Places ==
    /\ loop \in LoopPCs
    /\ watchdog \in {"off", "watching", "closing"}
    /\ stalled \in {"empty", "stop", "stale"}
    /\ silence \in 0 .. StaleTicks + 1
    /\ sock \in {"open", "reset", "closed"}
    /\ board \in {"waiting", "top", "scanning", "attaching", "reporting", "measuring",
                  "draining"}
    /\ serves \in {"nobody", "old", "current"}
    /\ reported \in {"nothing", "connected", "disconnected"}
    /\ busy \in Nat
    /\ probe \in {"off", "linked", "subscribed"}
    /\ queue \in 0 .. QueueLen

LEMMA FlagsTyped == Flags /\ [Next]_vars => Flags'
<1> SUFFICES ASSUME Flags, [Next]_vars PROVE Flags'
  OBVIOUS
<1> USE DEF Flags, LoopGoes, LoopMoves, BoardGoes, monVars, goVars, boardVars
<1>1. CASE Start \/ Stop
  BY <1>1 DEF Start, Stop
<1>2. CASE Wake \/ TakeStopChan \/ DialTop \/ DiscoverBridge \/ WaitForBridgeRetry
  BY <1>2 DEF Wake, TakeStopChan, DialTop, DiscoverBridge, WaitForBridgeRetry
<1>3. CASE DialFails \/ DialSucceeds \/ StreamBegins
  BY <1>3 DEF DialFails, DialSucceeds, StreamBegins
<1>4. CASE ScanLine
  BY <1>4 DEF ScanLine, Hear
<1>5. CASE StreamEnds \/ CloseBridge \/ Disconnect
  BY <1>5 DEF StreamEnds, CloseBridge, Disconnect
<1>6. CASE Watchdog
  BY <1>6 DEF Watchdog, WatchStop, WatchSilence, WatchCloses, Verdict
<1>7. CASE BoardAccepts \/ BoardReleases \/ BoardScans \/ BoardHasProbe
  BY <1>7 DEF BoardAccepts, BoardReleases, BoardScans, BoardHasProbe
<1>8. CASE ScanEnds \/ ConnectProbe \/ BoardReports \/ BoardMeasures \/ Drain
  BY <1>8 DEF ScanEnds, ConnectProbe, BoardReports, BoardMeasures, Drain
<1>9. CASE OnNotify \/ OnDisconnect
  BY <1>9 DEF OnNotify, OnDisconnect
<1>10. CASE Wedge \/ BoardRestarts \/ Tick
  BY <1>10 DEF Wedge, BoardRestarts, Tick
<1>11. CASE UNCHANGED vars
  BY <1>11 DEF vars
<1> QED
  BY <1>1, <1>2, <1>3, <1>4, <1>5, <1>6, <1>7, <1>8, <1>9, <1>10, <1>11
  DEF Next, Go, Board

\* The queue is bounded by onNotify's drop, and everything else by its own steps.
LEMMA PlacesTyped == Places /\ [Next]_vars => Places'
<1> SUFFICES ASSUME Places, [Next]_vars PROVE Places'
  OBVIOUS
<1> USE TicksPositive, CapsPositive
    DEF Places, LoopPCs, LoopGoes, LoopMoves, BoardGoes, monVars, goVars, boardVars
<1>1. CASE Start \/ Stop
  BY <1>1 DEF Start, Stop
<1>2. CASE Wake \/ TakeStopChan \/ DialTop \/ DiscoverBridge \/ WaitForBridgeRetry
  BY <1>2 DEF Wake, TakeStopChan, DialTop, DiscoverBridge, WaitForBridgeRetry
<1>3. CASE DialFails \/ DialSucceeds \/ StreamBegins
  BY <1>3 DEF DialFails, DialSucceeds, StreamBegins
<1>4. CASE ScanLine
  BY <1>4 DEF ScanLine, Hear
<1>5. CASE StreamEnds \/ CloseBridge \/ Disconnect
  BY <1>5 DEF StreamEnds, CloseBridge, Disconnect
<1>6. CASE Watchdog
  BY <1>6 DEF Watchdog, WatchStop, WatchSilence, WatchCloses, Verdict
<1>7. CASE BoardAccepts \/ BoardReleases \/ BoardScans \/ BoardHasProbe
  BY <1>7 DEF BoardAccepts, BoardReleases, BoardScans, BoardHasProbe
<1>8. CASE ScanEnds \/ ConnectProbe \/ BoardReports \/ BoardMeasures \/ Drain
  BY <1>8 DEF ScanEnds, ConnectProbe, BoardReports, BoardMeasures, Drain
<1>9. CASE OnNotify \/ OnDisconnect
  BY <1>9 DEF OnNotify, OnDisconnect
<1>10. CASE Wedge \/ BoardRestarts \/ Tick
  BY <1>10 DEF Wedge, BoardRestarts, Tick
<1>11. CASE UNCHANGED vars
  BY <1>11 DEF vars
<1> QED
  BY <1>1, <1>2, <1>3, <1>4, <1>5, <1>6, <1>7, <1>8, <1>9, <1>10, <1>11
  DEF Next, Go, Board

\* runBridge, its watchdog and the board keep every variable in its type, and the
\* payload queue within its length.
THEOREM TypeCorrect == Spec => []TypeOK
<1>1. Init => Flags
  BY DEF Init, BoardInit, Flags
<1>2. Init => Places
  BY TicksPositive, CapsPositive DEF Init, BoardInit, Places, LoopPCs
<1>3. Init => RssiInv /\ FlagsFollowSocket
  BY DEF Init, BoardInit, RssiInv, RssiHasProbe, ClientUp, FlagsFollowSocket
<1>4. Flags /\ Places /\ RssiInv => TypeOK
  BY DEF Flags, Places, RssiInv, TypeOK
<1> QED
  BY <1>1, <1>2, <1>3, <1>4, FlagsTyped, PlacesTyped, FlagsStep, RssiStep, PTL DEF Spec

(***************************************************************************)
(* The keepalives                                                          *)
(***************************************************************************)

\* The inductive invariant: no tick has passed since the board last sent a signal
\* strength, or one will make it due; and during a scan the keepalive is all there
\* is, so the silence is as long as the scan.
SpeaksInv ==
    /\ board = "waiting" => serves = "nobody"
    /\ alive /\ ClientUp /\ loop = "streaming" /\ wire = <<>> =>
          /\ ~rssiDue => silence = 0
          /\ board = "scanning" => silence <= busy

\* A step that neither makes the client hear nothing nor lets time pass.
LEMMA SpeaksHolds ==
    ASSUME SpeaksInv, UNCHANGED <<board, serves, rssiDue, silence, busy>>,
           alive' /\ ClientUp' /\ loop' = "streaming" /\ wire' = <<>> =>
               alive /\ ClientUp /\ loop = "streaming" /\ wire = <<>>
    PROVE  SpeaksInv'
  BY DEF SpeaksInv

LEMMA SpeaksGo == SpeaksInv /\ Places /\ RssiInv /\ Go => SpeaksInv'
<1> SUFFICES ASSUME SpeaksInv, Places, RssiInv, Go PROVE SpeaksInv'
  OBVIOUS
<1> USE DEF LoopGoes, LoopMoves, monVars, goVars, boardVars
<1>1. CASE Wake \/ TakeStopChan \/ DialTop \/ DiscoverBridge \/ WaitForBridgeRetry
  BY <1>1 DEF Wake, TakeStopChan, DialTop, DiscoverBridge, WaitForBridgeRetry, SpeaksInv, ClientUp
<1>2. CASE DialFails \/ DialSucceeds
  BY <1>2 DEF DialFails, DialSucceeds, SpeaksInv, ClientUp
<1>3. CASE StreamBegins \/ ScanLine
  <2>1. /\ silence' = 0 /\ UNCHANGED <<board, serves, busy>>
    BY <1>3 DEF StreamBegins, ScanLine
  <2>2. 0 <= busy
    BY DEF Places
  <2> QED
    BY <2>1, <2>2 DEF SpeaksInv
<1>4. CASE StreamEnds \/ CloseBridge \/ Disconnect
  BY <1>4 DEF StreamEnds, CloseBridge, Disconnect, SpeaksInv
<1> QED
  BY <1>1, <1>2, <1>3, <1>4 DEF Go

\* A burst that is not empty leaves lines to be read.
LEMMA BurstIsHeard ==
    ASSUME NEW w \in Seq(Lines), NEW b \in Seq(Lines), b # <<>>
    PROVE  w \o b # <<>>
<1>1. Len(w) \in Nat /\ Len(b) \in Nat /\ Len(w \o b) = Len(w) + Len(b)
  BY LenProperties, ConcatProperties
<1>2. Len(b) # 0
  BY EmptySeq
<1>3. Len(w \o b) # 0
  BY <1>1, <1>2
<1> QED
  BY <1>3

LEMMA SpeaksBoard == SpeaksInv /\ Places /\ RssiInv /\ Board => SpeaksInv'
<1> SUFFICES ASSUME SpeaksInv, Places, RssiInv, Board PROVE SpeaksInv'
  OBVIOUS
<1> USE DEF BoardGoes, monVars, goVars
<1>1. wire \in Seq(Lines)
  BY DEF RssiInv
<1>2. UNCHANGED <<sock, loop, silence, alive>>
  BY DEF Board, BoardAccepts, BoardReleases, BoardScans, BoardHasProbe, ScanEnds,
         ConnectProbe, BoardReports, BoardMeasures, Drain
<1>3. CASE BoardAccepts
  <2>1. wire' # <<>> /\ board' = "top"
    BY <1>1, <1>3, AppendProperties DEF BoardAccepts, Lines
  <2> QED
    BY <2>1 DEF SpeaksInv
<1>4. CASE BoardReleases
  BY <1>4 DEF BoardReleases, SpeaksInv, ClientUp
<1>5. CASE BoardScans
  <2>1. /\ <<"comment">> \in Seq(Lines) /\ <<"comment">> # <<>>
        /\ <<"disconnected", "comment">> \in Seq(Lines) /\ <<"disconnected", "comment">> # <<>>
    BY DEF Lines
  <2>2. wire' # <<>> /\ board' = "scanning"
    <3>1. PICK b \in {<<"comment">>, <<"disconnected", "comment">>} : wire' = wire \o b
      BY <1>5 DEF BoardScans, Send
    <3> QED
      BY <1>1, <1>5, <2>1, <3>1, BurstIsHeard DEF BoardScans
  <2> QED
    BY <2>2 DEF SpeaksInv
<1>6. CASE BoardHasProbe \/ ScanEnds \/ ConnectProbe
  <2>1. /\ board' \notin {"waiting", "scanning"}
        /\ UNCHANGED <<wire, rssiDue, serves>>
    BY <1>6 DEF BoardHasProbe, ScanEnds, ConnectProbe
  <2> QED
    BY <1>2, <2>1 DEF SpeaksInv, ClientUp
<1>7. CASE BoardReports
  <2>1. /\ board' = "measuring" /\ UNCHANGED serves
        /\ rssiDue => rssiDue'
    BY <1>7 DEF BoardReports
  <2>2. wire' = <<>> => wire = <<>>
    <3>1. wire' = wire \/ wire' = wire \o <<>> \/ wire' = wire \o <<"connected">>
      BY <1>7 DEF BoardReports, Send
    <3>2. <<"connected">> \in Seq(Lines) /\ <<"connected">> # <<>>
      BY DEF Lines
    <3>3. wire \o <<>> = wire /\ wire \o <<"connected">> # <<>>
      BY <1>1, <3>2, ConcatEmptySeq, BurstIsHeard
    <3> QED
      BY <3>1, <3>3
  <2> QED
    BY <1>2, <2>1, <2>2 DEF SpeaksInv, ClientUp
<1>8. CASE BoardMeasures
  <2>1. board' = "draining" /\ UNCHANGED serves
    BY <1>8 DEF BoardMeasures
  <2>2. wire \o <<"R">> # <<>> /\ wire \o <<>> = wire
    <3>1. <<"R">> \in Seq(Lines) /\ <<"R">> # <<>>
      BY DEF Lines
    <3> QED
      BY <1>1, <3>1, BurstIsHeard, ConcatEmptySeq
  <2>3. CASE ClientUp /\ probe # "off" /\ rssiDue
    <3>1. wire' # <<>>
      BY <1>8, <2>2, <2>3 DEF BoardMeasures, Send
    <3> QED
      BY <2>1, <3>1 DEF SpeaksInv
  <2>4. CASE ClientUp /\ ~(probe # "off" /\ rssiDue)
    <3>1. wire' = wire /\ (rssiDue => rssiDue')
      BY <1>8, <2>2, <2>4 DEF BoardMeasures, Send
    <3> QED
      BY <1>2, <2>1, <3>1 DEF SpeaksInv, ClientUp
  <2>5. CASE ~ClientUp
    BY <1>2, <2>1, <2>5 DEF SpeaksInv, ClientUp
  <2> QED
    BY <2>3, <2>4, <2>5
<1>9. CASE Drain
  <2>1. /\ board' \in {"draining", "top"} /\ UNCHANGED <<rssiDue, serves>>
        /\ wire' = wire \/ (ClientUp /\ wire' = wire \o <<"T">>)
    BY <1>9 DEF Drain, Send
  <2>2. <<"T">> \in Seq(Lines) /\ <<"T">> # <<>>
    BY DEF Lines
  <2>3. wire' = <<>> => wire' = wire
    BY <1>1, <2>1, <2>2, BurstIsHeard
  <2> QED
    BY <1>2, <2>1, <2>3 DEF SpeaksInv, ClientUp
<1> QED
  BY <1>3, <1>4, <1>5, <1>6, <1>7, <1>8, <1>9 DEF Board

LEMMA SpeaksStep == SpeaksInv /\ Places /\ RssiInv /\ [Next]_vars => SpeaksInv'
<1> SUFFICES ASSUME SpeaksInv, Places, RssiInv, [Next]_vars PROVE SpeaksInv'
  OBVIOUS
<1> USE DEF monVars, goVars, boardVars
<1>1. CASE Start \/ Stop \/ OnNotify \/ OnDisconnect \/ UNCHANGED vars
  BY <1>1, SpeaksHolds DEF Start, Stop, OnNotify, OnDisconnect, ClientUp, vars
<1>2. CASE Watchdog
  BY <1>2, SpeaksHolds DEF Watchdog, WatchStop, WatchSilence, WatchCloses, Verdict, ClientUp
<1>3. CASE Wedge \/ BoardRestarts
  BY <1>3 DEF Wedge, BoardRestarts, SpeaksInv, ClientUp
<1>4. CASE Tick
  <2>1. /\ rssiDue' = TRUE
        /\ UNCHANGED <<alive, sock, serves, loop, wire, board>>
    BY <1>4 DEF Tick
  <2>2. alive /\ board = "scanning" => busy' = busy + 1
    BY <1>4 DEF Tick
  <2>3. silence' <= silence + 1 /\ silence \in Nat /\ busy \in Nat
    BY <1>4, TicksPositive DEF Tick, Places
  <2>4. silence' \in Int
    BY <1>4, <2>3 DEF Tick
  <2> QED
    BY <2>1, <2>2, <2>3, <2>4 DEF SpeaksInv, ClientUp
<1> QED
  BY <1>1, <1>2, <1>3, <1>4, SpeaksGo, SpeaksBoard DEF Next

\* The keepalive before each scan and the signal strength that is due after each
\* tick carry a stream through any number of scans and gaps, with any timeouts: a
\* board at work is never silent for longer than a scan (main.cpp's loop), but for
\* the time its library takes to connect to the probe.
THEOREM WorkingBoardIsHeard == Spec => []WorkingBoardSpeaks
<1>1. Init => SpeaksInv /\ Places /\ RssiInv /\ FlagsFollowSocket
  BY TicksPositive, CapsPositive
  DEF Init, BoardInit, SpeaksInv, Places, LoopPCs, RssiInv, RssiHasProbe, ClientUp,
      FlagsFollowSocket
<1>2. SpeaksInv /\ Places => WorkingBoardSpeaks
  <2> SUFFICES ASSUME SpeaksInv, Places, alive, BoardQuiet, board # "attaching", ClientUp,
                      loop = "streaming", wire = <<>>
               PROVE  silence <= 1
    BY DEF WorkingBoardSpeaks
  <2>1. silence \in Nat /\ busy \in Nat
    BY TicksPositive DEF Places
  <2>2. board # "waiting"
    BY DEF SpeaksInv, ClientUp
  <2>3. (board = "scanning" /\ busy < 1) \/ ~rssiDue
    BY <2>2 DEF BoardQuiet
  <2>4. board = "scanning" => silence <= busy
    BY DEF SpeaksInv
  <2>5. ~rssiDue => silence = 0
    BY DEF SpeaksInv
  <2> QED
    BY <2>1, <2>3, <2>4, <2>5
<1> QED
  BY <1>1, <1>2, SpeaksStep, PlacesTyped, RssiStep, FlagsStep, PTL DEF Spec

(***************************************************************************)
(* The loss of a probe                                                     *)
(***************************************************************************)

\* The lines from which the Monitor takes a probe to be connected.
Announcing == {"connected", "T"}

\* Once w is read, by a Monitor that reports c, it reports no probe: it was told of a
\* loss there, or reports none now, and nothing since says otherwise.
Gone(w, c) ==
    \/ \E j \in 1 .. Len(w) :
          w[j] = "disconnected" /\ \A k \in j + 1 .. Len(w) : w[k] \notin Announcing
    \/ c # "connected" /\ \A k \in 1 .. Len(w) : w[k] \notin Announcing

\* A loss is not taken back by a signal strength or a keepalive.
LEMMA LossStands ==
    ASSUME NEW w \in Seq(Lines), NEW x \in Lines, NEW c, Gone(w, c), x \notin Announcing
    PROVE  Gone(Append(w, x), c)
<1> DEFINE v == Append(w, x)
<1>1. /\ Len(w) \in Nat /\ Len(v) = Len(w) + 1
      /\ \A k \in 1 .. Len(w) : v[k] = w[k]
      /\ v[Len(w) + 1] = x
  BY AppendProperties, LenProperties
<1> HIDE DEF v
<1>2. ASSUME NEW k \in 1 .. Len(v), k \in 1 .. Len(w) => w[k] \notin Announcing
      PROVE  v[k] \notin Announcing
  BY <1>1, <1>2
<1>3. CASE c # "connected" /\ \A k \in 1 .. Len(w) : w[k] \notin Announcing
  BY <1>2, <1>3 DEF Gone, v
<1>4. ASSUME NEW j \in 1 .. Len(w), w[j] = "disconnected",
             \A k \in j + 1 .. Len(w) : w[k] \notin Announcing
      PROVE  Gone(v, c)
  <2>1. j \in 1 .. Len(v) /\ v[j] = "disconnected"
    BY <1>1, <1>4
  <2>2. \A k \in j + 1 .. Len(v) : v[k] \notin Announcing
    BY <1>1, <1>2, <1>4
  <2> QED
    BY <2>1, <2>2 DEF Gone
<1> QED
  BY <1>3, <1>4 DEF Gone, v

\* To say that the probe is gone is enough, whatever was said before.
LEMMA LossSaid ==
    ASSUME NEW w \in Seq(Lines), NEW c
    PROVE  Gone(Append(w, "disconnected"), c)
<1> DEFINE v == Append(w, "disconnected")
           n == Len(w) + 1
<1>1. n \in Nat /\ n >= 1 /\ Len(v) = n /\ v[n] = "disconnected"
  BY AppendProperties, LenProperties DEF Lines
<1> HIDE DEF v, n
<1>2. n \in 1 .. Len(v) /\ n + 1 .. Len(v) = {}
  BY <1>1
<1> QED
  BY <1>1, <1>2 DEF Gone, v

\* To read a line is to move what it says into the Monitor's report.
LEMMA LossHeard ==
    ASSUME NEW w \in Seq(Lines), w # <<>>, NEW c, NEW d, Gone(w, c),
           w[1] = "disconnected" => d # "connected",
           w[1] \notin Announcing /\ c # "connected" => d # "connected"
    PROVE  Gone(Tail(w), d)
<1> DEFINE v == Tail(w)
<1>1. /\ Len(w) \in Nat /\ Len(w) >= 1 /\ Len(v) = Len(w) - 1
      /\ \A k \in 1 .. Len(v) : v[k] = w[k + 1]
  BY HeadTailProperties, LenProperties, EmptySeq
<1> HIDE DEF v
<1>2. CASE c # "connected" /\ \A k \in 1 .. Len(w) : w[k] \notin Announcing
  <2>1. \A k \in 1 .. Len(v) : v[k] \notin Announcing
    BY <1>1, <1>2
  <2>2. d # "connected"
    BY <1>1, <1>2
  <2> QED
    BY <2>1, <2>2 DEF Gone, v
<1>3. ASSUME NEW j \in 1 .. Len(w), w[j] = "disconnected",
             \A k \in j + 1 .. Len(w) : w[k] \notin Announcing
      PROVE  Gone(v, d)
  <2>1. CASE j = 1
    <3>1. \A k \in 1 .. Len(v) : v[k] \notin Announcing
      BY <1>1, <1>3, <2>1
    <3> QED
      BY <1>3, <2>1, <3>1 DEF Gone
  <2>2. CASE j # 1
    <3>1. j - 1 \in 1 .. Len(v) /\ v[j - 1] = "disconnected"
      BY <1>1, <1>3, <2>2
    <3>2. \A k \in (j - 1) + 1 .. Len(v) : v[k] \notin Announcing
      BY <1>1, <1>3, <2>2
    <3> QED
      BY <3>1, <3>2 DEF Gone
  <2> QED
    BY <2>1, <2>2
<1> QED
  BY <1>2, <1>3 DEF Gone, v

\* A Monitor that stops reporting a probe is told no less of its loss.
LEMMA LossKept ==
    ASSUME NEW w, NEW c, NEW d, Gone(w, c), d = "connected" => c = "connected"
    PROVE  Gone(w, d)
  BY DEF Gone

\* The board has told its client of no probe, and owes it none.
Unannounced == reported # "connected" /\ ~unsaid

\* The inductive invariant: a client the board has not told of a probe is being told
\* of none.  The board owes that to its drain, which finds payloads only after it has
\* reported their probe, unless the probe was lost in between.
LossInv ==
    /\ sock = "open" /\ serves # "current" => wire = <<>> /\ ~connected
    /\ ClientUp /\ Unannounced => Gone(wire, Report)
    /\ board = "scanning" => reported # "connected"
    /\ board = "reporting" /\ Unannounced => queue = 0 \/ probe # "off"
    /\ board \in {"measuring", "draining"} /\ Unannounced => queue = 0 /\ probe = "off"

LEMMA LossScanLine == LossInv /\ RssiInv /\ ScanLine => LossInv'
<1> SUFFICES ASSUME LossInv, RssiInv, ScanLine PROVE LossInv'
  OBVIOUS
<1> DEFINE line == wire[1]
<1>1. /\ wire \in Seq(Lines) /\ wire # <<>> /\ wire' = Tail(wire)
      /\ UNCHANGED <<sock, serves, reported, unsaid, board, queue, probe>>
  BY DEF ScanLine, RssiInv, boardVars
<1>2. Hear(line) \/ (line \in {"T", "R"} /\ UNCHANGED <<connected, hasRSSI>>)
  <2>1. Head(wire) = line
    BY <1>1
  <2> QED
    BY <2>1 DEF ScanLine
<1> HIDE DEF line
<1>3. /\ line = "disconnected" => Report' # "connected"
      /\ line \notin Announcing /\ Report # "connected" => Report' # "connected"
  <2>1. (Report = "connected" => connected) /\ (Report = "connected" => connected)'
    BY DEF Report
  <2>2. connected => Report = "connected"
    BY DEF Report
  <2>3. CASE Hear(line)
    <3>1. line = "disconnected" => ~connected'
      BY <2>3 DEF Hear
    <3>2. line \notin Announcing => ~connected' \/ connected' = connected
      BY <2>3 DEF Hear, Announcing
    <3> QED
      BY <2>1, <2>2, <3>1, <3>2
  <2>4. CASE line \in {"T", "R"} /\ UNCHANGED <<connected, hasRSSI>>
    BY <2>1, <2>2, <2>4
  <2> QED
    BY <1>2, <2>3, <2>4
<1>4. ASSUME ClientUp, Unannounced PROVE Gone(wire', Report')
  <2>1. Gone(wire, Report)
    BY <1>4 DEF LossInv
  <2> QED
    BY <1>1, <1>3, <2>1, LossHeard DEF line
<1> QED
  BY <1>1, <1>4 DEF LossInv, Unannounced, ClientUp

LEMMA LossGo == LossInv /\ RssiInv /\ FlagsFollowSocket /\ Go => LossInv'
<1> SUFFICES ASSUME LossInv, RssiInv, FlagsFollowSocket, Go PROVE LossInv'
  OBVIOUS
<1> USE DEF LoopGoes, LoopMoves, monVars, goVars, boardVars
<1>1. CASE Wake \/ TakeStopChan \/ DialTop \/ DiscoverBridge \/ WaitForBridgeRetry \/ DialFails
  <2>1. UNCHANGED <<sock, wire, serves, reported, unsaid, board, queue, probe, connected>>
    BY <1>1 DEF Wake, TakeStopChan, DialTop, DiscoverBridge, WaitForBridgeRetry, DialFails
  <2> QED
    BY <2>1 DEF LossInv, Unannounced, ClientUp, Report
<1>2. CASE DialSucceeds
  <2>1. /\ wire' = <<>> /\ serves' # "current"
        /\ UNCHANGED <<reported, unsaid, board, queue, probe, connected>> /\ ~connected
    BY <1>2 DEF DialSucceeds, FlagsFollowSocket
  <2> QED
    BY <2>1 DEF LossInv, Unannounced, ClientUp
<1>3. CASE StreamBegins \/ StreamEnds
  <2>1. UNCHANGED <<sock, wire, serves, reported, unsaid, board, queue, probe, connected>>
    BY <1>3 DEF StreamBegins, StreamEnds
  <2> QED
    BY <2>1 DEF LossInv, Unannounced, ClientUp, Report
<1>4. CASE ScanLine
  BY <1>4, LossScanLine
<1>5. CASE CloseBridge \/ Disconnect
  <2>1. sock' # "open" /\ UNCHANGED <<reported, unsaid, board, queue, probe>>
    BY <1>5 DEF CloseBridge, Disconnect, RssiInv
  <2> QED
    BY <2>1 DEF LossInv, Unannounced, ClientUp
<1> QED
  BY <1>1, <1>2, <1>3, <1>4, <1>5 DEF Go

LEMMA LossBoard == LossInv /\ RssiInv /\ Places /\ Board => LossInv'
<1> SUFFICES ASSUME LossInv, RssiInv, Places, Board PROVE LossInv'
  OBVIOUS
<1> USE DEF BoardGoes, monVars, goVars
<1>1. wire \in Seq(Lines)
  BY DEF RssiInv
<1>2. UNCHANGED <<sock, connected>> /\ Report' = Report
  BY DEF Board, BoardAccepts, BoardReleases, BoardScans, BoardHasProbe, ScanEnds,
         ConnectProbe, BoardReports, BoardMeasures, Drain, Report
<1>3. CASE BoardAccepts
  <2>1. /\ sock = "open" /\ serves = "nobody" /\ serves' = "current" /\ board' = "top"
        /\ wire' = Append(wire, "comment")
    BY <1>3 DEF BoardAccepts
  <2>2. Gone(wire, Report)
    <3>1. wire = <<>> /\ ~connected
      BY <2>1 DEF LossInv
    <3>2. 1 .. Len(wire) = {}
      BY <3>1
    <3> QED
      BY <3>1, <3>2 DEF Gone, Report
  <2>3. Gone(wire', Report')
    BY <1>1, <1>2, <2>1, <2>2, LossStands DEF Lines, Announcing
  <2> QED
    BY <2>1, <2>3 DEF LossInv, Unannounced, ClientUp
<1>4. CASE BoardReleases
  BY <1>2, <1>4 DEF BoardReleases, LossInv, Unannounced, ClientUp
<1>5. CASE BoardScans
  <2>1. /\ ClientUp /\ ClientUp' /\ serves' = "current"
        /\ board' = "scanning" /\ reported' = "disconnected"
        /\ unsaid' = (unsaid /\ reported = "disconnected")
    BY <1>2, <1>5 DEF BoardScans, ClientUp
  <2>2. CASE reported # "disconnected"
    <3>1. wire' = Append(Append(wire, "disconnected"), "comment")
      BY <1>1, <1>5, <2>1, <2>2, TwoLines DEF BoardScans, Send, Lines
    <3>2. /\ Append(wire, "disconnected") \in Seq(Lines)
          /\ Gone(Append(wire, "disconnected"), Report)
      BY <1>1, LossSaid, AppendProperties DEF Lines
    <3>3. Gone(wire', Report')
      BY <1>2, <3>1, <3>2, LossStands DEF Lines, Announcing
    <3> QED
      BY <2>1, <3>3 DEF LossInv
  <2>3. CASE reported = "disconnected" /\ unsaid
    <3>1. ~Unannounced'
      BY <2>1, <2>3 DEF Unannounced
    <3> QED
      BY <2>1, <3>1 DEF LossInv
  <2>4. CASE reported = "disconnected" /\ ~unsaid
    <3>1. wire' = Append(wire, "comment")
      BY <1>1, <1>5, <2>1, <2>4, TwoLines DEF BoardScans, Send, Lines
    <3>2. Gone(wire, Report)
      BY <2>1, <2>4 DEF LossInv, Unannounced
    <3>3. Gone(wire', Report')
      BY <1>1, <1>2, <3>1, <3>2, LossStands DEF Lines, Announcing
    <3> QED
      BY <2>1, <3>3 DEF LossInv
  <2> QED
    BY <2>2, <2>3, <2>4
<1>6. CASE BoardHasProbe \/ ScanEnds
  <2>1. /\ UNCHANGED <<wire, serves, reported, unsaid, queue, probe>>
        /\ board' \in {"reporting", "top", "attaching"}
        /\ board' = "reporting" => probe # "off"
    BY <1>6 DEF BoardHasProbe, ScanEnds
  <2> QED
    BY <1>2, <2>1 DEF LossInv, Unannounced, ClientUp
<1>7. CASE ConnectProbe
  <2>1. /\ UNCHANGED <<wire, serves, reported, unsaid, queue>>
        /\ board' \in {"reporting", "top"}
        /\ board' = "reporting" => probe' # "off"
    BY <1>7 DEF ConnectProbe
  <2> QED
    BY <1>2, <2>1 DEF LossInv, Unannounced, ClientUp
<1>8. CASE BoardReports \/ BoardMeasures
  <2>1. /\ board \in {"reporting", "measuring"} /\ board' \in {"measuring", "draining"}
        /\ UNCHANGED <<serves, probe, queue>>
        /\ ~ClientUp => wire' = wire
    BY <1>8 DEF BoardReports, BoardMeasures, Send
  <2>2. ASSUME Unannounced'
        PROVE  Unannounced /\ wire' = wire /\ queue = 0 /\ probe = "off"
    <3>1. wire \o <<>> = wire
      BY <1>1, ConcatEmptySeq
    <3>2. CASE BoardReports
      <4>1. probe = "off" /\ Unannounced /\ board = "reporting"
        BY <2>2, <3>2 DEF BoardReports, Unannounced
      <4>2. wire' = wire
        BY <3>1, <3>2, <4>1 DEF BoardReports, Send
      <4> QED
        BY <4>1, <4>2 DEF LossInv
    <3>3. CASE BoardMeasures
      <4>1. Unannounced /\ board = "measuring"
        BY <2>2, <3>3 DEF BoardMeasures, Unannounced
      <4>2. probe = "off" /\ queue = 0
        BY <4>1 DEF LossInv
      <4>3. wire' = wire
        BY <3>1, <3>3, <4>2 DEF BoardMeasures, Send
      <4> QED
        BY <4>1, <4>2, <4>3
    <3> QED
      BY <1>8, <3>2, <3>3
  <2>3. sock' = "open" /\ serves' # "current" => wire' = <<>> /\ ~connected'
    BY <1>2, <2>1 DEF LossInv, ClientUp
  <2>4. ClientUp' = ClientUp
    BY <1>2, <2>1 DEF ClientUp
  <2> QED
    BY <1>2, <2>1, <2>2, <2>3, <2>4 DEF LossInv
<1>9. CASE Drain
  <2>1. /\ board = "draining" /\ board' \in {"draining", "top"}
        /\ UNCHANGED <<serves, reported, unsaid, probe>>
        /\ ~ClientUp => wire' = wire
        /\ queue = 0 => UNCHANGED <<wire, queue>>
    BY <1>9 DEF Drain, Send
  <2>2. sock' = "open" /\ serves' # "current" => wire' = <<>> /\ ~connected'
    BY <1>2, <2>1 DEF LossInv, Unannounced, ClientUp
  <2>3. Unannounced => UNCHANGED <<wire, queue>>
    BY <2>1 DEF LossInv
  <2> QED
    BY <1>2, <2>1, <2>2, <2>3 DEF LossInv, Unannounced, ClientUp
<1> QED
  BY <1>3, <1>4, <1>5, <1>6, <1>7, <1>8, <1>9 DEF Board

LEMMA LossStep ==
    LossInv /\ RssiInv /\ Places /\ FlagsFollowSocket /\ [Next]_vars => LossInv'
<1> SUFFICES ASSUME LossInv, RssiInv, Places, FlagsFollowSocket, [Next]_vars PROVE LossInv'
  OBVIOUS
<1> USE DEF monVars, goVars, boardVars
<1>1. CASE Start \/ Wedge \/ Tick \/ UNCHANGED vars
  <2>1. UNCHANGED <<sock, wire, serves, reported, unsaid, board, queue, probe, connected>>
    BY <1>1 DEF Start, Wedge, Tick, vars
  <2> QED
    BY <2>1 DEF LossInv, Unannounced, ClientUp, Report
<1>2. CASE Stop
  <2>1. connected' = FALSE /\ UNCHANGED <<sock, wire, serves, reported, unsaid, board, queue, probe>>
    BY <1>2 DEF Stop
  <2>2. Gone(wire, Report) => Gone(wire, Report')
    BY <2>1, LossKept DEF Report
  <2> QED
    BY <2>1, <2>2 DEF LossInv, Unannounced, ClientUp
<1>3. CASE Watchdog
  <2>1. /\ UNCHANGED <<wire, serves, reported, unsaid, board, queue, probe, connected>>
        /\ sock' \in {sock, "closed"}
    BY <1>3 DEF Watchdog, WatchStop, WatchSilence, WatchCloses, Verdict
  <2> QED
    BY <2>1 DEF LossInv, Unannounced, ClientUp, Report
<1>4. CASE OnNotify
  <2>1. /\ probe # "off"
        /\ UNCHANGED <<sock, wire, serves, reported, unsaid, board, probe, connected>>
    BY <1>4 DEF OnNotify
  <2> QED
    BY <2>1 DEF LossInv, Unannounced, ClientUp, Report
<1>5. CASE OnDisconnect
  <2>1. /\ UNCHANGED <<sock, wire, serves, reported, board, queue, connected>>
        /\ probe' = "off" /\ unsaid' = (unsaid \/ FirstPayloadUnreported)
    BY <1>5 DEF OnDisconnect
  <2>2. board = "reporting" /\ Unannounced' => queue = 0
    <3>1. board = "reporting" /\ Unannounced' => ~(queue > 0)
      BY <2>1 DEF Unannounced, FirstPayloadUnreported
    <3>2. queue \in Nat
      BY CapsPositive DEF Places
    <3>3. ~(queue > 0) => queue = 0
      BY <3>2
    <3> QED
      BY <3>1, <3>3
  <2>3. Unannounced' => Unannounced
    BY <2>1 DEF Unannounced
  <2>4. ClientUp' = ClientUp /\ Report' = Report
    BY <2>1 DEF ClientUp, Report
  <2> QED
    BY <2>1, <2>2, <2>3, <2>4 DEF LossInv
<1>6. CASE BoardRestarts
  <2>1. sock' # "open" /\ board' = "waiting"
    BY <1>6 DEF BoardRestarts
  <2> QED
    BY <2>1 DEF LossInv, Unannounced, ClientUp
<1> QED
  BY <1>1, <1>2, <1>3, <1>4, <1>5, <1>6, LossGo, LossBoard DEF Next

\* Whatever connections, probes, drops and clients came before, a stream whose lines
\* are all read reports no probe while the board scans for one (main.cpp:316-356), but
\* for the scans after a probe was lost between its first payload and its status line.
THEOREM ScanIsKnown == Spec => []ScanningIsKnown
<1>1. Init => LossInv /\ RssiInv /\ Places /\ FlagsFollowSocket
  BY TicksPositive, CapsPositive
  DEF Init, BoardInit, LossInv, Places, LoopPCs, RssiInv, RssiHasProbe, ClientUp,
      FlagsFollowSocket
<1>2. LossInv => ScanningIsKnown
  <2> SUFFICES ASSUME LossInv, board = "scanning", ClientUp, wire = <<>>, ~unsaid
               PROVE  ~connected
    BY DEF ScanningIsKnown
  <2>1. Gone(wire, Report) /\ 1 .. Len(wire) = {}
    BY DEF LossInv, Unannounced
  <2> QED
    BY <2>1 DEF Gone, Report
<1> QED
  BY <1>1, <1>2, LossStep, PlacesTyped, RssiStep, FlagsStep, PTL DEF Spec

=============================================================================
