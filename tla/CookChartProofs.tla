--------------------------- MODULE CookChartProofs ---------------------------
(***************************************************************************)
(* Theorems about the chart of the current cook in CookSession: what it    *)
(* shows is in the store or on its way there, and it is in order.          *)
(***************************************************************************)
EXTENDS CookSessionProofs

USE MaxCooksNat, KeepEndedNat, BoundsNat

(***************************************************************************)
(* Helpers: what Retain keeps, and what a restart charts                   *)
(***************************************************************************)

\* Retain drops the k oldest samples and never the newest.
LEMMA RetainDropsOldest ==
    ASSUME NEW h \in Seq(Times)
    PROVE  \E k \in Nat :
              /\ Len(Retain(h)) = Len(h) - k
              /\ h # <<>> => k < Len(h)
              /\ \A i \in 1 .. Len(Retain(h)) : Retain(h)[i] = h[i + k]
<1> DEFINE excess == Len(h) - HistoryLimit
<1>1. CASE excess > 0
  <2>1. \A i \in excess + 1 .. Len(h) : h[i] \in Times
    BY <1>1
  <2>2. /\ Len(SubSeq(h, excess + 1, Len(h))) = Len(h) - excess
        /\ \A i \in 1 .. Len(h) - excess : SubSeq(h, excess + 1, Len(h))[i] = h[i + excess]
    BY <1>1, <2>1, SubSeqProperties
  <2>3. excess \in Nat /\ excess < Len(h)
    BY <1>1
  <2>4. QED BY <1>1, <2>2, <2>3 DEF Retain
<1>2. CASE ~(excess > 0)
  <2>1. Retain(h) = h
    BY <1>2 DEF Retain
  <2>2. \A i \in 1 .. Len(h) : h[i] = h[i + 0]
    OBVIOUS
  <2>3. QED BY <2>1, <2>2
<1>3. QED BY <1>1, <1>2

\* A retained sample was in the chart or is the reading just taken.
LEMMA RetainedFrom ==
    ASSUME NEW h \in Seq(Times), NEW at \in Times,
           NEW i \in DOMAIN Retain(Append(h, at))
    PROVE  \/ Retain(Append(h, at))[i] = at
           \/ \E j \in DOMAIN h : Retain(Append(h, at))[i] = h[j]
<1> DEFINE a == Append(h, at)
<1>1. a \in Seq(Times) /\ Len(a) = Len(h) + 1
  BY AppendProperties
<1>2. PICK k \in Nat :
          /\ Len(Retain(a)) = Len(a) - k
          /\ \A n \in 1 .. Len(Retain(a)) : Retain(a)[n] = a[n + k]
  BY <1>1, RetainDropsOldest
<1>3. i \in 1 .. Len(Retain(a))
  BY <1>1, RetainType
<1>4. i + k \in 1 .. Len(h) + 1 /\ Retain(a)[i] = a[i + k]
  BY <1>1, <1>2, <1>3
<1>5. CASE i + k = Len(h) + 1
  BY <1>4, <1>5, AppendProperties
<1>6. CASE i + k \in 1 .. Len(h)
  BY <1>4, <1>6, AppendProperties
<1>7. QED BY <1>4, <1>5, <1>6

\* What a restart charts are samples of the cook, in the order of their times.
LEMMA ResumedChart ==
    ASSUME StoreTypeOK, NEW c, NEW h \in Oldest1st(SampleTimes(c))
    PROVE  /\ Retain(h) \in Seq(Times)
           /\ \A i \in DOMAIN Retain(h) : Retain(h)[i] \in SampleTimes(c)
           /\ \A i, j \in DOMAIN Retain(h) : i < j => Retain(h)[i] <= Retain(h)[j]
<1>1. IsFiniteSet(SampleTimes(c)) /\ SampleTimes(c) \subseteq Times
  BY SampleTimesFinite
<1>2. Cardinality(SampleTimes(c)) \in Nat
  BY <1>1, FS_CardinalityType
<1>3. h \in [1..Cardinality(SampleTimes(c)) -> SampleTimes(c)]
  BY DEF Oldest1st, SetToSeqs
<1>4. /\ h \in Seq(Times) /\ DOMAIN h = 1 .. Len(h)
      /\ \A i \in 1 .. Len(h) : h[i] \in SampleTimes(c) /\ h[i] \in Nat
      /\ \A i, j \in 1 .. Len(h) : i < j => h[i] < h[j]
  BY <1>1, <1>2, <1>3 DEF Oldest1st, Times
<1>5. PICK k \in Nat :
          /\ Len(Retain(h)) = Len(h) - k
          /\ \A n \in 1 .. Len(Retain(h)) : Retain(h)[n] = h[n + k]
  BY <1>4, RetainDropsOldest
<1>6. Retain(h) \in Seq(Times) /\ DOMAIN Retain(h) = 1 .. Len(Retain(h))
  BY <1>4, RetainType
<1>7. \A i \in 1 .. Len(Retain(h)) : i + k \in 1 .. Len(h)
  BY <1>4, <1>5, <1>6
<1>8. \A i \in 1 .. Len(Retain(h)) : Retain(h)[i] \in SampleTimes(c) /\ Retain(h)[i] \in Nat
  BY <1>4, <1>5, <1>7
<1>9. ASSUME NEW i \in 1 .. Len(Retain(h)), NEW j \in 1 .. Len(Retain(h)), i < j
      PROVE  Retain(h)[i] <= Retain(h)[j]
  <2>1. i + k < j + k /\ i + k \in 1 .. Len(h) /\ j + k \in 1 .. Len(h)
    BY <1>7, <1>9
  <2>2. Retain(h)[i] = h[i + k] /\ Retain(h)[j] = h[j + k]
    BY <1>5
  <2>3. h[i + k] < h[j + k] /\ h[i + k] \in Nat /\ h[j + k] \in Nat
    BY <1>4, <2>1
  <2>4. QED BY <2>2, <2>3
<1>10. QED BY <1>6, <1>8, <1>9

(***************************************************************************)
(* What the chart shows is in the store, or an Update is about to put it   *)
(* there                                                                   *)
(***************************************************************************)

\* The sample of time at of cook c is in the store, or on its way.
Kept(c, at) ==
    \/ [cook |-> c, at |-> at] \in samples
    \/ \E r \in Readers : upd[r] = [pc |-> "append", at |-> at, cook |-> c]

\* While no statement fails, a sample of an open cook that is kept stays kept
\* until the process dies.
LEMMA KeptStays ==
    ASSUME ~StoreMayFail, TypeOK, CookInv, [Next]_vars, ~Crash,
           NEW c \in Open, NEW at \in Times, Kept(c, at)
    PROVE  Kept(c, at)'
<1> DEFINE s == [cook |-> c, at |-> at]
           u == [pc |-> "append", at |-> at, cook |-> c]
<1>1. CASE s \in samples
  <2>1. s \in samples'
    BY <1>1, StepKeepsSamples
  <2>2. QED BY <2>1 DEF Kept
<1>2. ASSUME NEW r \in Readers, upd[r] = u
      PROVE  Kept(c, at)'
  <2>1. ASSUME NEW q \in Readers, UpdateBegin(q) \/ Update(q)
        PROVE  Kept(c, at)'
    <3>1. CASE UpdateAppends(q)
      <4>1. CASE q = r
        BY <1>2, <3>1, <4>1 DEF UpdateAppends, InsertSample, Kept
      <4>2. CASE q # r
        BY <1>2, <3>1, <4>2 DEF UpdateAppends, Kept, TypeOK
      <4>3. QED BY <4>1, <4>2
    <3>2. CASE UpdateBegin(q) \/ UpdateLive(q) \/ UpdateOpens(q) \/ UpdateOpenFails(q)
      <4>1. q # r
        BY <1>2, <3>2 DEF UpdateBegin, UpdateLive, UpdateOpens, UpdateOpenFails
      <4>2. upd'[r] = upd[r]
        BY <3>2, <4>1 DEF UpdateBegin, UpdateLive, UpdateOpens, UpdateOpenFails, Record, TypeOK
      <4>3. QED BY <1>2, <4>2 DEF Kept
    <3>3. QED BY <2>1, <3>1, <3>2 DEF Update
  <2>2. CASE UNCHANGED upd
    BY <1>2, <2>2 DEF Kept
  <2>3. UNCHANGED upd \/ \E q \in Readers : UpdateBegin(q) \/ Update(q)
    BY DEF Next, Handler, Start, Stop, NewCook, DeleteCook, JanitorLook, JanitorClear,
       Statement, EndCookStmt, PruneSamples, PruneRows, StatementFails, DeleteCookSamples,
       DeleteCookRow, Link, Wake, TakeStopChan, DialStopped, Dialed, StatusLine, StreamEnds,
       LinkCloses, LinkStep, Startup, ResumeNothing, ResumeStale, ResumeCook, ResumeUnread,
       Tick, vars
  <2>4. QED BY <2>1, <2>2, <2>3
<1>3. QED BY <1>1, <1>2 DEF Kept

\* A step begins a chart, goes on with it, or leaves it and the cook alone; a cook
\* that is the monitor's and not open does not become open.
LEMMA ChartSteps ==
    ASSUME ~StoreMayFail, TypeOK, CookInv, [Next]_vars, cookID' \in Open'
    PROVE  \/ cookID \in Open /\ cookID' = cookID /\ history' = history /\ ~Crash
           \/ \E r \in Readers : UpdateLive(r) /\ cookID \in Open
           \/ \E r \in Readers : UpdateOpens(r)
           \/ ResumeCook
<1> USE Apart DEF storeVars, monVars
<1>1. cookID' \in CookIds /\ cookID' # NoCook
  BY DEF Open
<1>2. ~Crash
  BY <1>1 DEF Crash
<1>3. ASSUME NEW h \in Handlers, Handler(h)
      PROVE  cookID' = NoCook \/ UNCHANGED <<row, cookID, history>>
  BY <1>3 DEF Handler, Start, Stop, NewCook, DeleteCook
<1>4. CASE JanitorLook \/ JanitorClear
  BY <1>1, <1>4, <1>2 DEF JanitorLook, JanitorClear, Open
<1>5. ASSUME NEW t \in Threads, Statement(t)
      PROVE  UNCHANGED <<cookID, history>> /\ Open' \subseteq Open
  BY <1>5 DEF Statement, EndCookStmt, EndCook, PruneSamples, PruneRows, StatementFails,
     DeleteCookSamples, DeleteCookRow, DeleteSamplesOf, DeleteRowsOf, Open, TypeOK,
     StoreTypeOK
<1>6. ASSUME NEW r \in Readers, UpdateBegin(r) \/ UpdateAppends(r)
      PROVE  UNCHANGED <<row, cookID, history>>
  BY <1>6 DEF UpdateBegin, UpdateAppends, InsertSample
<1>7. ASSUME NEW r \in Readers, UpdateLive(r)
      PROVE  cookID \in Open
  BY <1>7 DEF UpdateLive, Record, Open
<1>8. CASE Link \/ Tick \/ UNCHANGED vars
  <2>1. UNCHANGED <<row, cookID, history>>
    BY <1>8 DEF Link, Wake, TakeStopChan, DialStopped, Dialed, StatusLine, StreamEnds,
       LinkCloses, LinkStep, Tick, vars
  <2>2. QED BY <1>2, <2>1 DEF Open
<1>9. CASE Startup
  <2>1. ~ResumeCook => UNCHANGED <<row, cookID, history>>
    BY <1>9 DEF Startup, ResumeNothing, ResumeStale, ResumeUnread
  <2>2. QED BY <1>2, <2>1 DEF Open
<1>10. QED
  BY <1>1, <1>3, <1>4, <1>5, <1>6, <1>7, <1>8, <1>9, <1>2
  DEF Next, Update, UpdateOpenFails, Open

\* The samples a step adds to the chart are kept, and those that stay stay kept.
LEMMA ChartNext ==
    ASSUME ~StoreMayFail, TypeOK, CookInv, ChartIsPersisted, [Next]_vars
    PROVE  ChartIsPersisted'
<1> SUFFICES ASSUME cookID' \in Open', NEW i \in DOMAIN history',
                    NEW c, c = cookID', NEW at, at = history'[i]
             PROVE  Kept(c, at)'
  BY DEF ChartIsPersisted, Kept
<1>1. history \in Seq(Times) /\ history' \in Seq(Times) /\ c \in CookIds
  BY NextType DEF TypeOK, Open
<1>2. ASSUME c = cookID, c \in Open, NEW j \in DOMAIN history, at = history[j], ~Crash
      PROVE  Kept(c, at)'
  <2>1. Kept(c, at) /\ at \in Times
    BY <1>1, <1>2 DEF ChartIsPersisted, Kept
  <2>2. QED BY <1>2, <2>1, KeptStays
<1>3. CASE cookID \in Open /\ cookID' = cookID /\ history' = history /\ ~Crash
  BY <1>2, <1>3
<1>4. ASSUME NEW r \in Readers, upd[r].pc = "lock",
             \/ Record(r, history, cookID) /\ cookID \in Open
             \/ Record(r, <<>>, c),
             ~Crash, cookID' # NoCook
      PROVE  Kept(c, at)'
  <2> DEFINE chart == IF Record(r, <<>>, c) THEN <<>> ELSE history
  <2>1. /\ upd[r].at \in Times /\ chart \in Seq(Times)
        /\ history' = Retain(Append(chart, upd[r].at))
        /\ upd'[r] = [pc |-> "append", at |-> upd[r].at, cook |-> c]
    <3>1. Record(r, chart, c) /\ c # NoCook
      BY <1>4 DEF Record
    <3>2. chart \in Seq(Times)
      BY <1>1
    <3>3. upd[r].at \in Times /\ upd \in [Readers -> {upd[q] : q \in Readers}]
      BY <1>4 DEF TypeOK, NoUpdate
    <3>4. QED BY <3>1, <3>2, <3>3 DEF Record
  <2>2. CASE at = upd[r].at
    BY <2>1, <2>2 DEF Kept
  <2>3. ASSUME NEW j \in DOMAIN chart, at = chart[j]
        PROVE  Kept(c, at)'
    <3>1. chart = history /\ c = cookID /\ c \in Open
      BY <1>4, <2>3 DEF Record
    <3>2. QED BY <1>2, <1>4, <2>3, <3>1
  <2>4. at = upd[r].at \/ \E j \in DOMAIN chart : at = chart[j]
    BY <2>1, RetainedFrom
  <2>5. QED BY <2>2, <2>3, <2>4
<1>5. CASE ResumeCook
  <2>1. PICK h \in Oldest1st(SampleTimes(c)) : history' = Retain(h) /\ UNCHANGED samples
    BY <1>5 DEF ResumeCook, storeVars
  <2>2. at \in SampleTimes(c)
    BY <2>1, ResumedChart DEF TypeOK
  <2>3. [cook |-> c, at |-> at] \in samples
    BY <2>2 DEF SampleTimes, TypeOK, StoreTypeOK
  <2>4. QED BY <2>1, <2>3 DEF Kept
<1>6. QED
  <2>1. cookID' # NoCook
    BY <1>1, Apart
  <2>2. ASSUME NEW r \in Readers, UpdateLive(r), cookID \in Open
        PROVE  Kept(c, at)'
    <3>1. upd[r].pc = "lock" /\ Record(r, history, cookID)
      BY <2>2 DEF UpdateLive
    <3>2. ~Crash
      BY <2>1 DEF Crash
    <3>3. QED BY <1>4, <2>1, <2>2, <3>1, <3>2
  <2>3. ASSUME NEW r \in Readers, UpdateOpens(r)
        PROVE  Kept(c, at)'
    <3>1. upd[r].pc = "lock" /\ Record(r, <<>>, c)
      BY <2>3 DEF UpdateOpens, Record
    <3>2. ~Crash
      BY <2>1 DEF Crash
    <3>3. QED BY <1>4, <2>1, <3>1, <3>2
  <2>4. QED BY <1>3, <1>5, <2>2, <2>3, ChartSteps

\* While no statement fails, whatever chart a client is shown of an open cook could
\* be rebuilt after a crash as soon as the Updates under way have run: every sample
\* of it is in the store or in an Update that is about to insert it.
THEOREM ChartPersisted ==
    ASSUME ~StoreMayFail
    PROVE  Spec => []ChartIsPersisted
<1>1. Init => ChartIsPersisted
  BY DEF Init, StoreInit, MonInit, ChartIsPersisted, Open
<1>2. TypeOK /\ CookInv /\ ChartIsPersisted /\ [Next]_vars => ChartIsPersisted'
  BY ChartNext
<1>3. QED BY <1>1, <1>2, TypeCorrect, CookInvariant, PTL DEF Spec

(***************************************************************************)
(* The chart is in order when one goroutine delivers the readings          *)
(***************************************************************************)

\* Nothing the monitor knows is from the future, and an Update that waits for the
\* lock brings nothing older than the newest sample: with one reader no other
\* Update has come between.  The samples count because a restart charts them.
OrderInv ==
    /\ HistoryOldestFirst
    /\ lastSampleAt <= now
    /\ \A s \in samples : s.at <= now
    /\ \A r \in Readers : upd[r].at <= now
    /\ \A r \in Readers : upd[r].pc = "lock" => lastSampleAt <= upd[r].at

\* Appending a reading that is not older keeps a chart in order, and it is the last.
LEMMA RetainOrdered ==
    ASSUME NEW h \in Seq(Times), NEW at \in Times,
           \A i, j \in DOMAIN h : i < j => h[i] <= h[j],
           h # <<>> => h[Len(h)] <= at
    PROVE  LET g == Retain(Append(h, at)) IN
           /\ \A i, j \in DOMAIN g : i < j => g[i] <= g[j]
           /\ g # <<>> /\ g[Len(g)] = at
<1> DEFINE a == Append(h, at)
           g == Retain(a)
<1>1. /\ a \in Seq(Times) /\ a # <<>> /\ Len(a) = Len(h) + 1
      /\ \A i \in 1 .. Len(h) : a[i] = h[i] /\ h[i] \in Nat
      /\ a[Len(h) + 1] = at /\ at \in Nat
  <2>1. \A i \in 1 .. Len(h) : h[i] \in Nat
    BY ElementOfSeq DEF Times
  <2>2. at \in Nat
    BY DEF Times
  <2>3. QED BY <2>1, <2>2, AppendProperties
<1>2. g \in Seq(Times) /\ DOMAIN g = 1 .. Len(g) /\ DOMAIN h = 1 .. Len(h)
  <2>1. g \in Seq(Times)
    BY <1>1, RetainType
  <2>2. QED BY <2>1, LenProperties
<1>3. PICK k \in Nat : /\ Len(g) = Len(a) - k /\ k < Len(a)
                       /\ \A i \in 1 .. Len(g) : g[i] = a[i + k]
  BY <1>1, RetainDropsOldest
<1>4. \A i \in 1 .. Len(h) : h[i] <= at
  <2>1. ASSUME NEW i \in 1 .. Len(h)
        PROVE  h[i] <= at
    <3>1. h # <<>> /\ Len(h) \in 1 .. Len(h) /\ h[Len(h)] <= at
      BY <2>1
    <3>2. i = Len(h) \/ i < Len(h)
      BY <2>1, LenProperties
    <3>3. i < Len(h) => h[i] <= h[Len(h)]
      BY <1>2, <2>1, <3>1
    <3>4. QED BY <1>1, <3>1, <3>2, <3>3
  <2>2. QED BY <2>1
<1>5. \A i, j \in 1 .. Len(a) : i < j => a[i] <= a[j]
  <2>1. ASSUME NEW i \in 1 .. Len(a), NEW j \in 1 .. Len(a), i < j
        PROVE  a[i] <= a[j]
    <3>1. i \in 1 .. Len(h) /\ a[i] = h[i]
      BY <1>1, <2>1
    <3>2. CASE j = Len(h) + 1
      BY <1>1, <1>4, <3>1, <3>2
    <3>3. CASE j \in 1 .. Len(h)
      BY <1>1, <1>2, <2>1, <3>1, <3>3
    <3>4. QED BY <1>1, <2>1, <3>2, <3>3
  <2>2. QED BY <2>1
<1>6. ASSUME NEW i \in 1 .. Len(g), NEW j \in 1 .. Len(g), i < j
      PROVE  g[i] <= g[j]
  <2>1. i + k < j + k /\ i + k \in 1 .. Len(a) /\ j + k \in 1 .. Len(a)
    BY <1>1, <1>2, <1>3, <1>6
  <2>2. QED BY <1>3, <1>5, <2>1
<1>7. Len(g) \in 1 .. Len(g) /\ Len(g) + k = Len(h) + 1
  BY <1>1, <1>2, <1>3
<1>8. g # <<>> /\ g[Len(g)] = at
  BY <1>1, <1>2, <1>3, <1>7
<1>9. QED BY <1>2, <1>6, <1>8

\* Record appends what the reader brings, and no other Update waits for the lock.
LEMMA RecordOrdered ==
    ASSUME \A q, r \in Readers : q = r,
           TypeOK, OrderInv, NEW r \in Readers, upd[r].pc = "lock",
           NEW chart \in {<<>>, history}, NEW c, Record(r, chart, c),
           UNCHANGED samples
    PROVE  OrderInv'
<1> DEFINE at == upd[r].at
<1>1. /\ at \in Times /\ history \in Seq(Times) /\ chart \in Seq(Times)
      /\ now' = now /\ history' = Retain(Append(chart, at)) /\ lastSampleAt' = at
      /\ at <= now /\ lastSampleAt <= at
  <2>1. /\ at \in Times /\ history \in Seq(Times)
    BY DEF TypeOK, NoUpdate
  <2>2. chart \in Seq(Times)
    BY <2>1, EmptyChartType
  <2>3. at <= now /\ lastSampleAt <= at
    BY DEF OrderInv
  <2>4. QED BY <2>1, <2>2, <2>3 DEF Record, envVars
<1>2. /\ \A i, j \in DOMAIN chart : i < j => chart[i] <= chart[j]
      /\ chart # <<>> => chart[Len(chart)] <= at
  BY <1>1 DEF OrderInv, HistoryOldestFirst
<1>3. HistoryOldestFirst'
  BY <1>1, <1>2, RetainOrdered DEF HistoryOldestFirst
<1>4. \A q \in Readers : upd'[q].pc # "lock" /\ upd'[q].at \in {0, at}
  BY DEF Record, TypeOK, NoUpdate
<1>5. now \in Nat /\ at \in Nat
  BY <1>1 DEF TypeOK, Times
<1>6. \A q \in Readers : upd'[q].at <= now
  BY <1>1, <1>4, <1>5
<1>7. QED BY <1>1, <1>3, <1>4, <1>6 DEF OrderInv

\* A step that touches neither the chart nor the Updates, and adds no sample.
LEMMA UntouchedOrdered ==
    ASSUME TypeOK, OrderInv, samples' \subseteq samples, now' \in {now, now + 1},
           UNCHANGED upd,
           \/ UNCHANGED <<history, lastSampleAt>>
           \/ history' = <<>> /\ lastSampleAt' = 0
    PROVE  OrderInv'
<1>1. /\ now \in Nat /\ lastSampleAt \in Nat
      /\ \A r \in Readers : upd[r].at \in Nat
      /\ \A s \in samples : s.at \in Nat
  BY DEF TypeOK, StoreTypeOK, Times, NoUpdate
<1>2. HistoryOldestFirst'
  BY DEF OrderInv, HistoryOldestFirst
<1>3. lastSampleAt' <= now' /\ lastSampleAt' <= lastSampleAt
  BY <1>1 DEF OrderInv
<1>4. \A s \in samples' : s.at <= now'
  BY <1>1 DEF OrderInv
<1>5. \A r \in Readers : upd'[r].at <= now'
  BY <1>1 DEF OrderInv
<1>6. \A r \in Readers : upd'[r].pc = "lock" => lastSampleAt' <= upd'[r].at
  BY <1>1, <1>3 DEF OrderInv
<1>7. QED BY <1>2, <1>3, <1>4, <1>5, <1>6 DEF OrderInv

LEMMA UpdateOrdered ==
    ASSUME \A q, r \in Readers : q = r,
           TypeOK, OrderInv, NEW r \in Readers, UpdateBegin(r) \/ Update(r)
    PROVE  OrderInv'
<1> USE DEF storeVars, monVars, envVars
<1>1. CASE UpdateBegin(r)
  <2>1. \A q \in Readers : upd'[q] = [pc |-> "lock", at |-> now, cook |-> NoCook]
    BY <1>1 DEF UpdateBegin, TypeOK
  <2>2. UNCHANGED <<history, lastSampleAt, samples, now>> /\ now \in Nat
    BY <1>1 DEF UpdateBegin, TypeOK, Times
  <2>3. HistoryOldestFirst'
    BY <2>2 DEF OrderInv, HistoryOldestFirst
  <2>4. QED BY <2>1, <2>2, <2>3 DEF OrderInv
<1>2. CASE UpdateLive(r) \/ UpdateOpenFails(r)
  BY <1>2, RecordOrdered DEF UpdateLive, UpdateOpenFails
<1>3. CASE UpdateOpens(r)
  BY <1>3, RecordOrdered DEF UpdateOpens, InsertCook
<1>4. CASE UpdateAppends(r)
  <2> DEFINE smp == [cook |-> upd[r].cook, at |-> upd[r].at]
  <2>1. samples' \subseteq samples \cup {smp} /\ smp.at <= now
    BY <1>4 DEF UpdateAppends, InsertSample, OrderInv
  <2>2. UNCHANGED <<history, lastSampleAt, now>> /\ now \in Nat
    BY <1>4 DEF UpdateAppends, TypeOK, Times
  <2>3. \A q \in Readers : upd'[q].pc = "idle" /\ upd'[q].at = 0
    BY <1>4 DEF UpdateAppends, TypeOK, NoUpdate
  <2>4. HistoryOldestFirst'
    BY <2>2 DEF OrderInv, HistoryOldestFirst
  <2>5. QED BY <2>1, <2>2, <2>3, <2>4 DEF OrderInv
<1>5. QED BY <1>1, <1>2, <1>3, <1>4 DEF Update

\* A restart charts samples of the past, and no Update is under way.
LEMMA ResumeOrdered ==
    ASSUME TypeOK, CookInv, OrderInv, ResumeCook
    PROVE  OrderInv'
<1>1. PICK c \in CurrentOpenCook :
          \E h \in Oldest1st(SampleTimes(c)) : history' = Retain(h)
  BY DEF ResumeCook
<1>2. UNCHANGED <<samples, now, upd>>
  BY DEF ResumeCook, storeVars
<1>3. /\ history' \in Seq(Times)
      /\ \A i \in DOMAIN history' : history'[i] <= now
      /\ \A i, j \in DOMAIN history' : i < j => history'[i] <= history'[j]
  <2>1. \A at \in SampleTimes(c) : at <= now
    BY DEF OrderInv, SampleTimes
  <2>2. StoreTypeOK
    BY DEF TypeOK
  <2>3. QED BY <1>1, <2>1, <2>2, ResumedChart
<1>4. lastSampleAt' = IF history' = <<>> THEN 0 ELSE history'[Len(history')]
  BY DEF ResumeCook, Last
<1>5. lastSampleAt' <= now
  <2>1. CASE history' = <<>>
    BY <1>4, <2>1 DEF TypeOK, Times
  <2>2. CASE history' # <<>>
    BY <1>3, <1>4, <2>2
  <2>3. QED BY <2>1, <2>2
<1>6. \A r \in Readers : upd'[r].pc # "lock"
  BY <1>2 DEF ResumeCook, CookInv, BootAlone, Up, At
<1>7. HistoryOldestFirst'
  BY <1>3, <1>4 DEF HistoryOldestFirst
<1>8. QED BY <1>2, <1>5, <1>6, <1>7 DEF OrderInv

\* A step of anyone but the readers and the restart takes samples at most, and
\* leaves the chart alone or empties it.
LEMMA OthersOrdered ==
    ASSUME TypeOK, OrderInv, Next, ~Crash, ~ResumeCook,
           ~ \E r \in Readers : UpdateBegin(r) \/ Update(r)
    PROVE  OrderInv'
<1> USE DEF storeVars, monVars, envVars
<1>1. ASSUME NEW h \in Handlers, Handler(h) PROVE OrderInv'
  BY <1>1, UntouchedOrdered DEF Handler, Start, Stop, NewCook, DeleteCook
<1>2. CASE JanitorLook \/ JanitorClear
  BY <1>2, UntouchedOrdered DEF JanitorLook, JanitorClear
<1>3. ASSUME NEW t \in Threads, Statement(t) PROVE OrderInv'
  BY <1>3, UntouchedOrdered DEF Statement, EndCookStmt, EndCook, PruneSamples, PruneRows,
     StatementFails, DeleteCookSamples, DeleteCookRow, DeleteSamplesOf, DeleteRowsOf
<1>4. CASE Link
  BY <1>4, UntouchedOrdered DEF Link, Wake, TakeStopChan, DialStopped, Dialed, StatusLine,
     StreamEnds, LinkCloses, LinkStep
<1>5. CASE Startup
  BY <1>5, UntouchedOrdered DEF Startup, ResumeNothing, ResumeStale, ResumeUnread
<1>6. CASE Tick
  BY <1>6, UntouchedOrdered DEF Tick
<1>7. QED BY <1>1, <1>2, <1>3, <1>4, <1>5, <1>6 DEF Next

LEMMA OrderNext ==
    ASSUME \A q, r \in Readers : q = r,
           TypeOK, CookInv, OrderInv, [Next]_vars
    PROVE  OrderInv'
<1>1. CASE Crash
  <2>1. /\ history' = <<>> /\ lastSampleAt' = 0 /\ UNCHANGED <<samples, now>>
        /\ \A r \in Readers : upd'[r].pc = "idle" /\ upd'[r].at = 0
        /\ now \in Nat
    BY <1>1 DEF Crash, storeVars, NoUpdate, TypeOK, Times
  <2>2. HistoryOldestFirst'
    BY <2>1 DEF HistoryOldestFirst
  <2>3. QED BY <2>1, <2>2 DEF OrderInv
<1>2. CASE UNCHANGED vars
  BY <1>2, UntouchedOrdered DEF vars, storeVars, monVars, envVars
<1>3. QED BY <1>1, <1>2, ResumeOrdered, UpdateOrdered, OthersOrdered

\* When one goroutine delivers the readings, as for the bridge and the mock, the
\* chart is in the order of the readings through requests, crashes and restarts,
\* and the time the janitor judges a cook by is that of its newest sample.
THEOREM ChartInOrder ==
    ASSUME \A q, r \in Readers : q = r
    PROVE  Spec => []HistoryOldestFirst
<1>1. Init => OrderInv
  BY DEF Init, StoreInit, MonInit, OrderInv, HistoryOldestFirst, NoUpdate
<1>2. TypeOK /\ CookInv /\ OrderInv /\ [Next]_vars => OrderInv'
  BY OrderNext
<1>3. OrderInv => HistoryOldestFirst
  BY DEF OrderInv
<1>4. QED BY <1>1, <1>2, <1>3, TypeCorrect, CookInvariant, PTL DEF Spec
=============================================================================
