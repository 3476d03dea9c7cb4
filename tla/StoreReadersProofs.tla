-------------------------- MODULE StoreReadersProofs --------------------------
(***************************************************************************)
(* Theorems about StoreReaders, for every number of goroutines, cooks and  *)
(* samples, and every limit.                                               *)
(***************************************************************************)
EXTENDS StoreReaders, FiniteSetTheorems, TLAPS

USE MaxCooksNat, KeepEndedNat, ReadersBounds

(***************************************************************************)
(* Scrapes share their scans                                               *)
(***************************************************************************)

\* At most one scrape is past the cached counts, and it found them stale.
OneScan ==
    /\ \A s, t \in Scrapers : scraper[s] # "idle" /\ scraper[t] # "idle" => s = t
    /\ ~Unlocked => Stale

\* What is known of the scrapes whatever the rest does.
ScrapeType ==
    /\ scraper \in [Scrapers -> {"idle", "cooks", "samples"}]
    /\ cached \in BOOLEAN /\ age \in 0 .. StatsTTL

LEMMA ScrapeInit == Init => ScrapeType /\ OneScan
<1> SUFFICES ASSUME Init PROVE ScrapeType /\ OneScan
  OBVIOUS
<1>1. 0 \in 0 .. StatsTTL
  OBVIOUS
<1>2. ScrapeType
  BY <1>1 DEF Init, ScrapeType
<1>3. OneScan
  BY DEF Init, OneScan, Unlocked
<1>4. QED BY <1>2, <1>3

\* A scrape takes the mutex when it is free, and the counts are stale until its
\* own second count is in; the clock only makes them older.
LEMMA ScrapeStep ==
    ASSUME ScrapeType, OneScan, [Next]_vars
    PROVE  ScrapeType' /\ OneScan'
<1> USE DEF ScrapeType, OneScan, Unlocked, Stale
<1>1. ASSUME NEW s \in Scrapers, Refresh(s)
      PROVE  ScrapeType' /\ OneScan'
  BY <1>1 DEF Refresh, ScraperGoes
<1>2. ASSUME NEW s \in Scrapers, CountCooks(s)
      PROVE  ScrapeType' /\ OneScan'
  BY <1>2 DEF CountCooks, ScraperGoes
<1>3. ASSUME NEW s \in Scrapers, CountSamples(s)
      PROVE  ScrapeType' /\ OneScan'
  BY <1>3 DEF CountSamples, ScraperGoes
<1>4. ASSUME NEW s \in Scrapers, CountFails(s)
      PROVE  ScrapeType' /\ OneScan'
  BY <1>4 DEF CountFails, ScraperGoes
<1>5. CASE Tick
  BY <1>5 DEF Tick
<1>6. ASSUME UNCHANGED scrapeVars
      PROVE  ScrapeType' /\ OneScan'
  BY <1>6 DEF scrapeVars
<1>7. ASSUME NEW r \in Readers, Reading(r)
      PROVE  UNCHANGED scrapeVars
  BY <1>7 DEF Reading, Open1, Update, Append1
<1>8. ASSUME NEW h \in Handlers, Request(h)
      PROVE  UNCHANGED scrapeVars
  BY <1>8 DEF Request, Retire, EndRetired, Prune1, Prune2, Delete, Delete1, Delete2, SpawnLoad
<1>9. ASSUME NEW l \in Loaders, Load(l)
      PROVE  UNCHANGED scrapeVars
  BY <1>9 DEF Load, ListCooks, ListFails, ReadSamples, SwapModel
<1>10. CASE UNCHANGED vars
  BY <1>6, <1>10 DEF vars
<1>11. QED
  BY <1>1, <1>2, <1>3, <1>4, <1>5, <1>6, <1>7, <1>8, <1>9, <1>10 DEF Next, Scrape

\* Counts that are good enough are never replaced: scrapes that meet wait for the
\* one that holds the mutex of dbStats and take what it has counted.
THEOREM ScansShared == Spec => ScansAreRationed
<1>1. Init => ScrapeType /\ OneScan
  BY ScrapeInit
<1>2. ScrapeType /\ OneScan /\ [Next]_vars => (ScrapeType /\ OneScan)'
  BY ScrapeStep
<1>3. OneScan => ((\E s \in Scrapers : CountSamples(s)) => Stale)
  BY DEF OneScan, CountSamples, ScraperGoes, Unlocked
<1>4. ScrapeType /\ OneScan /\ [Next]_vars
        => [(\E s \in Scrapers : CountSamples(s)) => Stale]_vars
  BY <1>3
<1>5. QED BY <1>1, <1>2, <1>4, PTL DEF Spec, ScansAreRationed

(***************************************************************************)
(* Statements and goroutines                                               *)
(***************************************************************************)

\* What a statement that writes samples does to the sample times of each cook.
LEMMA SamplesInserted ==
    ASSUME NEW c \in CookIds, NEW n, InsertSample(c, n), NEW d
    PROVE  SampleTimes(d)' = IF d = c THEN SampleTimes(d) \cup {n} ELSE SampleTimes(d)
<1> DEFINE new == [cook |-> c, at |-> n]
<1>1. samples' = samples \cup {new} /\ new.cook = c /\ new.at = n
  BY DEF InsertSample
<1> HIDE DEF new
<1>2. QED BY <1>1 DEF SampleTimes

LEMMA SamplesDeleted ==
    ASSUME NEW C, DeleteSamplesOf(C), NEW d
    PROVE  SampleTimes(d)' = IF d \in C THEN {} ELSE SampleTimes(d)
  BY DEF DeleteSamplesOf, SampleTimes

LEMMA SamplesUnchanged ==
    ASSUME UNCHANGED samples, NEW d
    PROVE  SampleTimes(d)' = SampleTimes(d)
  BY DEF SampleTimes

\* A finite samples table gives each cook finitely many sample times.
LEMMA SampleTimesFinite ==
    ASSUME StoreTypeOK, NEW c
    PROVE  IsFiniteSet(SampleTimes(c))
<1> DEFINE T == {t \in samples : t.cook = c}
           f == [s \in T |-> s.at]
<1>1. IsFiniteSet(T)
  BY FS_Subset DEF StoreTypeOK
<1>2. f \in Surjection(T, SampleTimes(c))
  BY DEF Surjection, SampleTimes
<1>3. QED BY <1>1, <1>2, FS_Surjection

\* The writers' statements keep the tables typed.
LEMMA InsertSampleType ==
    ASSUME StoreTypeOK, NEW c \in CookIds, NEW n \in Times, InsertSample(c, n)
    PROVE  StoreTypeOK'
<1>1. IsFiniteSet(samples \cup {[cook |-> c, at |-> n]})
  BY FS_AddElement DEF StoreTypeOK
<1>2. samples \cup {[cook |-> c, at |-> n]} \subseteq [cook : CookIds, at : Times]
  BY DEF StoreTypeOK
<1>3. QED BY <1>1, <1>2 DEF StoreTypeOK, InsertSample

LEMMA StatementType ==
    ASSUME StoreTypeOK
    PROVE  /\ \A C : DeleteSamplesOf(C) => StoreTypeOK'
           /\ \A C : DeleteRowsOf(C) => StoreTypeOK'
           /\ \A c : EndCook(c) => StoreTypeOK'
           /\ \A c \in CookIds : InsertCook(c, c) => StoreTypeOK'
           /\ UNCHANGED storeVars => StoreTypeOK'
<1>1. ASSUME NEW C, DeleteSamplesOf(C) PROVE StoreTypeOK'
  <2>1. samples' \in SUBSET samples
    BY <1>1 DEF DeleteSamplesOf
  <2>2. QED BY <1>1, <2>1, FS_Subset DEF StoreTypeOK, DeleteSamplesOf
<1>2. ASSUME NEW C, DeleteRowsOf(C) PROVE StoreTypeOK'
  BY <1>2 DEF StoreTypeOK, DeleteRowsOf
<1>3. ASSUME NEW c, EndCook(c) PROVE StoreTypeOK'
  BY <1>3 DEF StoreTypeOK, EndCook
<1>4. ASSUME NEW c \in CookIds, InsertCook(c, c) PROVE StoreTypeOK'
  BY <1>4 DEF StoreTypeOK, InsertCook, CookIds
<1>5. ASSUME UNCHANGED storeVars PROVE StoreTypeOK'
  BY <1>5 DEF StoreTypeOK, storeVars
<1>6. QED BY <1>1, <1>2, <1>3, <1>4, <1>5

\* Where the goroutines of a well-typed state are.
AtCook == {"append", "end", "del1", "del2"}
AtNone == {"idle", "prune1", "prune2", "load"}
Places == [pc : AtCook, cook : CookIds] \cup [pc : AtNone, cook : {NoCook}]

WriteType ==
    /\ StoreTypeOK
    /\ live \in CookIds \cup {NoCook}
    /\ writer \in [Writers -> Places]
LoadType ==
    /\ loader \in [Loaders -> [pc : {"idle", "list", "read"}, todo : SUBSET CookIds,
                               got : SUBSET Curves]]
    /\ histModel \subseteq Curves
    /\ disturbed \in BOOLEAN
    /\ endedWith \in [CookIds -> SUBSET (1 .. MaxSamples)]

\* The three parts of the state share nothing.
LEMMA TypeParts == TypeOK <=> WriteType /\ LoadType /\ ScrapeType
  BY DEF TypeOK, WriteType, LoadType, ScrapeType, Places, AtCook, AtNone

\* A writer carries a cook exactly as long as it writes to it.
LEMMA WriterPlaces ==
    ASSUME WriteType, NEW w \in Writers
    PROVE  /\ writer[w].pc \in AtCook => writer[w].cook \in CookIds
           /\ NoCook \notin CookIds /\ CookIds \subseteq Nat
  BY DEF WriteType, Places, AtCook, AtNone, CookIds, NoCook

\* Where a writer goes, the others stay.
LEMMA WriterMoves ==
    ASSUME WriteType, NEW w \in Writers, NEW pc, NEW c, WriterGoes(w, pc, c),
           \/ pc \in AtCook /\ c \in CookIds
           \/ pc \in AtNone /\ c = NoCook
    PROVE  /\ writer' \in [Writers -> Places]
           /\ writer'[w].pc = pc /\ writer'[w].cook = c
           /\ \A v \in Writers \ {w} : writer'[v] = writer[v]
<1>1. [pc |-> pc, cook |-> c] \in Places
  BY DEF Places
<1>2. QED BY <1>1 DEF WriterGoes, WriteType

(***************************************************************************)
(* Cooks that are over, and readings on their way                          *)
(***************************************************************************)

\* The readings on their way to a cook, and the cooks that no step opens again.
Appending(c) == {r \in Readers : WriterAt(r, "append") /\ writer[r].cook = c}
Closed == {c \in CookIds : c <= seq /\ row[c] # "open"}

\* The ids are handed out in order; the Monitor's cook is open, and so is one that
\* was taken from it until its end is written, by the one request that took it.
Rows ==
    /\ \A c \in CookIds : c > seq => row[c] = "absent"
    /\ live # NoCook => row[live] = "open"
    /\ \A w \in Writers :
          WriterAt(w, "end") => row[writer[w].cook] = "open" /\ writer[w].cook # live
    /\ \A v, w \in Writers :
          WriterAt(v, "end") /\ WriterAt(w, "end") /\ writer[v].cook = writer[w].cook => v = w
    /\ \A w \in Writers :
          WriterAt(w, "del1") \/ WriterAt(w, "del2") => writer[w].cook \in Closed

\* The samples a cook has or had, with those on their way, are within the bound.
Numbered(c) == SampleTimes(c) \cup endedWith[c]
Count(c) ==
    /\ Numbered(c) \subseteq 1 .. MaxSamples
    /\ Cardinality(Numbered(c)) + Cardinality(Appending(c)) <= MaxSamples
    /\ c > seq => Numbered(c) = {} /\ Appending(c) = {}
    /\ row[c] = "open" => endedWith[c] = {}
Counted == \A c \in CookIds : Count(c)

StoreInv == WriteType /\ LoadType /\ Rows /\ Counted

\* An element more adds one at most.
LEMMA AddOne ==
    ASSUME NEW S, NEW x, IsFiniteSet(S)
    PROVE  /\ Cardinality(S \cup {x}) <= Cardinality(S) + 1
           /\ Cardinality(S \cup {x}) \in Nat
<1>1. /\ IsFiniteSet(S \cup {x})
      /\ Cardinality(S \cup {x}) = IF x \in S THEN Cardinality(S) ELSE Cardinality(S) + 1
  BY FS_AddElement
<1>2. Cardinality(S) \in Nat
  BY FS_CardinalityType
<1>3. QED BY <1>1, <1>2

\* Readings on their way are as many as the goroutines that bring them, at most.
LEMMA AppendingFinite ==
    ASSUME NEW c
    PROVE  /\ IsFiniteSet(Appending(c)) /\ Cardinality(Appending(c)) \in Nat
           /\ Cardinality(Appending(c)) <= Cardinality(Readers)
           /\ Cardinality(Readers) \in Nat
<1>1. Appending(c) \in SUBSET Readers
  BY DEF Appending
<1>2. QED BY <1>1, FS_Subset, FS_CardinalityType

LEMMA NumberedFinite ==
    ASSUME WriteType, LoadType, NEW c \in CookIds
    PROVE  IsFiniteSet(Numbered(c)) /\ Cardinality(Numbered(c)) \in Nat
<1>1. IsFiniteSet(SampleTimes(c))
  BY SampleTimesFinite DEF WriteType
<1>2. endedWith[c] \in SUBSET (1 .. MaxSamples)
  BY DEF LoadType
<1>3. IsFiniteSet(1 .. MaxSamples)
  BY FS_Interval
<1>4. IsFiniteSet(endedWith[c])
  BY <1>2, <1>3, FS_Subset
<1>5. IsFiniteSet(Numbered(c))
  BY <1>1, <1>4, FS_Union DEF Numbered
<1>6. QED BY <1>5, FS_CardinalityType

\* How a writer's step changes the readings on their way.
LEMMA AppendingMoves ==
    ASSUME WriteType, NEW w \in Writers, NEW pc, NEW c, WriterGoes(w, pc, c),
           \/ pc \in AtCook /\ c \in CookIds
           \/ pc \in AtNone /\ c = NoCook,
           NEW d
    PROVE  /\ ~WriterAt(w, "append") /\ pc # "append" => Appending(d)' = Appending(d)
           /\ ~WriterAt(w, "append") /\ pc = "append" /\ w \in Readers =>
                Appending(d)' = IF d = c THEN Appending(d) \cup {w} ELSE Appending(d)
           /\ WriterAt(w, "append") /\ pc = "idle" =>
                Appending(d)' = Appending(d) \ {w}
  BY WriterMoves DEF Appending, WriterAt, Writers

\* What only falls stays within the bound.
LEMMA CountFalls ==
    ASSUME WriteType, LoadType, NEW c \in CookIds, Count(c),
           Numbered(c)' \subseteq Numbered(c), Appending(c)' = Appending(c),
           seq' \in Nat, seq <= seq', (row[c] = "open" => endedWith[c] = {})'
    PROVE  Count(c)'
<1>1. /\ IsFiniteSet(Numbered(c)) /\ Cardinality(Numbered(c)) \in Nat
      /\ Cardinality(Appending(c)) \in Nat
  BY NumberedFinite, AppendingFinite
<1>2. Numbered(c)' \in SUBSET Numbered(c)
  OBVIOUS
<1>3. Cardinality(Numbered(c)') <= Cardinality(Numbered(c)) /\ Cardinality(Numbered(c)') \in Nat
  BY <1>1, <1>2, FS_Subset, FS_CardinalityType
<1>4. Cardinality(Numbered(c)') + Cardinality(Appending(c)') <= MaxSamples
  BY <1>1, <1>3 DEF Count
<1>5. seq \in Nat /\ c \in Nat
  BY DEF WriteType, StoreTypeOK, CookIds
<1>6. c > seq' => Numbered(c)' = {} /\ Appending(c)' = {}
  BY <1>2, <1>5 DEF Count
<1>7. QED BY <1>2, <1>4, <1>6 DEF Count

(***************************************************************************)
(* Readings                                                                *)
(***************************************************************************)

\* The cook Update opens has a fresh id: nothing is known of it yet.
LEMMA OpenStep ==
    ASSUME StoreInv, NEW w \in Readers, Open1(w)
    PROVE  StoreInv'
<1> w \in Writers
  BY DEF Writers
<1> USE DEF StoreInv
<1>1. PICK c \in CookIds : InsertCook(c, c) /\ live' = c /\ WriterGoes(w, "append", c)
  BY DEF Open1
<1>2. /\ c = seq + 1 /\ seq' = c /\ seq \in Nat /\ CookIds \subseteq Nat
      /\ row' = [row EXCEPT ![c] = "open"] /\ row \in [CookIds -> {"absent", "open", "ended"}]
      /\ row[c] = "absent" /\ c # NoCook
  BY <1>1 DEF InsertCook, WriteType, StoreTypeOK, CookIds, Rows, NoCook
<1>3. ~WriterAt(w, "append") /\ live = NoCook
  BY DEF Open1, WriterAt
<1>4. /\ writer' \in [Writers -> Places]
      /\ writer'[w].pc = "append" /\ writer'[w].cook = c
      /\ \A v \in Writers \ {w} : writer'[v] = writer[v]
  BY <1>1, WriterMoves DEF AtCook
<1>5. WriteType'
  BY <1>1, <1>4, StatementType DEF WriteType
<1>6. LoadType' /\ endedWith' = endedWith
  BY DEF Open1, LoadType, loadVars
<1>7. Rows'
  <2>1. \A d \in Closed : d # c /\ d \in Closed'
    BY <1>2 DEF Closed
  <2>2. \A v \in Writers : WriterAt(v, "end")' => WriterAt(v, "end") /\ v # w /\ writer[v].cook # c
    BY <1>2, <1>4, WriterPlaces DEF WriterAt, Rows, AtCook
  <2>3. \A v \in Writers : WriterAt(v, "del1")' \/ WriterAt(v, "del2")' =>
            (WriterAt(v, "del1") \/ WriterAt(v, "del2")) /\ v # w
    BY <1>4 DEF WriterAt
  <2>4. \A v \in Writers : WriterAt(v, "end") => writer[v].cook \in CookIds
    BY WriterPlaces DEF WriterAt, AtCook
  <2>5. \A d \in CookIds : d > seq' => row'[d] = "absent"
    BY <1>2 DEF Rows
  <2>6. live' # NoCook => row'[live'] = "open"
    BY <1>1, <1>2
  <2>7. \A v \in Writers : WriterAt(v, "end")' =>
            row'[writer'[v].cook] = "open" /\ writer'[v].cook # live'
    BY <1>1, <1>2, <1>4, <2>2, <2>4 DEF Rows
  <2>8. \A u, v \in Writers :
            WriterAt(u, "end")' /\ WriterAt(v, "end")' /\ writer'[u].cook = writer'[v].cook => u = v
    BY <1>4, <2>2 DEF Rows
  <2>9. \A v \in Writers : WriterAt(v, "del1")' \/ WriterAt(v, "del2")' => writer'[v].cook \in Closed'
    BY <1>4, <2>1, <2>3 DEF Rows
  <2>10. QED BY <2>5, <2>6, <2>7, <2>8, <2>9 DEF Rows
<1>8. ASSUME NEW d \in CookIds
      PROVE  Count(d)'
  <2>1. SampleTimes(d)' = SampleTimes(d)
    BY <1>1, SamplesUnchanged DEF InsertCook
  <2>2. Numbered(d)' = Numbered(d)
    BY <1>6, <2>1 DEF Numbered
  <2>3. Appending(d)' = IF d = c THEN Appending(d) \cup {w} ELSE Appending(d)
    BY <1>1, <1>3, AppendingMoves DEF AtCook
  <2>4. CASE d = c
    <3>1. Numbered(c) = {} /\ Appending(c) = {} /\ endedWith[c] = {}
      <4>1. Count(c) /\ c > seq
        BY <1>2 DEF Counted
      <4>2. QED BY <4>1 DEF Count, Numbered
    <3>2. Numbered(c)' = {} /\ Appending(c)' = {w}
      BY <2>2, <2>3, <2>4, <3>1
    <3>3. Cardinality(Numbered(c)') = 0 /\ Cardinality(Appending(c)') = 1
      BY <3>2, FS_EmptySet, FS_Singleton
    <3>4. QED BY <1>2, <1>6, <2>4, <3>1, <3>2, <3>3 DEF Count
  <2>5. CASE d # c
    <3>1. Appending(d)' = Appending(d) /\ row'[d] = row[d]
      BY <1>2, <2>3, <2>5
    <3>2. (row[d] = "open" => endedWith[d] = {})'
      BY <1>6, <3>1 DEF Counted, Count
    <3>3. QED BY <1>2, <2>2, <3>1, <3>2, CountFalls DEF Counted
  <2>6. QED BY <2>4, <2>5
<1>9. QED BY <1>5, <1>6, <1>7, <1>8 DEF Counted

\* A reading is on its way to the Monitor's cook, and there is room for it.
LEMMA UpdateStep ==
    ASSUME StoreInv, NEW w \in Readers, Update(w)
    PROVE  StoreInv'
<1> w \in Writers
  BY DEF Writers
<1> USE DEF StoreInv
<1>1. /\ ~WriterAt(w, "append") /\ live \in CookIds /\ WriterGoes(w, "append", live)
      /\ UNCHANGED <<row, started, samples, seq, live, endedWith>>
  BY DEF Update, WriterAt, WriteType, storeVars, loadVars
<1>2. /\ writer' \in [Writers -> Places]
      /\ writer'[w].pc = "append" /\ writer'[w].cook = live
      /\ \A v \in Writers \ {w} : writer'[v] = writer[v]
  BY <1>1, WriterMoves DEF AtCook
<1>3. WriteType' /\ LoadType'
  BY <1>2, StatementType DEF WriteType, LoadType, Update, loadVars
<1>4. Rows'
  BY <1>1, <1>2 DEF Rows, WriterAt, Closed
<1>5. ASSUME NEW d \in CookIds
      PROVE  Count(d)'
  <2>1. Numbered(d)' = Numbered(d)
    BY <1>1, SamplesUnchanged DEF Numbered
  <2>2. Appending(d)' = IF d = live THEN Appending(d) \cup {w} ELSE Appending(d)
    BY <1>1, AppendingMoves DEF AtCook
  <2>3. seq \in Nat
    BY DEF WriteType, StoreTypeOK
  <2>4. CASE d = live
    <3> DEFINE all == {r \in Readers : WriterAt(r, "append")}
    <3>1. row[d] = "open" /\ endedWith[d] = {}
      BY <1>1, <2>4, WriterPlaces DEF Rows, Counted, Count
    <3>2. Cardinality(SampleTimes(d)) + Cardinality(all) < MaxSamples
      BY <2>4 DEF Update
    <3>3. Numbered(d) = SampleTimes(d)
      BY <3>1 DEF Numbered
    <3>4. all \in SUBSET Readers /\ Appending(d) \in SUBSET all
      BY DEF Appending
    <3>5. IsFiniteSet(all) /\ Cardinality(all) \in Nat
      BY <3>4, FS_Subset, FS_CardinalityType
    <3>6. Cardinality(Appending(d)) <= Cardinality(all) /\ Cardinality(Appending(d)) \in Nat
      BY <3>4, <3>5, FS_Subset, AppendingFinite
    <3>7. Cardinality(Appending(d)') <= Cardinality(Appending(d)) + 1
          /\ Cardinality(Appending(d)') \in Nat
      <4>1. IsFiniteSet(Appending(d)) /\ Appending(d)' = Appending(d) \cup {w}
        BY <2>2, <2>4, AppendingFinite
      <4>2. QED BY <4>1, AddOne
    <3>8. Cardinality(Numbered(d)) \in Nat
      BY NumberedFinite
    <3> HIDE DEF all
    <3>9. Cardinality(Numbered(d)') + Cardinality(Appending(d)') <= MaxSamples
      BY <2>1, <3>2, <3>3, <3>5, <3>6, <3>7, <3>8
    <3>10. ~(d > seq)
      BY <3>1 DEF Rows
    <3>11. QED BY <1>1, <2>1, <3>1, <3>9, <3>10 DEF Counted, Count
  <2>5. CASE d # live
    <3>1. Appending(d)' = Appending(d) /\ (row[d] = "open" => endedWith[d] = {})'
      BY <1>1, <2>2, <2>5 DEF Counted, Count
    <3>2. QED BY <1>1, <2>1, <2>3, <3>1, CountFalls DEF Counted
  <2>6. QED BY <2>4, <2>5
<1>6. QED BY <1>3, <1>4, <1>5 DEF Counted

\* The number a sample gets.
NextSample(c) == Cardinality(Numbered(c)) + 1

\* A sample on its way gets the next number of its cook.
LEMMA AppendStep ==
    ASSUME StoreInv, NEW w \in Readers, Append1(w)
    PROVE  StoreInv'
<1> w \in Writers
  BY DEF Writers
<1> USE DEF StoreInv
<1> DEFINE c == writer[w].cook
           n == NextSample(c)
<1>1. /\ WriterAt(w, "append") /\ WriterGoes(w, "idle", NoCook) /\ c \in CookIds
      /\ InsertSample(c, n) /\ live' = live /\ endedWith' = endedWith
  BY WriterPlaces DEF Append1, WriterAt, AtCook, NextSample, Numbered
<1>2. UNCHANGED <<row, started, seq>>
  BY <1>1 DEF InsertSample
<1>3. /\ writer' \in [Writers -> Places]
      /\ writer'[w].pc = "idle"
      /\ \A v \in Writers \ {w} : writer'[v] = writer[v]
  BY <1>1, WriterMoves DEF AtNone
<1>4. /\ IsFiniteSet(Numbered(c)) /\ Cardinality(Numbered(c)) \in Nat
      /\ IsFiniteSet(Appending(c)) /\ Cardinality(Appending(c)) \in Nat
  BY <1>1, NumberedFinite, AppendingFinite
<1>5. w \in Appending(c)
  BY <1>1 DEF Appending
<1>6. /\ Cardinality(Appending(c) \ {w}) = Cardinality(Appending(c)) - 1
      /\ Cardinality(Appending(c) \ {w}) \in Nat
  BY <1>4, <1>5, FS_RemoveElement, FS_CardinalityType
<1>7. n \in 1 .. MaxSamples
  BY <1>1, <1>4, <1>6 DEF Counted, Count, NextSample
<1> HIDE DEF n
<1>8. WriteType'
  BY <1>1, <1>3, <1>7, InsertSampleType DEF WriteType, Times
<1>9. LoadType'
  BY DEF LoadType, Append1
<1>10. Rows'
  BY <1>1, <1>2, <1>3 DEF Rows, WriterAt, Closed
<1>11. ASSUME NEW d \in CookIds
       PROVE  Count(d)'
  <2>1. SampleTimes(d)' = IF d = c THEN SampleTimes(d) \cup {n} ELSE SampleTimes(d)
    BY <1>1, SamplesInserted
  <2>2. Appending(d)' = Appending(d) \ {w}
    BY <1>1, AppendingMoves DEF AtNone
  <2>3. CASE d = c
    <3>1. Numbered(d)' = Numbered(d) \cup {n}
      BY <1>1, <2>1, <2>3 DEF Numbered
    <3>2. /\ Cardinality(Numbered(d)') <= Cardinality(Numbered(d)) + 1
          /\ Cardinality(Numbered(d)') \in Nat
      BY <1>4, <2>3, <3>1, AddOne
    <3>3. Cardinality(Numbered(d)') + Cardinality(Appending(d)') <= MaxSamples
      BY <1>1, <1>4, <1>6, <2>2, <2>3, <3>2 DEF Counted, Count
    <3>4. d \in Nat /\ seq \in Nat /\ ~(d > seq)
      BY <1>5, <2>3 DEF Counted, Count, WriteType, StoreTypeOK, CookIds
    <3>5. QED BY <1>1, <1>2, <1>7, <3>1, <3>3, <3>4 DEF Counted, Count
  <2>4. CASE d # c
    <3>1. Numbered(d)' = Numbered(d)
      BY <1>1, <2>1, <2>4 DEF Numbered
    <3>2. w \notin Appending(d)
      BY <2>4 DEF Appending
    <3>3. Appending(d)' = Appending(d) /\ (row[d] = "open" => endedWith[d] = {})'
      BY <1>1, <1>2, <2>2, <3>2 DEF Counted, Count
    <3>4. seq \in Nat
      BY DEF WriteType, StoreTypeOK
    <3>5. QED BY <1>2, <3>1, <3>3, <3>4, CountFalls DEF Counted
  <2>5. QED BY <2>3, <2>4
<1>12. QED BY <1>8, <1>9, <1>10, <1>11 DEF Counted

(***************************************************************************)
(* Requests                                                                *)
(***************************************************************************)

\* A cook that is over stays over while no row is opened.
LEMMA ClosedGrows ==
    ASSUME WriteType, WriteType', seq' = seq,
           \A d \in CookIds : row'[d] = "open" => row[d] = "open"
    PROVE  Closed \subseteq Closed'
  BY DEF Closed

\* A request adds no sample, and none that is on its way.
LEMMA RequestCounted ==
    ASSUME StoreInv, NEW w \in Writers, NEW pc, NEW c, WriterGoes(w, pc, c),
           \/ pc \in AtCook /\ c \in CookIds
           \/ pc \in AtNone /\ c = NoCook,
           ~WriterAt(w, "append"), pc # "append", seq' = seq,
           \A d \in CookIds : Numbered(d)' \subseteq Numbered(d),
           \A d \in CookIds : row'[d] = "open" => row[d] = "open" /\ endedWith'[d] = endedWith[d]
    PROVE  Counted'
<1> USE DEF StoreInv
<1>1. ASSUME NEW d \in CookIds PROVE Count(d)'
  <2>1. Appending(d)' = Appending(d)
    BY AppendingMoves
  <2>2. (row[d] = "open" => endedWith[d] = {})'
    BY DEF Counted, Count
  <2>3. seq' \in Nat /\ seq <= seq'
    BY DEF WriteType, StoreTypeOK
  <2>4. QED BY <2>1, <2>2, <2>3, CountFalls DEF Counted
<1>2. QED BY <1>1 DEF Counted

\* The cook that is taken from the Monitor is open, and nobody else is to end it.
LEMMA RetireStep ==
    ASSUME StoreInv, NEW w \in Writers, Retire(w)
    PROVE  StoreInv'
<1> USE DEF StoreInv
<1>1. /\ WriterAt(w, "idle") /\ live \in CookIds /\ WriterGoes(w, "end", live) /\ live' = NoCook
      /\ UNCHANGED <<row, started, samples, seq, endedWith>>
  BY DEF Retire, WriteType, storeVars, loadVars
<1>2. /\ writer' \in [Writers -> Places]
      /\ writer'[w].pc = "end" /\ writer'[w].cook = live
      /\ \A v \in Writers \ {w} : writer'[v] = writer[v]
  BY <1>1, WriterMoves DEF AtCook
<1>3. WriteType' /\ LoadType'
  BY <1>1, <1>2, StatementType DEF WriteType, LoadType, Retire, loadVars
<1>4. Rows'
  <2>1. row[live] = "open"
    BY <1>1, WriterPlaces DEF Rows
  <2>2. \A v \in Writers \ {w} : WriterAt(v, "end")' =>
            row[writer'[v].cook] = "open" /\ writer'[v].cook \in CookIds /\ writer'[v].cook # live
    BY <1>1, <1>2, WriterPlaces DEF Rows, WriterAt, AtCook
  <2>3. \A v \in Writers : WriterAt(v, "end")' =>
            row'[writer'[v].cook] = "open" /\ writer'[v].cook # live'
    BY <1>1, <1>2, <2>1, <2>2, WriterPlaces
  <2>4. \A u, v \in Writers :
            WriterAt(u, "end")' /\ WriterAt(v, "end")' /\ writer'[u].cook = writer'[v].cook => u = v
    BY <1>1, <1>2, <2>2 DEF Rows, WriterAt
  <2>5. \A v \in Writers : WriterAt(v, "del1")' \/ WriterAt(v, "del2")' => writer'[v].cook \in Closed'
    BY <1>1, <1>2 DEF Rows, WriterAt, Closed
  <2>6. (\A d \in CookIds : d > seq => row[d] = "absent")' /\ live' = NoCook
    BY <1>1 DEF Rows
  <2>7. QED BY <2>3, <2>4, <2>5, <2>6 DEF Rows
<1>5. Counted'
  BY <1>1, SamplesUnchanged, RequestCounted DEF AtCook, Numbered, WriterAt
<1>6. QED BY <1>3, <1>4, <1>5

\* The end of the cook is written, and what it has is what it ended with.
LEMMA EndStep ==
    ASSUME StoreInv, NEW w \in Writers, EndRetired(w)
    PROVE  StoreInv'
<1> USE DEF StoreInv
<1> DEFINE c == writer[w].cook
<1>1. /\ WriterAt(w, "end") /\ c \in CookIds /\ WriterGoes(w, "prune1", NoCook)
      /\ EndCook(c) /\ live' = live
      /\ endedWith' = [endedWith EXCEPT ![c] = SampleTimes(c)]
      /\ row[c] = "open" /\ c # live
  BY WriterPlaces DEF EndRetired, WriterAt, AtCook, Rows
<1>2. /\ writer' \in [Writers -> Places]
      /\ writer'[w].pc = "prune1"
      /\ \A v \in Writers \ {w} : writer'[v] = writer[v]
  BY <1>1, WriterMoves DEF AtNone
<1>3. WriteType' /\ seq' = seq /\ samples' = samples /\ row' = [row EXCEPT ![c] = "ended"]
  BY <1>1, <1>2, StatementType DEF WriteType, EndCook
<1>4. SampleTimes(c) \subseteq 1 .. MaxSamples
  BY <1>1 DEF Counted, Count, Numbered
<1>5. LoadType'
  BY <1>1, <1>4 DEF LoadType, EndRetired
<1>6. \A d \in CookIds : row'[d] = "open" => row[d] = "open" /\ d # c
  BY <1>1, <1>3 DEF WriteType, StoreTypeOK
<1>7. Rows'
  <2>1. Closed \subseteq Closed'
    BY <1>3, <1>6, ClosedGrows
  <2>2. \A v \in Writers : WriterAt(v, "end")' =>
            WriterAt(v, "end") /\ v # w /\ writer'[v] = writer[v] /\ writer[v].cook # c
    BY <1>1, <1>2 DEF WriterAt, Rows
  <2>3. \A d \in CookIds : d > seq' => row'[d] = "absent"
    BY <1>1, <1>3 DEF Rows, WriteType, StoreTypeOK
  <2>4. live' # NoCook => row'[live'] = "open"
    BY <1>1, <1>3 DEF Rows, WriteType, StoreTypeOK
  <2>5. \A v \in Writers : WriterAt(v, "end")' =>
            row'[writer'[v].cook] = "open" /\ writer'[v].cook # live'
    BY <1>1, <1>3, <2>2 DEF Rows, WriteType, StoreTypeOK
  <2>6. \A u, v \in Writers :
            WriterAt(u, "end")' /\ WriterAt(v, "end")' /\ writer'[u].cook = writer'[v].cook => u = v
    BY <2>2 DEF Rows
  <2>7. \A v \in Writers : WriterAt(v, "del1")' \/ WriterAt(v, "del2")' => writer'[v].cook \in Closed'
    BY <1>2, <2>1 DEF Rows, WriterAt
  <2>8. QED BY <2>3, <2>4, <2>5, <2>6, <2>7 DEF Rows
<1>8. \A d \in CookIds : Numbered(d)' \subseteq Numbered(d)
  BY <1>1, <1>3, SamplesUnchanged DEF Numbered, LoadType
<1>9. \A d \in CookIds : row'[d] = "open" => row[d] = "open" /\ endedWith'[d] = endedWith[d]
  BY <1>1, <1>6 DEF LoadType
<1>10. Counted'
  BY <1>1, <1>3, <1>8, <1>9, RequestCounted DEF AtNone, WriterAt
<1>11. QED BY <1>3, <1>5, <1>7, <1>10

\* A step of a request that takes no cook and ends none: it may delete samples, and
\* rows of cooks that are over.
Deletes(w, pc, c) ==
    /\ ~WriterAt(w, "append") /\ pc \notin {"append", "end"} /\ WriterGoes(w, pc, c)
    /\ \/ pc \in AtCook /\ c \in Closed
       \/ pc \in AtNone /\ c = NoCook
    /\ UNCHANGED <<live, endedWith, seq>>
    /\ \A d \in CookIds : SampleTimes(d)' = SampleTimes(d) \/ SampleTimes(d)' = {}
    /\ \A d \in CookIds : (row'[d] = "open") <=> (row[d] = "open")
    /\ \A d \in CookIds : row[d] = "absent" => row'[d] = "absent"

LEMMA DeletesStep ==
    ASSUME StoreInv, NEW w \in Writers, NEW pc, NEW c, Deletes(w, pc, c), StoreTypeOK', LoadType'
    PROVE  StoreInv'
<1> USE DEF StoreInv
<1>1. \/ pc \in AtCook /\ c \in CookIds
      \/ pc \in AtNone /\ c = NoCook
  BY DEF Deletes, Closed
<1>2. /\ writer' \in [Writers -> Places]
      /\ writer'[w].pc = pc /\ writer'[w].cook = c
      /\ \A v \in Writers \ {w} : writer'[v] = writer[v]
  BY <1>1, WriterMoves DEF Deletes
<1>3. WriteType'
  BY <1>2 DEF WriteType, Deletes
<1>4. Closed \subseteq Closed'
  BY <1>3, ClosedGrows DEF Deletes
<1>5. Rows'
  <2>1. \A v \in Writers : WriterAt(v, "end")' =>
            WriterAt(v, "end") /\ v # w /\ writer'[v] = writer[v] /\ writer[v].cook \in CookIds
    BY <1>2, WriterPlaces DEF Deletes, WriterAt, AtCook
  <2>2. \A d \in CookIds : d > seq' => row'[d] = "absent"
    BY DEF Rows, Deletes
  <2>3. live' # NoCook => row'[live'] = "open"
    BY DEF Rows, Deletes, WriteType
  <2>4. \A v \in Writers : WriterAt(v, "end")' =>
            row'[writer'[v].cook] = "open" /\ writer'[v].cook # live'
    BY <2>1 DEF Rows, Deletes
  <2>5. \A u, v \in Writers :
            WriterAt(u, "end")' /\ WriterAt(v, "end")' /\ writer'[u].cook = writer'[v].cook => u = v
    BY <2>1 DEF Rows
  <2>6. \A v \in Writers : WriterAt(v, "del1")' \/ WriterAt(v, "del2")' => writer'[v].cook \in Closed'
    <3>1. ASSUME NEW v \in Writers \ {w}, WriterAt(v, "del1")' \/ WriterAt(v, "del2")'
          PROVE  writer'[v].cook \in Closed'
      BY <1>2, <1>4, <3>1 DEF Rows, WriterAt
    <3>2. pc \in {"del1", "del2"} => c \in Closed
      BY DEF Deletes, AtNone
    <3>3. QED BY <1>2, <1>4, <3>1, <3>2 DEF WriterAt
  <2>7. QED BY <2>2, <2>3, <2>4, <2>5, <2>6 DEF Rows
<1>6. \A d \in CookIds : Numbered(d)' \subseteq Numbered(d)
  BY DEF Numbered, Deletes
<1>7. Counted'
  BY <1>1, <1>6, RequestCounted DEF Deletes
<1>8. QED BY <1>3, <1>5, <1>7

\* The steps of a prune or a delete, and what comes before and after it.
LEMMA PruneDeletes ==
    ASSUME StoreInv, NEW w \in Writers
    PROVE  /\ Prune1(w) => Deletes(w, "prune2", NoCook)
           /\ Prune2(w) => Deletes(w, "load", NoCook)
<1> USE DEF StoreInv
<1>1. ASSUME Prune1(w) PROVE Deletes(w, "prune2", NoCook)
  BY <1>1, SamplesDeleted DEF Prune1, DeleteSamplesOf, WriterAt, loadVars, Deletes, AtCook, AtNone
<1>2. ASSUME Prune2(w) PROVE Deletes(w, "load", NoCook)
  <2>1. /\ samples' = samples /\ seq' = seq
        /\ \A d \in CookIds : row'[d] = IF d \in Prunable THEN "absent" ELSE row[d]
    BY <1>2 DEF Prune2, DeleteRowsOf
  <2>2. \A d \in Prunable : row[d] # "open"
    BY DEF Prunable, Ended
  <2>3. QED
    BY <1>2, <2>1, <2>2, SamplesUnchanged DEF Prune2, WriterAt, loadVars, Deletes, AtCook, AtNone
<1>3. QED BY <1>1, <1>2

LEMMA DeleteDeletes ==
    ASSUME StoreInv, NEW w \in Writers
    PROVE  /\ Delete(w) => Deletes(w, "load", NoCook) \/ \E c \in Closed : Deletes(w, "del1", c)
           /\ Delete1(w) => \E c \in Closed : Deletes(w, "del2", c)
           /\ Delete2(w) => Deletes(w, "load", NoCook)
<1> USE DEF StoreInv
<1>1. ASSUME Delete(w)
      PROVE  Deletes(w, "load", NoCook) \/ \E c \in Closed : Deletes(w, "del1", c)
  <2>1. PICK c \in 1 .. seq :
            \/ row[c] = "ended" /\ WriterGoes(w, "del1", c)
            \/ row[c] = "absent" /\ WriterGoes(w, "load", NoCook)
    BY <1>1 DEF Delete
  <2>2. c \in CookIds /\ c <= seq
    BY DEF WriteType, StoreTypeOK, CookIds
  <2>3. /\ WriterAt(w, "idle")
        /\ UNCHANGED <<row, samples, seq, live, endedWith>>
    BY <1>1 DEF Delete, storeVars, loadVars
  <2>4. CASE row[c] = "ended" /\ WriterGoes(w, "del1", c)
    <3>1. c \in Closed
      BY <2>2, <2>4 DEF Closed
    <3>2. Deletes(w, "del1", c)
      BY <2>3, <2>4, <3>1, SamplesUnchanged DEF Deletes, WriterAt, AtCook
    <3>3. QED BY <3>1, <3>2
  <2>5. CASE row[c] = "absent" /\ WriterGoes(w, "load", NoCook)
    BY <2>3, <2>5, SamplesUnchanged DEF Deletes, WriterAt, AtNone
  <2>6. QED BY <2>1, <2>4, <2>5
<1>2. ASSUME Delete1(w)
      PROVE  \E c \in Closed : Deletes(w, "del2", c)
  <2>1. writer[w].cook \in Closed
    BY <1>2 DEF Delete1, Rows
  <2>2. Deletes(w, "del2", writer[w].cook)
    BY <1>2, <2>1, SamplesDeleted
    DEF Delete1, DeleteSamplesOf, WriterAt, loadVars, Deletes, AtCook
  <2>3. QED BY <2>1, <2>2
<1>3. ASSUME Delete2(w)
      PROVE  Deletes(w, "load", NoCook)
  <2>1. /\ samples' = samples /\ seq' = seq
        /\ \A d \in CookIds : row'[d] = IF d \in {writer[w].cook} THEN "absent" ELSE row[d]
    BY <1>3 DEF Delete2, DeleteRowsOf
  <2>2. row[writer[w].cook] # "open"
    BY <1>3 DEF Delete2, Rows, Closed
  <2>3. QED
    BY <1>3, <2>1, <2>2, SamplesUnchanged DEF Delete2, WriterAt, loadVars, Deletes, AtNone
<1>4. QED BY <1>1, <1>2, <1>3

LEMMA SpawnDeletes ==
    ASSUME NEW w \in Writers, NEW l \in Loaders, SpawnLoad(w, l)
    PROVE  Deletes(w, "idle", NoCook)
<1>1. /\ ~WriterAt(w, "append") /\ WriterGoes(w, "idle", NoCook)
      /\ UNCHANGED <<row, samples, seq, live, endedWith>>
  BY DEF SpawnLoad, WriterAt, storeVars
<1>2. QED BY <1>1, SamplesUnchanged DEF Deletes, AtNone

LEMMA RequestStep ==
    ASSUME StoreInv, NEW w \in Handlers, Request(w)
    PROVE  StoreInv'
<1> w \in Writers
  BY DEF Writers
<1>1. CASE Retire(w)
  BY <1>1, RetireStep
<1>2. CASE EndRetired(w)
  BY <1>2, EndStep
<1>3. CASE Prune1(w)
  <2>1. StoreTypeOK' /\ LoadType'
    BY <1>3, StatementType DEF Prune1, StoreInv, WriteType, LoadType, loadVars
  <2>2. QED BY <1>3, <2>1, PruneDeletes, DeletesStep
<1>4. CASE Prune2(w)
  <2>1. StoreTypeOK' /\ LoadType'
    BY <1>4, StatementType DEF Prune2, StoreInv, WriteType, LoadType, loadVars
  <2>2. QED BY <1>4, <2>1, PruneDeletes, DeletesStep
<1>5. CASE Delete(w)
  <2>1. StoreTypeOK' /\ LoadType'
    BY <1>5, StatementType DEF Delete, StoreInv, WriteType, LoadType, loadVars
  <2>2. QED BY <1>5, <2>1, DeleteDeletes, DeletesStep
<1>6. CASE Delete1(w)
  <2>1. StoreTypeOK' /\ LoadType'
    BY <1>6, StatementType DEF Delete1, StoreInv, WriteType, LoadType, loadVars
  <2>2. QED BY <1>6, <2>1, DeleteDeletes, DeletesStep
<1>7. CASE Delete2(w)
  <2>1. StoreTypeOK' /\ LoadType'
    BY <1>7, StatementType DEF Delete2, StoreInv, WriteType, LoadType, loadVars
  <2>2. QED BY <1>7, <2>1, DeleteDeletes, DeletesStep
<1>8. ASSUME NEW l \in Loaders, SpawnLoad(w, l)
      PROVE  StoreInv'
  <2>1. StoreTypeOK'
    BY <1>8, StatementType DEF SpawnLoad, StoreInv, WriteType
  <2>2. LoadType'
    BY <1>8 DEF SpawnLoad, StoreInv, LoadType
  <2>3. QED BY <1>8, <2>1, <2>2, SpawnDeletes, DeletesStep
<1>9. QED
  BY <1>1, <1>2, <1>3, <1>4, <1>5, <1>6, <1>7, <1>8 DEF Request

(***************************************************************************)
(* Type correctness                                                        *)
(***************************************************************************)

LEMMA StoreInvInit == Init => StoreInv
<1> SUFFICES ASSUME Init PROVE StoreInv
  OBVIOUS
<1>1. WriteType
  <2>1. StoreTypeOK
    BY FS_EmptySet DEF Init, StoreInit, StoreTypeOK
  <2>2. QED BY <2>1 DEF Init, WriteType, Idle, Places, AtNone
<1>2. LoadType
  BY DEF Init, LoadType, IdleLoader
<1>3. Rows
  BY DEF Init, StoreInit, Rows, WriterAt, Idle
<1>4. ASSUME NEW c \in CookIds PROVE Count(c)
  <2>1. SampleTimes(c) = {} /\ endedWith[c] = {}
    BY DEF Init, StoreInit, SampleTimes
  <2>2. Numbered(c) = {} /\ Appending(c) = {}
    BY <2>1 DEF Numbered, Appending, Init, Idle, WriterAt, Writers
  <2>3. Cardinality({}) = 0
    BY FS_EmptySet
  <2>4. QED BY <2>1, <2>2, <2>3 DEF Count
<1>5. QED BY <1>1, <1>2, <1>3, <1>4 DEF StoreInv, Counted

\* A load reads cooks of the table and samples that are within the bound.
LEMMA LoadStep ==
    ASSUME StoreInv, NEW l \in Loaders, Load(l)
    PROVE  LoadType' /\ UNCHANGED <<writeVars, endedWith>>
<1> USE DEF StoreInv
<1>1. CASE ListCooks(l)
  <2>1. FinishedCooks \subseteq CookIds
    BY DEF FinishedCooks, Ended
  <2>2. QED BY <1>1, <2>1 DEF ListCooks, LoadType
<1>2. CASE ListFails(l)
  BY <1>2 DEF ListFails, LoadType, IdleLoader
<1>3. CASE ReadSamples(l)
  <2>1. \A c \in CookIds : Curve(c) \subseteq Curves
    <3>1. ASSUME NEW c \in CookIds PROVE SampleTimes(c) \in SUBSET (1 .. MaxSamples)
      BY DEF Counted, Count, Numbered
    <3>2. QED BY <3>1 DEF Curve, Curves
  <2>2. PICK c \in loader[l].todo :
          \/ /\ loader' = [loader EXCEPT ![l].todo = @ \ {c}, ![l].got = @ \cup Curve(c)]
             /\ UNCHANGED disturbed
          \/ /\ loader' = [loader EXCEPT ![l].todo = @ \ {c}]
             /\ disturbed' = TRUE
    BY <1>3 DEF ReadSamples
  <2>3. c \in CookIds
    BY DEF LoadType
  <2>4. loader[l].todo \ {c} \in SUBSET CookIds /\ loader[l].got \cup Curve(c) \in SUBSET Curves
    BY <2>1, <2>3 DEF LoadType
  <2>5. disturbed' \in BOOLEAN
    BY <2>2 DEF LoadType
  <2>6. UNCHANGED <<writeVars, histModel, endedWith>>
    BY <1>3 DEF ReadSamples
  <2>7. loader' \in [Loaders -> [pc : {"idle", "list", "read"}, todo : SUBSET CookIds,
                                got : SUBSET Curves]]
    BY <2>2, <2>4 DEF LoadType
  <2>8. QED BY <2>5, <2>6, <2>7 DEF LoadType
<1>4. CASE SwapModel(l)
  BY <1>4 DEF SwapModel, LoadType, IdleLoader
<1>5. QED BY <1>1, <1>2, <1>3, <1>4 DEF Load

\* What does not touch the store, the writers or what cooks ended with.
LEMMA StoreInvFrame ==
    ASSUME StoreInv, UNCHANGED <<writeVars, endedWith>>, LoadType'
    PROVE  StoreInv'
<1> USE DEF StoreInv
<1>1. UNCHANGED <<row, started, samples, seq, live, writer, endedWith>>
  BY DEF writeVars, storeVars
<1>2. WriteType'
  BY <1>1, StatementType DEF WriteType, storeVars
<1>3. Rows'
  BY <1>1 DEF Rows, WriterAt, Closed
<1>4. ASSUME NEW c \in CookIds PROVE Count(c)'
  <2>1. Numbered(c)' = Numbered(c) /\ Appending(c)' = Appending(c)
    BY <1>1, SamplesUnchanged DEF Numbered, Appending, WriterAt
  <2>2. QED BY <1>1, <2>1 DEF Counted, Count
<1>5. QED BY <1>2, <1>3, <1>4 DEF Counted

LEMMA StoreInvStep ==
    ASSUME StoreInv, [Next]_vars
    PROVE  StoreInv'
<1>1. ASSUME NEW r \in Readers, Reading(r) PROVE StoreInv'
  BY <1>1, OpenStep, UpdateStep, AppendStep DEF Reading
<1>2. ASSUME NEW h \in Handlers, Request(h) PROVE StoreInv'
  BY <1>2, RequestStep
<1>3. ASSUME NEW l \in Loaders, Load(l) PROVE StoreInv'
  BY <1>3, LoadStep, StoreInvFrame
<1>4. ASSUME UNCHANGED <<writeVars, loadVars>> PROVE StoreInv'
  BY <1>4, StoreInvFrame DEF loadVars, StoreInv, LoadType
<1>5. ASSUME NEW s \in Scrapers, Scrape(s) PROVE UNCHANGED <<writeVars, loadVars>>
  BY <1>5 DEF Scrape, Refresh, CountCooks, CountSamples, CountFails
<1>6. Tick => UNCHANGED <<writeVars, loadVars>>
  BY DEF Tick
<1>7. UNCHANGED vars => UNCHANGED <<writeVars, loadVars>>
  BY DEF vars
<1>8. QED BY <1>1, <1>2, <1>3, <1>4, <1>5, <1>6, <1>7 DEF Next

\* Every reachable state is well typed: no cook gets more samples than the bound,
\* with those on their way, a goroutine that writes has a cook to write to, and
\* what a load has learned are curves of cooks of the table.
THEOREM TypeCorrect == Spec => []TypeOK
<1>1. Init => StoreInv /\ ScrapeType /\ OneScan
  BY StoreInvInit, ScrapeInit
<1>2. StoreInv /\ ScrapeType /\ OneScan /\ [Next]_vars => (StoreInv /\ ScrapeType /\ OneScan)'
  BY StoreInvStep, ScrapeStep
<1>3. StoreInv /\ ScrapeType => TypeOK
  BY TypeParts DEF StoreInv
<1>4. QED BY <1>1, <1>2, <1>3, PTL DEF Spec

\* The invariant of the writers alone, for the theorems below.
LEMMA StoreInvAlways == Spec => []StoreInv
<1>1. QED BY StoreInvInit, StoreInvStep, PTL DEF Spec

\* The steps of a request that delete what is over, and those of a prune or a load
\* it goes on to.
LEMMA RequestDeletes ==
    ASSUME StoreInv, NEW w \in Handlers, Request(w), ~Retire(w), ~EndRetired(w)
    PROVE  \E pc, c : Deletes(w, pc, c)
<1> w \in Writers
  BY DEF Writers
<1>1. QED BY PruneDeletes, DeleteDeletes, SpawnDeletes DEF Request

(***************************************************************************)
(* Curves are whole                                                        *)
(***************************************************************************)

\* A cook that is over has all it ended with, or has lost that and got no more
\* than the readings that were on their way when it ended.
FewOrWhole(c) ==
    \/ endedWith[c] # {} /\ endedWith[c] \subseteq SampleTimes(c)
    \/ Cardinality(SampleTimes(c)) + Cardinality(Appending(c)) <= Cardinality(Readers)

\* A cook that is over stays over, and what it ended with is settled.
LEMMA ClosedStays ==
    ASSUME StoreInv, [Next]_vars
    PROVE  Closed \subseteq Closed' /\ \A c \in Closed : endedWith'[c] = endedWith[c]
<1> USE DEF StoreInv
<1>1. StoreInv'
  BY StoreInvStep
<1>2. ASSUME UNCHANGED <<writeVars, endedWith>>
      PROVE  Closed \subseteq Closed' /\ \A c \in Closed : endedWith'[c] = endedWith[c]
  BY <1>2 DEF writeVars, storeVars, Closed
<1>3. ASSUME NEW r \in Readers, Reading(r)
      PROVE  Closed \subseteq Closed' /\ \A c \in Closed : endedWith'[c] = endedWith[c]
  <2>1. CASE Open1(r)
    <3>1. PICK c \in CookIds : InsertCook(c, c)
      BY <2>1 DEF Open1
    <3>2. \A d \in Closed : d \in Closed'
      BY <3>1 DEF InsertCook, Closed, WriteType, StoreTypeOK, CookIds
    <3>3. QED BY <2>1, <3>2 DEF Open1, loadVars
  <2>2. CASE Update(r)
    BY <2>2 DEF Update, storeVars, loadVars, Closed
  <2>3. CASE Append1(r)
    BY <2>3 DEF Append1, InsertSample, Closed
  <2>4. QED BY <1>3, <2>1, <2>2, <2>3 DEF Reading
<1>4. ASSUME NEW h \in Handlers, Request(h)
      PROVE  Closed \subseteq Closed' /\ \A c \in Closed : endedWith'[c] = endedWith[c]
  <2> h \in Writers
    BY DEF Writers
  <2>1. CASE Retire(h)
    BY <2>1 DEF Retire, storeVars, loadVars, Closed
  <2>2. CASE EndRetired(h)
    <3> DEFINE c == writer[h].cook
    <3>1. /\ row[c] = "open" /\ c \in CookIds /\ EndCook(c)
          /\ endedWith' = [endedWith EXCEPT ![c] = SampleTimes(c)]
      BY <2>2, WriterPlaces DEF EndRetired, WriterAt, AtCook, Rows
    <3>2. Closed \subseteq Closed'
      BY <3>1 DEF Closed, EndCook, WriteType, StoreTypeOK
    <3>3. \A d \in Closed : endedWith'[d] = endedWith[d]
      BY <3>1 DEF Closed, LoadType
    <3>4. QED BY <3>2, <3>3
  <2>3. CASE ~Retire(h) /\ ~EndRetired(h)
    <3>1. PICK pc, c : Deletes(h, pc, c)
      BY <1>4, <2>3, RequestDeletes
    <3>2. Closed \subseteq Closed'
      BY <1>1, <3>1, ClosedGrows DEF Deletes
    <3>3. QED BY <3>1, <3>2 DEF Deletes
  <2>4. QED BY <2>1, <2>2, <2>3
<1>5. ASSUME NEW l \in Loaders, Load(l)
      PROVE  Closed \subseteq Closed' /\ \A c \in Closed : endedWith'[c] = endedWith[c]
  BY <1>2, <1>5, LoadStep
<1>6. ASSUME NEW s \in Scrapers, Scrape(s) PROVE UNCHANGED <<writeVars, endedWith>>
  BY <1>6 DEF Scrape, Refresh, CountCooks, CountSamples, CountFails, loadVars
<1>7. Tick => UNCHANGED <<writeVars, endedWith>>
  BY DEF Tick, loadVars
<1>8. UNCHANGED vars => UNCHANGED <<writeVars, endedWith>>
  BY DEF vars, loadVars
<1>9. QED BY <1>2, <1>3, <1>4, <1>5, <1>6, <1>7, <1>8 DEF Next

\* What keeps a cook's samples and the readings on their way to it.
LEMMA FewOrWholeKept ==
    ASSUME NEW c, FewOrWhole(c), endedWith'[c] = endedWith[c],
           SampleTimes(c)' = SampleTimes(c), Appending(c)' = Appending(c)
    PROVE  FewOrWhole(c)'
  BY DEF FewOrWhole

LEMMA FewOrWholeReading ==
    ASSUME StoreInv, NEW w \in Readers, Reading(w), \A c \in Closed : FewOrWhole(c),
           NEW c \in Closed'
    PROVE  FewOrWhole(c)'
<1> w \in Writers /\ c \in CookIds
  BY DEF Writers, Closed
<1> USE DEF StoreInv
<1>1. CASE Open1(w)
  <2>1. PICK d \in CookIds : InsertCook(d, d) /\ WriterGoes(w, "append", d)
    BY <1>1 DEF Open1
  <2>2. c \in Closed /\ c # d
    BY <2>1 DEF InsertCook, Closed, WriteType, StoreTypeOK, CookIds
  <2>3. ~WriterAt(w, "append")
    BY <1>1 DEF Open1, WriterAt
  <2>4. Appending(c)' = Appending(c)
    BY <2>1, <2>2, <2>3, AppendingMoves DEF AtCook
  <2>5. SampleTimes(c)' = SampleTimes(c) /\ endedWith' = endedWith
    BY <1>1, <2>1, SamplesUnchanged DEF InsertCook, Open1, loadVars
  <2>6. QED BY <2>2, <2>4, <2>5, FewOrWholeKept
<1>2. CASE Update(w)
  <2>1. /\ ~WriterAt(w, "append") /\ live \in CookIds /\ WriterGoes(w, "append", live)
        /\ UNCHANGED <<row, samples, seq, endedWith>>
    BY <1>2 DEF Update, WriterAt, WriteType, storeVars, loadVars
  <2>2. row[live] = "open"
    BY <2>1, WriterPlaces DEF Rows
  <2>3. c \in Closed /\ c # live
    BY <2>1, <2>2 DEF Closed
  <2>4. Appending(c)' = Appending(c) /\ SampleTimes(c)' = SampleTimes(c)
    BY <2>1, <2>3, AppendingMoves, SamplesUnchanged DEF AtCook
  <2>5. QED BY <2>1, <2>3, <2>4, FewOrWholeKept
<1>3. CASE Append1(w)
  <2> DEFINE d == writer[w].cook
             n == NextSample(d)
  <2>1. /\ WriterAt(w, "append") /\ WriterGoes(w, "idle", NoCook) /\ d \in CookIds
        /\ InsertSample(d, n) /\ endedWith' = endedWith
    BY <1>3, WriterPlaces DEF Append1, WriterAt, AtCook, NextSample, Numbered
  <2> HIDE DEF n
  <2>2. c \in Closed
    BY <2>1 DEF InsertSample, Closed
  <2>3. /\ SampleTimes(c)' = IF c = d THEN SampleTimes(c) \cup {n} ELSE SampleTimes(c)
        /\ Appending(c)' = Appending(c) \ {w}
    BY <2>1, SamplesInserted, AppendingMoves DEF AtNone
  <2>4. CASE c # d
    <3>1. w \notin Appending(c)
      BY <2>4 DEF Appending
    <3>2. QED BY <2>1, <2>2, <2>3, <2>4, <3>1, FewOrWholeKept
  <2>5. CASE c = d
    <3>1. CASE endedWith[c] # {} /\ endedWith[c] \subseteq SampleTimes(c)
      BY <2>1, <2>3, <2>5, <3>1 DEF FewOrWhole
    <3>2. CASE Cardinality(SampleTimes(c)) + Cardinality(Appending(c)) <= Cardinality(Readers)
      <4>1. IsFiniteSet(SampleTimes(c)) /\ Cardinality(SampleTimes(c)) \in Nat
        BY SampleTimesFinite, FS_CardinalityType DEF WriteType
      <4>2. /\ Cardinality(SampleTimes(c)') <= Cardinality(SampleTimes(c)) + 1
            /\ Cardinality(SampleTimes(c)') \in Nat
        BY <2>3, <2>5, <4>1, AddOne
      <4>3. w \in Appending(c) /\ IsFiniteSet(Appending(c)) /\ Cardinality(Appending(c)) \in Nat
        BY <2>1, <2>5, AppendingFinite DEF Appending
      <4>4. Cardinality(Appending(c)') = Cardinality(Appending(c)) - 1
        BY <2>3, <4>3, FS_RemoveElement
      <4>5. Cardinality(Readers) \in Nat
        BY AppendingFinite
      <4>6. Cardinality(SampleTimes(c)') + Cardinality(Appending(c)') <= Cardinality(Readers)
        BY <3>2, <4>1, <4>2, <4>3, <4>4, <4>5
      <4>7. QED BY <4>6 DEF FewOrWhole
    <3>3. QED BY <2>2, <3>1, <3>2 DEF FewOrWhole
  <2>6. QED BY <2>4, <2>5
<1>4. QED BY <1>1, <1>2, <1>3 DEF Reading

LEMMA FewOrWholeRequest ==
    ASSUME StoreInv, NEW w \in Handlers, Request(w), \A c \in Closed : FewOrWhole(c),
           NEW c \in Closed'
    PROVE  FewOrWhole(c)'
<1> w \in Writers /\ c \in CookIds
  BY DEF Writers, Closed
<1> USE DEF StoreInv
<1>1. CASE Retire(w)
  <2>1. /\ ~WriterAt(w, "append") /\ live \in CookIds /\ WriterGoes(w, "end", live)
        /\ UNCHANGED <<row, samples, seq, endedWith>>
    BY <1>1 DEF Retire, WriterAt, WriteType, storeVars, loadVars
  <2>2. c \in Closed
    BY <2>1 DEF Closed
  <2>3. Appending(c)' = Appending(c) /\ SampleTimes(c)' = SampleTimes(c)
    BY <2>1, AppendingMoves, SamplesUnchanged DEF AtCook
  <2>4. QED BY <2>1, <2>2, <2>3, FewOrWholeKept
<1>2. CASE EndRetired(w)
  <2> DEFINE d == writer[w].cook
  <2>1. /\ WriterAt(w, "end") /\ d \in CookIds /\ WriterGoes(w, "prune1", NoCook)
        /\ EndCook(d) /\ endedWith' = [endedWith EXCEPT ![d] = SampleTimes(d)]
    BY <1>2, WriterPlaces DEF EndRetired, WriterAt, AtCook
  <2>2. ~WriterAt(w, "append") /\ seq' = seq /\ samples' = samples
    BY <2>1 DEF WriterAt, EndCook
  <2>3. Appending(c)' = Appending(c) /\ SampleTimes(c)' = SampleTimes(c)
    BY <2>1, <2>2, AppendingMoves, SamplesUnchanged DEF AtNone
  <2>4. CASE c = d
    <3>1. endedWith'[c] = SampleTimes(c)
      BY <2>1, <2>4 DEF LoadType
    <3>2. CASE SampleTimes(c) # {}
      BY <2>3, <3>1, <3>2 DEF FewOrWhole
    <3>3. CASE SampleTimes(c) = {}
      <4>1. Cardinality(SampleTimes(c)') = 0
        BY <2>3, <3>3, FS_EmptySet
      <4>2. Cardinality(Appending(c)') \in Nat /\ Cardinality(Appending(c)') <= Cardinality(Readers)
        BY <2>3, AppendingFinite
      <4>3. QED BY <4>1, <4>2 DEF FewOrWhole
    <3>4. QED BY <3>2, <3>3
  <2>5. CASE c # d
    <3>1. c \in Closed /\ endedWith'[c] = endedWith[c]
      BY <2>1, <2>2, <2>5 DEF Closed, EndCook, WriteType, StoreTypeOK, LoadType
    <3>2. QED BY <2>3, <3>1, FewOrWholeKept
  <2>6. QED BY <2>4, <2>5
<1>3. CASE ~Retire(w) /\ ~EndRetired(w)
  <2>1. PICK pc, d : Deletes(w, pc, d)
    BY <1>3, RequestDeletes
  <2>2. /\ endedWith' = endedWith /\ c \in Closed
        /\ SampleTimes(c)' = SampleTimes(c) \/ SampleTimes(c)' = {}
    BY <2>1 DEF Deletes, Closed
  <2>3. Appending(c)' = Appending(c)
    BY <2>1, AppendingMoves DEF Deletes, Closed
  <2>4. CASE SampleTimes(c)' = SampleTimes(c)
    BY <2>2, <2>3, <2>4, FewOrWholeKept
  <2>5. CASE SampleTimes(c)' = {}
    <3>1. Cardinality(SampleTimes(c)') = 0
      BY <2>5, FS_EmptySet
    <3>2. Cardinality(Appending(c)') \in Nat /\ Cardinality(Appending(c)') <= Cardinality(Readers)
      BY <2>3, AppendingFinite
    <3>3. QED BY <3>1, <3>2 DEF FewOrWhole
  <2>6. QED BY <2>2, <2>4, <2>5
<1>4. QED BY <1>1, <1>2, <1>3

\* The readers and the clock leave the cooks alone.
LEMMA WritersRest ==
    ASSUME StoreInv, [Next]_vars,
           ~ \E r \in Readers : Reading(r), ~ \E h \in Handlers : Request(h)
    PROVE  UNCHANGED <<row, started, samples, seq, live, writer, endedWith>>
<1>1. ASSUME NEW l \in Loaders, Load(l) PROVE UNCHANGED <<writeVars, endedWith>>
  BY <1>1, LoadStep
<1>2. ASSUME NEW s \in Scrapers, Scrape(s) PROVE UNCHANGED <<writeVars, endedWith>>
  BY <1>2 DEF Scrape, Refresh, CountCooks, CountSamples, CountFails, loadVars
<1>3. Tick => UNCHANGED <<writeVars, endedWith>>
  BY DEF Tick, loadVars
<1>4. UNCHANGED vars => UNCHANGED <<writeVars, endedWith>>
  BY DEF vars, loadVars
<1>5. UNCHANGED <<writeVars, endedWith>>
  BY <1>1, <1>2, <1>3, <1>4 DEF Next
<1>6. QED BY <1>5 DEF writeVars, storeVars

LEMMA FewOrWholeStep ==
    ASSUME StoreInv, [Next]_vars, \A c \in Closed : FewOrWhole(c)
    PROVE  \A c \in Closed' : FewOrWhole(c)'
<1>1. CASE ~ (\E r \in Readers : Reading(r)) /\ ~ (\E h \in Handlers : Request(h))
  <2>1. UNCHANGED <<row, started, samples, seq, live, writer, endedWith>>
    BY <1>1, WritersRest
  <2>2. ASSUME NEW c \in Closed' PROVE FewOrWhole(c)'
    <3>1. /\ c \in Closed /\ SampleTimes(c)' = SampleTimes(c)
          /\ Appending(c)' = Appending(c) /\ endedWith'[c] = endedWith[c]
      BY <2>1, SamplesUnchanged DEF Closed, Appending, WriterAt
    <3>2. QED BY <3>1, FewOrWholeKept
  <2>3. QED BY <2>2
<1>2. QED BY <1>1, FewOrWholeReading, FewOrWholeRequest

\* A load has listed and learned, and the model has, only cooks that are over.
ListsClosed == \A l \in Loaders : loader[l].todo \subseteq Closed
Whole(e) == e.cook \in Closed /\ endedWith[e.cook] # {} /\ endedWith[e.cook] \subseteq e.pts
LearnedWhole ==
    /\ \A l \in Loaders : \A e \in loader[l].got : Whole(e)
    /\ \A e \in histModel : Whole(e)

LEMMA ListsClosedStep ==
    ASSUME StoreInv, ListsClosed, [Next]_vars
    PROVE  ListsClosed'
<1> USE DEF StoreInv
<1>1. Closed \subseteq Closed'
  BY ClosedStays
<1>2. ASSUME NEW l \in Loaders, NEW k \in Loaders, Load(k)
      PROVE  loader'[l].todo \subseteq Closed
  <2>1. loader \in [Loaders -> [pc : {"idle", "list", "read"}, todo : SUBSET CookIds,
                                got : SUBSET Curves]]
    BY DEF LoadType
  <2>2. FinishedCooks \subseteq Closed
    <3>1. ASSUME NEW c \in Ended PROVE c \in Closed
      BY DEF Ended, Closed, Rows, WriteType, StoreTypeOK, CookIds
    <3>2. QED BY <3>1 DEF FinishedCooks
  <2>3. loader'[l] = loader[l] \/ loader'[l].todo \subseteq loader[l].todo
          \/ loader'[l].todo \subseteq FinishedCooks
    <3>1. CASE ListCooks(k)
      BY <2>1, <3>1 DEF ListCooks
    <3>2. CASE ListFails(k)
      BY <2>1, <3>2 DEF ListFails, IdleLoader
    <3>3. CASE ReadSamples(k)
      BY <2>1, <3>3 DEF ReadSamples
    <3>4. CASE SwapModel(k)
      BY <2>1, <3>4 DEF SwapModel, IdleLoader
    <3>5. QED BY <1>2, <3>1, <3>2, <3>3, <3>4 DEF Load
  <2>4. QED BY <2>2, <2>3 DEF ListsClosed
<1>3. ASSUME NEW l \in Loaders, ~ \E k \in Loaders : Load(k)
      PROVE  loader'[l].todo = loader[l].todo
  <2>1. ASSUME NEW r \in Readers, Reading(r) PROVE loader' = loader
    BY <2>1 DEF Reading, Open1, Update, Append1, loadVars
  <2>2. ASSUME NEW h \in Handlers, Request(h)
        PROVE  loader'[l].todo = loader[l].todo
    <3>1. ASSUME NEW k \in Loaders, SpawnLoad(h, k)
          PROVE  loader'[l].todo = loader[l].todo
      BY <3>1 DEF SpawnLoad, LoadType
    <3>2. QED
      BY <2>2, <3>1
      DEF Request, Retire, EndRetired, Prune1, Prune2, Delete, Delete1, Delete2, loadVars
  <2>3. ASSUME NEW s \in Scrapers, Scrape(s) PROVE loader' = loader
    BY <2>3 DEF Scrape, Refresh, CountCooks, CountSamples, CountFails, loadVars
  <2>4. Tick => loader' = loader
    BY DEF Tick, loadVars
  <2>5. UNCHANGED vars => loader' = loader
    BY DEF vars, loadVars
  <2>6. QED BY <1>3, <2>1, <2>2, <2>3, <2>4, <2>5 DEF Next
<1>4. QED BY <1>1, <1>2, <1>3 DEF ListsClosed

\* Where what a step has learned, or put into the model, comes from.
LEMMA LearnedFrom ==
    ASSUME StoreInv, [Next]_vars
    PROVE  /\ \A l \in Loaders : \A e \in loader'[l].got :
                 e \in loader[l].got \/ \E c \in loader[l].todo : e \in Curve(c)
           /\ \A e \in histModel' : e \in histModel \/ \E l \in Loaders : e \in loader[l].got
<1> USE DEF StoreInv
<1>1. loader \in [Loaders -> [pc : {"idle", "list", "read"}, todo : SUBSET CookIds,
                              got : SUBSET Curves]]
  BY DEF LoadType
<1> DEFINE GotFrom == \A l \in Loaders : \A e \in loader'[l].got :
                 e \in loader[l].got \/ \E c \in loader[l].todo : e \in Curve(c)
           ModelFrom == \A e \in histModel' : e \in histModel \/ \E l \in Loaders : e \in loader[l].got
<1>2. ASSUME NEW k \in Loaders, Load(k) PROVE GotFrom /\ ModelFrom
  <2>1. CASE ListCooks(k)
    BY <1>1, <2>1 DEF ListCooks
  <2>2. CASE ListFails(k)
    BY <1>1, <2>2 DEF ListFails, IdleLoader
  <2>3. CASE ReadSamples(k)
    BY <1>1, <2>3 DEF ReadSamples
  <2>4. CASE SwapModel(k)
    BY <1>1, <2>4 DEF SwapModel, IdleLoader
  <2>5. QED BY <1>2, <2>1, <2>2, <2>3, <2>4 DEF Load
<1>3. ASSUME NEW h \in Handlers, Request(h) PROVE GotFrom /\ ModelFrom
  <2>1. ASSUME NEW k \in Loaders, SpawnLoad(h, k) PROVE GotFrom /\ ModelFrom
    BY <1>1, <2>1 DEF SpawnLoad
  <2>2. QED
    BY <1>3, <2>1
    DEF Request, Retire, EndRetired, Prune1, Prune2, Delete, Delete1, Delete2, loadVars
<1>4. ASSUME UNCHANGED <<loader, histModel>> PROVE GotFrom /\ ModelFrom
  BY <1>4
<1>5. ASSUME NEW r \in Readers, Reading(r) PROVE UNCHANGED <<loader, histModel>>
  BY <1>5 DEF Reading, Open1, Update, Append1, loadVars
<1>6. ASSUME NEW s \in Scrapers, Scrape(s) PROVE UNCHANGED <<loader, histModel>>
  BY <1>6 DEF Scrape, Refresh, CountCooks, CountSamples, CountFails, loadVars
<1>7. Tick \/ UNCHANGED vars => UNCHANGED <<loader, histModel>>
  BY DEF Tick, vars, loadVars
<1>8. GotFrom /\ ModelFrom
  <2> HIDE DEF GotFrom, ModelFrom
  <2>1. QED BY <1>2, <1>3, <1>4, <1>5, <1>6, <1>7 DEF Next
<1>9. QED BY <1>8

\* Enough samples to teach something are more than came late: the curve is whole.
LEMMA CurveWhole ==
    ASSUME StoreInv, Cardinality(Readers) < MinPoints,
           NEW c \in Closed, FewOrWhole(c), NEW e \in Curve(c)
    PROVE  Whole(e)
<1>1. /\ ~(Cardinality(SampleTimes(c)) < MinPoints)
      /\ e.cook = c /\ e.pts = SampleTimes(c)
  BY DEF Curve
<1>2. Cardinality(SampleTimes(c)) \in Nat
  BY SampleTimesFinite, FS_CardinalityType DEF StoreInv, WriteType
<1>3. Cardinality(Appending(c)) \in Nat /\ Cardinality(Readers) \in Nat
  BY AppendingFinite
<1>4. endedWith[c] # {} /\ endedWith[c] \subseteq SampleTimes(c)
  BY <1>1, <1>2, <1>3 DEF FewOrWhole
<1>5. QED BY <1>1, <1>4 DEF Whole

LEMMA LearnedWholeStep ==
    ASSUME StoreInv, Cardinality(Readers) < MinPoints, \A c \in Closed : FewOrWhole(c),
           ListsClosed, LearnedWhole, [Next]_vars
    PROVE  LearnedWhole'
<1>1. \A e : Whole(e) => Whole(e)'
  BY ClosedStays DEF Whole
<1>2. \A l \in Loaders : \A c \in loader[l].todo : \A e \in Curve(c) : Whole(e)
  BY CurveWhole DEF ListsClosed
<1>3. \A l \in Loaders : \A e \in loader'[l].got : Whole(e)'
  BY <1>1, <1>2, LearnedFrom DEF LearnedWhole
<1>4. \A e \in histModel' : Whole(e)'
  BY <1>1, LearnedFrom DEF LearnedWhole
<1>5. QED BY <1>3, <1>4 DEF LearnedWhole

\* While fewer readings are under way at a time than it takes to teach something,
\* no load ever keeps a part of a cook's curve, whatever is pruned, deleted or ended
\* under it.
THEOREM WholeCurves ==
    ASSUME Cardinality(Readers) < MinPoints
    PROVE  Spec => []CurvesAreWhole
<1> DEFINE Few == \A c \in Closed : FewOrWhole(c)
<1>1. Init => StoreInv /\ Few /\ ListsClosed /\ LearnedWhole
  <2> SUFFICES ASSUME Init PROVE StoreInv /\ Few /\ ListsClosed /\ LearnedWhole
    OBVIOUS
  <2>1. Closed = {}
    BY DEF Init, StoreInit, Closed, CookIds
  <2>2. QED BY <2>1, StoreInvInit DEF Init, IdleLoader, ListsClosed, LearnedWhole
<1>2. StoreInv /\ Few /\ ListsClosed /\ LearnedWhole /\ [Next]_vars
        => (StoreInv /\ Few /\ ListsClosed /\ LearnedWhole)'
  BY StoreInvStep, FewOrWholeStep, ListsClosedStep, LearnedWholeStep
<1>3. LearnedWhole => CurvesAreWhole
  BY DEF LearnedWhole, Whole, CurvesAreWhole
<1> HIDE DEF Few
<1>4. QED BY <1>1, <1>2, <1>3, PTL DEF Spec

(***************************************************************************)
(* The model follows the store                                             *)
(***************************************************************************)

\* No request is between its first change and its load; what the store teaches.
Settled == \A w \in Writers : writer[w].pc \in {"idle", "append"}
Teaches == UNION {Curve(c) : c \in FinishedCooks}

\* Undisturbed, one load is under way at most; once the requests are through, what
\* it has read and has still to read is what the store teaches.
Follows ==
    ~disturbed =>
        /\ \A k, l \in Loaders : ~LoaderAt(k, "idle") /\ ~LoaderAt(l, "idle") => k = l
        /\ Settled /\ LoadersIdle => histModel = Teaches
        /\ \A l \in Loaders : Settled /\ LoaderAt(l, "read") =>
              loader[l].got \cup UNION {Curve(c) : c \in loader[l].todo} = Teaches

\* What the store teaches does not change with cooks that are not over.
LEMMA TeachesSame ==
    ASSUME Ended' = Ended, \A c \in Ended : started'[c] = started[c],
           \A c \in Ended : SampleTimes(c)' = SampleTimes(c)
    PROVE  Teaches' = Teaches
<1>1. \A c, d \in Ended : Newer(c, d)' <=> Newer(c, d)
  BY DEF Newer
<1>2. ASSUME NEW c \in Ended
      PROVE  {d \in Ended : Newer(d, c)}' = {d \in Ended : Newer(d, c)}
  BY <1>1
<1>3. FinishedCooks' = FinishedCooks
  BY <1>2 DEF FinishedCooks
<1>4. \A c \in FinishedCooks : Curve(c)' = Curve(c)
  BY DEF Curve, FinishedCooks
<1>5. QED BY <1>3, <1>4 DEF Teaches

\* Nor does what a load has still to read.
LEMMA ToReadSame ==
    ASSUME NEW T, \A c \in T : SampleTimes(c)' = SampleTimes(c)
    PROVE  UNION {Curve(c)' : c \in T} = UNION {Curve(c) : c \in T}
<1>1. \A c \in T : Curve(c)' = Curve(c)
  BY DEF Curve
<1>2. QED BY <1>1

\* A step that leaves the loads, and the cooks that are over, as they are.
LEMMA FollowsFrame ==
    ASSUME Follows, ListsClosed, disturbed' = disturbed \/ disturbed' = TRUE,
           UNCHANGED <<loader, histModel>>, Settled' => Settled,
           ~disturbed' => /\ Ended' = Ended
                          /\ \A c \in Ended : started'[c] = started[c]
                          /\ \A c \in Ended \cup Closed : SampleTimes(c)' = SampleTimes(c)
    PROVE  Follows'
<1> SUFFICES ASSUME ~disturbed' PROVE Follows'
  BY DEF Follows
<1>1. ~disturbed
  OBVIOUS
<1>2. Teaches' = Teaches
  BY TeachesSame
<1>3. ASSUME NEW l \in Loaders
      PROVE  UNION {Curve(c)' : c \in loader[l].todo} = UNION {Curve(c) : c \in loader[l].todo}
  BY ToReadSame DEF ListsClosed
<1>4. QED BY <1>1, <1>2, <1>3 DEF Follows, LoaderAt, LoadersIdle

\* A reading comes to an open cook, or disturbs.
LEMMA FollowsReading ==
    ASSUME StoreInv, ListsClosed, Follows, NEW w \in Readers, Reading(w)
    PROVE  Follows'
<1> w \in Writers
  BY DEF Writers
<1> USE DEF StoreInv
<1>1. CASE Open1(w)
  <2>1. PICK c \in CookIds : InsertCook(c, c) /\ WriterGoes(w, "append", c)
    BY <1>1 DEF Open1
  <2>2. /\ row[c] = "absent" /\ row' = [row EXCEPT ![c] = "open"]
        /\ started' = [started EXCEPT ![c] = c] /\ samples' = samples
        /\ row \in [CookIds -> {"absent", "open", "ended"}] /\ started \in [CookIds -> Nat]
    BY <2>1 DEF InsertCook, Rows, WriteType, StoreTypeOK, CookIds
  <2>3. Ended' = Ended /\ \A d \in Ended : started'[d] = started[d]
    BY <2>2 DEF Ended
  <2>4. Settled' => Settled
    BY <1>1, <2>1, WriterMoves DEF Settled, AtCook, Open1, WriterAt
  <2>5. UNCHANGED <<loader, histModel, disturbed>>
    BY <1>1 DEF Open1, loadVars
  <2>6. \A d : SampleTimes(d)' = SampleTimes(d)
    BY <2>2, SamplesUnchanged
  <2>7. QED BY <2>3, <2>4, <2>5, <2>6, FollowsFrame
<1>2. CASE Update(w)
  <2>1. /\ UNCHANGED <<row, started, samples, seq, loader, histModel, disturbed>>
        /\ live \in CookIds /\ WriterGoes(w, "append", live) /\ WriterAt(w, "idle")
    BY <1>2 DEF Update, WriteType, storeVars, loadVars
  <2>2. Settled' => Settled
    BY <2>1, WriterMoves DEF Settled, AtCook, WriterAt
  <2>3. Ended' = Ended /\ \A d : SampleTimes(d)' = SampleTimes(d)
    BY <2>1, SamplesUnchanged DEF Ended
  <2>4. QED BY <2>1, <2>2, <2>3, FollowsFrame
<1>3. CASE Append1(w)
  <2> DEFINE c == writer[w].cook
             n == NextSample(c)
  <2>1. /\ WriterAt(w, "append") /\ WriterGoes(w, "idle", NoCook) /\ c \in CookIds
        /\ InsertSample(c, n) /\ disturbed' = (disturbed \/ row[c] # "open")
        /\ UNCHANGED <<loader, histModel>>
    BY <1>3, WriterPlaces DEF Append1, WriterAt, AtCook, NextSample, Numbered
  <2> HIDE DEF n
  <2>2. UNCHANGED <<row, started>>
    BY <2>1 DEF InsertSample
  <2>3. Settled' => Settled
    BY <2>1, WriterMoves DEF Settled, AtNone, WriterAt
  <2>4. disturbed' = disturbed \/ disturbed' = TRUE
    BY <2>1 DEF LoadType
  <2>5. ASSUME ~disturbed', NEW d \in Ended \cup Closed
        PROVE  SampleTimes(d)' = SampleTimes(d)
    <3>1. row[c] = "open"
      BY <2>1, <2>5
    <3>2. d # c
      BY <3>1 DEF Ended, Closed
    <3>3. QED BY <2>1, <3>2, SamplesInserted
  <2>6. Ended' = Ended
    BY <2>2 DEF Ended
  <2>7. QED BY <2>1, <2>2, <2>3, <2>4, <2>5, <2>6, FollowsFrame
<1>4. QED BY <1>1, <1>2, <1>3 DEF Reading

\* A request that has changed what the store teaches is not through before it has
\* started a load; that load is the only one, or disturbs.
LEMMA FollowsRequest ==
    ASSUME StoreInv, Follows, NEW w \in Handlers, Request(w)
    PROVE  Follows'
<1> w \in Writers
  BY DEF Writers
<1> USE DEF StoreInv
<1>1. ASSUME UNCHANGED <<loader, disturbed>>, ~Settled'
      PROVE  Follows'
  BY <1>1 DEF Follows, LoaderAt
<1>2. ASSUME NEW pc, NEW c, WriterGoes(w, pc, c), pc \notin {"idle", "append"}
      PROVE  ~Settled'
  <2>1. writer'[w].pc = pc
    BY <1>2 DEF WriterGoes, WriteType
  <2>2. QED BY <1>2, <2>1 DEF Settled
<1>3. CASE Retire(w) \/ EndRetired(w)
  <2>1. ~Settled' /\ UNCHANGED <<loader, disturbed>>
    BY <1>2, <1>3 DEF Retire, EndRetired, loadVars
  <2>2. QED BY <1>1, <2>1
<1>4. CASE Prune1(w) \/ Prune2(w)
  <2>1. ~Settled' /\ UNCHANGED <<loader, disturbed>>
    BY <1>2, <1>4 DEF Prune1, Prune2, loadVars
  <2>2. QED BY <1>1, <2>1
<1>5. CASE Delete(w) \/ Delete1(w) \/ Delete2(w)
  <2>1. ~Settled' /\ UNCHANGED <<loader, disturbed>>
    BY <1>2, <1>5 DEF Delete, Delete1, Delete2, loadVars
  <2>2. QED BY <1>1, <2>1
<1>6. ASSUME NEW l \in Loaders, SpawnLoad(w, l)
      PROVE  Follows'
  <2>1. /\ LoaderAt(l, "idle") /\ disturbed' = ~LoadersIdle
        /\ loader' = [loader EXCEPT ![l].pc = "list"]
    BY <1>6 DEF SpawnLoad
  <2>2. SUFFICES ASSUME LoadersIdle PROVE Follows'
    BY <2>1 DEF Follows
  <2>3. /\ loader'[l].pc = "list"
        /\ \A k \in Loaders \ {l} : loader'[k].pc = "idle"
    BY <2>1, <2>2 DEF LoadersIdle, LoaderAt, LoadType
  <2>4. ~LoadersIdle' /\ \A k \in Loaders : ~LoaderAt(k, "read")'
    BY <2>3 DEF LoadersIdle, LoaderAt
  <2>5. \A k, m \in Loaders : ~LoaderAt(k, "idle")' /\ ~LoaderAt(m, "idle")' => k = m
    BY <2>3 DEF LoaderAt
  <2>6. QED BY <2>4, <2>5 DEF Follows
<1>7. QED BY <1>3, <1>4, <1>5, <1>6 DEF Request

\* A load that is not disturbed reads what the store teaches, cook by cook.
LEMMA FollowsLoad ==
    ASSUME StoreInv, ListsClosed, Follows, NEW k \in Loaders, Load(k)
    PROVE  Follows'
<1> USE DEF StoreInv
<1>1. UNCHANGED <<row, started, samples, writer>>
  BY LoadStep DEF writeVars, storeVars
<1>2. /\ \A d : SampleTimes(d)' = SampleTimes(d)
      /\ Ended' = Ended /\ (Settled' <=> Settled)
  BY <1>1, SamplesUnchanged DEF Ended, Settled
<1>3. Teaches' = Teaches
  BY <1>1, <1>2, TeachesSame
<1>4. \A T : UNION {Curve(c)' : c \in T} = UNION {Curve(c) : c \in T}
  BY <1>2, ToReadSame
<1>5. loader \in [Loaders -> [pc : {"idle", "list", "read"}, todo : SUBSET CookIds,
                              got : SUBSET Curves]]
  BY DEF LoadType
<1>6. ~LoaderAt(k, "idle")
  BY DEF Load, ListCooks, ListFails, ReadSamples, SwapModel, LoaderAt
<1> SUFFICES ASSUME ~disturbed' PROVE Follows'
  BY DEF Follows
<1>7. ~disturbed
  BY DEF Load, ListCooks, ListFails, ReadSamples, SwapModel
<1>8. \A l \in Loaders \ {k} : LoaderAt(l, "idle")
  BY <1>6, <1>7 DEF Follows
<1>9. ASSUME \A l \in Loaders \ {k} : loader'[l] = loader[l],
             ~LoaderAt(k, "idle")',
             Settled /\ LoaderAt(k, "read")' =>
                loader'[k].got \cup UNION {Curve(c) : c \in loader'[k].todo} = Teaches
      PROVE  Follows'
  <2>1. \A l \in Loaders \ {k} : LoaderAt(l, "idle")'
    BY <1>8, <1>9 DEF LoaderAt
  <2>2. \A l \in Loaders : LoaderAt(l, "read")' => l = k
    BY <2>1 DEF LoaderAt
  <2>3. ~LoadersIdle'
    BY <1>9 DEF LoadersIdle
  <2>4. \A l, m \in Loaders : ~LoaderAt(l, "idle")' /\ ~LoaderAt(m, "idle")' => l = m
    BY <2>1
  <2>5. ASSUME NEW l \in Loaders, Settled', LoaderAt(l, "read")'
        PROVE  loader'[l].got \cup UNION {Curve(c)' : c \in loader'[l].todo} = Teaches'
    BY <1>2, <1>3, <1>4, <1>9, <2>2, <2>5
  <2>6. QED BY <2>3, <2>4, <2>5 DEF Follows
<1>10. CASE ListCooks(k)
  <2>1. /\ loader'[k] = [pc |-> "read", todo |-> FinishedCooks, got |-> {}]
        /\ \A l \in Loaders \ {k} : loader'[l] = loader[l]
    BY <1>5, <1>10 DEF ListCooks
  <2>2. loader'[k].got \cup UNION {Curve(c) : c \in loader'[k].todo} = Teaches
    BY <2>1 DEF Teaches
  <2>3. QED BY <1>9, <2>1, <2>2 DEF LoaderAt
<1>11. CASE ListFails(k)
  BY <1>11 DEF ListFails
<1>12. CASE ReadSamples(k)
  <2>1. PICK c \in loader[k].todo :
            loader' = [loader EXCEPT ![k].todo = @ \ {c}, ![k].got = @ \cup Curve(c)]
    BY <1>12 DEF ReadSamples
  <2>2. /\ loader'[k].pc = loader[k].pc
        /\ loader'[k].todo = loader[k].todo \ {c} /\ loader'[k].got = loader[k].got \cup Curve(c)
        /\ \A l \in Loaders \ {k} : loader'[l] = loader[l]
    BY <1>5, <2>1
  <2>3. /\ loader[k].pc = "read"
        /\ Settled => loader[k].got \cup UNION {Curve(d) : d \in loader[k].todo} = Teaches
    BY <1>7, <1>12 DEF ReadSamples, LoaderAt, Follows
  <2>4. UNION {Curve(d) : d \in loader[k].todo}
          = Curve(c) \cup UNION {Curve(d) : d \in loader[k].todo \ {c}}
    OBVIOUS
  <2>5. Settled =>
          loader'[k].got \cup UNION {Curve(d) : d \in loader'[k].todo} = Teaches
    BY <2>2, <2>3, <2>4
  <2>6. QED BY <1>9, <2>2, <2>3, <2>5 DEF LoaderAt
<1>13. CASE SwapModel(k)
  <2>1. /\ loader[k].pc = "read" /\ loader[k].todo = {} /\ histModel' = loader[k].got
        /\ loader' = [loader EXCEPT ![k] = IdleLoader]
    BY <1>13 DEF SwapModel, LoaderAt
  <2>2. \A l \in Loaders : loader'[l].pc = "idle"
    BY <1>5, <1>8, <2>1 DEF LoaderAt, IdleLoader
  <2>3. Settled => loader[k].got \cup UNION {Curve(d) : d \in loader[k].todo} = Teaches
    BY <1>7, <2>1 DEF LoaderAt, Follows
  <2>4. Settled' => histModel' = Teaches'
    BY <1>2, <1>3, <2>1, <2>3
  <2>5. QED BY <2>2, <2>4 DEF Follows, LoaderAt
<1>14. QED BY <1>10, <1>11, <1>12, <1>13 DEF Load

LEMMA FollowsStep ==
    ASSUME StoreInv, ListsClosed, Follows, [Next]_vars
    PROVE  Follows'
<1>1. ASSUME UNCHANGED <<loader, histModel, disturbed>>,
             UNCHANGED <<row, started, samples, seq, live, writer, endedWith>>
      PROVE  Follows'
  <2>1. Ended' = Ended /\ (Settled' => Settled) /\ \A d : SampleTimes(d)' = SampleTimes(d)
    BY <1>1, SamplesUnchanged DEF Ended, Settled
  <2>2. QED BY <1>1, <2>1, FollowsFrame
<1>2. CASE ~ (\E r \in Readers : Reading(r)) /\ ~ (\E h \in Handlers : Request(h))
           /\ ~ \E l \in Loaders : Load(l)
  <2>1. ASSUME NEW s \in Scrapers, Scrape(s) PROVE UNCHANGED <<loader, histModel, disturbed>>
    BY <2>1 DEF Scrape, Refresh, CountCooks, CountSamples, CountFails, loadVars
  <2>2. Tick \/ UNCHANGED vars => UNCHANGED <<loader, histModel, disturbed>>
    BY DEF Tick, vars, loadVars
  <2>3. QED BY <1>1, <1>2, <2>1, <2>2, WritersRest DEF Next
<1>3. QED BY <1>2, FollowsReading, FollowsRequest, FollowsLoad

\* Whatever the requests did to the finished cooks, once they are through and their
\* loads done the model is what the store teaches, unless loads met or failed, or a
\* sample came late.
THEOREM ModelFollows == Spec => []ModelFollowsStore
<1>1. Init => StoreInv /\ ListsClosed /\ Follows
  <2> SUFFICES ASSUME Init PROVE StoreInv /\ ListsClosed /\ Follows
    OBVIOUS
  <2>1. FinishedCooks = {} /\ histModel = {}
    BY DEF Init, StoreInit, FinishedCooks, Ended
  <2>2. histModel = Teaches
    BY <2>1 DEF Teaches
  <2>3. LoadersIdle
    BY DEF Init, LoadersIdle, LoaderAt, IdleLoader
  <2>4. Follows
    BY <2>2, <2>3 DEF Follows, LoadersIdle, LoaderAt
  <2>5. QED BY <2>4, StoreInvInit DEF Init, IdleLoader, ListsClosed
<1>2. StoreInv /\ ListsClosed /\ Follows /\ [Next]_vars => (StoreInv /\ ListsClosed /\ Follows)'
  BY StoreInvStep, ListsClosedStep, FollowsStep
<1>3. Follows => ModelFollowsStore
  BY DEF Follows, ModelFollowsStore, Settled, Teaches
<1>4. QED BY <1>1, <1>2, <1>3, PTL DEF Spec
=============================================================================
