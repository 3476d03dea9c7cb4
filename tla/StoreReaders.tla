----------------------------- MODULE StoreReaders -----------------------------
(***************************************************************************)
(* The readers of the store beside the session that writes it: LoadHistory *)
(* (monitor/history.go), which learns from the finished cooks, and the     *)
(* scrapes of dbStats (metrics/metrics.go), which count what there is.     *)
(* Each reads with several statements, and the writers' statements come    *)
(* in between.                                                             *)
(*                                                                         *)
(* The writers are the goroutines of Update and of the requests, with      *)
(* their statements in the order of CookSession, and none failing (the     *)
(* janitor and the failures are CookSession's); the readers' statements    *)
(* may fail.  A sample's time is its place among those of its cook.        *)
(***************************************************************************)
EXTENDS CookStore, FiniteSetsExt, TLC

CONSTANTS
    Readers,                    \* goroutines that call Update
    Handlers,                   \* goroutines of the requests
    Loaders, Scrapers,          \* goroutines that read
    HistoryModelCooks,          \* historyModelCooks
    MinPoints,                  \* how many samples teach something
    MaxSamples,                 \* bound on the samples of a cook
    StatsTTL                    \* storeStatsTTL

ASSUME ReadersBounds ==
    /\ IsFiniteSet(Readers)
    /\ HistoryModelCooks \in Nat /\ MinPoints \in Nat \ {0}
    /\ MaxSamples \in Nat \ {0} /\ StatsTTL \in Nat \ {0}

VARIABLES
    live,        \* the Monitor's cook
    writer,      \* writer[w]: where it is, and with which cook
    loader,      \* loader[l]: the cooks it has still to read, what it has read
    histModel,   \* what the ETA is estimated from: [cook, pts]
    disturbed,   \* history variable: since the model was last right, loads have
                 \* overlapped or failed, or a sample came after its cook's end
    endedWith,   \* history variable: the samples a cook ended with
    scraper,     \* scraper[s]: where it is in dbStats
    cached, age  \* there are cached counts; how old they are, up to StatsTTL

writeVars == <<storeVars, live, writer>>
loadVars == <<loader, histModel, disturbed, endedWith>>
scrapeVars == <<scraper, cached, age>>
vars == <<writeVars, loadVars, scrapeVars>>

Writers == Readers \cup Handlers
NoCook == 0
Idle == [pc |-> "idle", cook |-> NoCook]
IdleLoader == [pc |-> "idle", todo |-> {}, got |-> {}]
Curves == [cook : CookIds, pts : SUBSET (1 .. MaxSamples)]

TypeOK ==
    /\ StoreTypeOK
    /\ live \in CookIds \cup {NoCook}
    /\ writer \in [Writers -> [pc : {"append", "end", "del1", "del2"}, cook : CookIds]
                        \cup [pc : {"idle", "prune1", "prune2", "load"}, cook : {NoCook}]]
    /\ loader \in [Loaders -> [pc : {"idle", "list", "read"}, todo : SUBSET CookIds,
                               got : SUBSET Curves]]
    /\ histModel \subseteq Curves
    /\ disturbed \in BOOLEAN
    /\ endedWith \in [CookIds -> SUBSET (1 .. MaxSamples)]
    /\ scraper \in [Scrapers -> {"idle", "cooks", "samples"}]
    /\ cached \in BOOLEAN /\ age \in 0 .. StatsTTL

Init ==
    /\ StoreInit
    /\ live = NoCook /\ writer = [w \in Writers |-> Idle]
    /\ loader = [l \in Loaders |-> IdleLoader]
    /\ histModel = {} /\ disturbed = FALSE /\ endedWith = [c \in CookIds |-> {}]
    /\ scraper = [s \in Scrapers |-> "idle"]
    /\ cached = FALSE /\ age = 0

-----------------------------------------------------------------------------
(* Writers *)

WriterAt(w, pc) == writer[w].pc = pc
WriterGoes(w, pc, c) == writer' = [writer EXCEPT ![w] = [pc |-> pc, cook |-> c]]

\* Update opens a cook and is about to store its reading.
Open1(w) ==
    /\ WriterAt(w, "idle") /\ live = NoCook
    /\ \E c \in CookIds : InsertCook(c, c) /\ live' = c /\ WriterGoes(w, "append", c)
    /\ UNCHANGED <<loadVars, scrapeVars>>

\* (Bug: a reading is stored whether or not there is a cook.)
UpdateAnyway(w) ==
    /\ WriterAt(w, "idle")
    /\ WriterGoes(w, "append", live)
    /\ UNCHANGED <<storeVars, live, loadVars, scrapeVars>>

\* The bound counts the samples on their way.
Update(w) ==
    /\ WriterAt(w, "idle") /\ live # NoCook
    /\ Cardinality(SampleTimes(live)) + Cardinality({r \in Readers : WriterAt(r, "append")})
         < MaxSamples
    /\ WriterGoes(w, "append", live)
    /\ UNCHANGED <<storeVars, live, loadVars, scrapeVars>>

Append1(w) ==
    /\ WriterAt(w, "append") /\ WriterGoes(w, "idle", NoCook)
    /\ LET c == writer[w].cook
           n == Cardinality(SampleTimes(c) \cup endedWith[c]) + 1
       IN  /\ InsertSample(c, n)
           /\ disturbed' = (disturbed \/ row[c] # "open")
    /\ UNCHANGED <<live, loader, histModel, endedWith, scrapeVars>>

\* Start, Stop or NewCook takes the cook from the Monitor.
Retire(w) ==
    /\ WriterAt(w, "idle") /\ live # NoCook
    /\ WriterGoes(w, "end", live) /\ live' = NoCook
    /\ UNCHANGED <<storeVars, loadVars, scrapeVars>>

EndRetired(w) ==
    /\ WriterAt(w, "end") /\ EndCook(writer[w].cook) /\ WriterGoes(w, "prune1", NoCook)
    /\ endedWith' = [endedWith EXCEPT ![writer[w].cook] = SampleTimes(writer[w].cook)]
    /\ UNCHANGED <<live, loader, histModel, disturbed, scrapeVars>>

Prune1(w) ==
    /\ WriterAt(w, "prune1") /\ DeleteSamplesOf(Prunable) /\ WriterGoes(w, "prune2", NoCook)
    /\ UNCHANGED <<live, loadVars, scrapeVars>>

Prune2(w) ==
    /\ WriterAt(w, "prune2") /\ DeleteRowsOf(Prunable) /\ WriterGoes(w, "load", NoCook)
    /\ UNCHANGED <<live, loadVars, scrapeVars>>

\* DeleteCook: a cook that is gone already is no error.
Delete(w) ==
    /\ WriterAt(w, "idle")
    /\ \E c \in 1 .. seq :
          \/ row[c] = "ended" /\ WriterGoes(w, "del1", c)
          \/ row[c] = "absent" /\ WriterGoes(w, "load", NoCook)
    /\ UNCHANGED <<storeVars, live, loadVars, scrapeVars>>

Delete1(w) ==
    /\ WriterAt(w, "del1") /\ DeleteSamplesOf({writer[w].cook})
    /\ WriterGoes(w, "del2", writer[w].cook)
    /\ UNCHANGED <<live, loadVars, scrapeVars>>

\* (Bug: DeleteCook does not reload the model.)
Delete2NoReload(w) ==
    /\ WriterAt(w, "del2") /\ DeleteRowsOf({writer[w].cook}) /\ WriterGoes(w, "idle", NoCook)
    /\ UNCHANGED <<live, loadVars, scrapeVars>>

Delete2(w) ==
    /\ WriterAt(w, "del2") /\ DeleteRowsOf({writer[w].cook}) /\ WriterGoes(w, "load", NoCook)
    /\ UNCHANGED <<live, loadVars, scrapeVars>>

-----------------------------------------------------------------------------
(* LoadHistory *)

LoaderAt(l, pc) == loader[l].pc = pc
LoadersIdle == \A l \in Loaders : LoaderAt(l, "idle")

\* go m.LoadHistory()
SpawnLoad(w, l) ==
    /\ WriterAt(w, "load") /\ WriterGoes(w, "idle", NoCook)
    /\ LoaderAt(l, "idle") /\ loader' = [loader EXCEPT ![l].pc = "list"]
    /\ disturbed' = ~LoadersIdle
    /\ UNCHANGED <<storeVars, live, histModel, endedWith, scrapeVars>>

\* The newest finished cooks.
FinishedCooks == {c \in Ended : Cardinality({d \in Ended : Newer(d, c)}) < HistoryModelCooks}

\* (Bug: the cook that is not finished is listed too.)
ListCooksOfAnyKind(l) ==
    /\ LoaderAt(l, "list")
    /\ loader' = [loader EXCEPT ![l] = [pc |-> "read", todo |-> FinishedCooks \cup Open,
                                        got |-> {}]]
    /\ UNCHANGED <<writeVars, histModel, disturbed, endedWith, scrapeVars>>

ListCooks(l) ==
    /\ LoaderAt(l, "list")
    /\ loader' = [loader EXCEPT ![l] = [pc |-> "read", todo |-> FinishedCooks, got |-> {}]]
    /\ UNCHANGED <<writeVars, histModel, disturbed, endedWith, scrapeVars>>

ListFails(l) ==
    /\ LoaderAt(l, "list") /\ loader' = [loader EXCEPT ![l] = IdleLoader]
    /\ disturbed' = TRUE
    /\ UNCHANGED <<writeVars, histModel, endedWith, scrapeVars>>

\* What a cook's samples teach, if they do.
Curve(c) ==
    IF Cardinality(SampleTimes(c)) < MinPoints THEN {}
    ELSE {[cook |-> c, pts |-> SampleTimes(c)]}

\* The newest cook first; a cook whose samples cannot be read is passed over.
ReadSamples(l) ==
    /\ LoaderAt(l, "read")
    /\ \E c \in loader[l].todo :
          /\ \A d \in loader[l].todo : ~Newer(d, c)
          /\ \/ /\ loader' = [loader EXCEPT ![l].todo = @ \ {c}, ![l].got = @ \cup Curve(c)]
                /\ UNCHANGED disturbed
             \/ /\ loader' = [loader EXCEPT ![l].todo = @ \ {c}]
                /\ disturbed' = TRUE
    /\ UNCHANGED <<writeVars, histModel, endedWith, scrapeVars>>

\* The model is swapped under the lock.
SwapModel(l) ==
    /\ LoaderAt(l, "read") /\ loader[l].todo = {}
    /\ histModel' = loader[l].got
    /\ loader' = [loader EXCEPT ![l] = IdleLoader]
    /\ UNCHANGED <<writeVars, disturbed, endedWith, scrapeVars>>

-----------------------------------------------------------------------------
(* Scrapes *)

ScraperGoes(s, from, to) == scraper[s] = from /\ scraper' = [scraper EXCEPT ![s] = to]

\* The mutex of dbStats, which a scrape that finds the cached counts good enough
\* takes and gives back at once.
Unlocked == \A s \in Scrapers : scraper[s] = "idle"
Stale == ~cached \/ age = StatsTTL

\* (Bug: the mutex is not held over the queries.)
RefreshUnlocked(s) ==
    /\ Stale /\ ScraperGoes(s, "idle", "cooks")
    /\ UNCHANGED <<writeVars, loadVars, cached, age>>

\* No counts, or stale ones: count the cooks, then the samples, with the mutex held.
Refresh(s) ==
    /\ Unlocked /\ Stale /\ ScraperGoes(s, "idle", "cooks")
    /\ UNCHANGED <<writeVars, loadVars, cached, age>>

CountCooks(s) ==
    /\ ScraperGoes(s, "cooks", "samples")
    /\ UNCHANGED <<writeVars, loadVars, cached, age>>

CountSamples(s) ==
    /\ ScraperGoes(s, "samples", "idle") /\ cached' = TRUE /\ age' = 0
    /\ UNCHANGED <<writeVars, loadVars>>

\* The old counts stay cached, as old as they are.
CountFails(s) ==
    /\ \E pc \in {"cooks", "samples"} : ScraperGoes(s, pc, "idle")
    /\ UNCHANGED <<writeVars, loadVars, cached, age>>

Tick ==
    /\ cached /\ age < StatsTTL /\ age' = age + 1
    /\ UNCHANGED <<writeVars, loadVars, scraper, cached>>

-----------------------------------------------------------------------------
Reading(r) == Open1(r) \/ Update(r) \/ Append1(r)

Request(h) ==
    \/ Retire(h) \/ EndRetired(h) \/ Prune1(h) \/ Prune2(h)
    \/ Delete(h) \/ Delete1(h) \/ Delete2(h)
    \/ \E l \in Loaders : SpawnLoad(h, l)

Load(l) == ListCooks(l) \/ ListFails(l) \/ ReadSamples(l) \/ SwapModel(l)

Scrape(s) == Refresh(s) \/ CountCooks(s) \/ CountSamples(s) \/ CountFails(s)

Next ==
    \/ \E r \in Readers : Reading(r)
    \/ \E h \in Handlers : Request(h)
    \/ \E l \in Loaders : Load(l)
    \/ \E s \in Scrapers : Scrape(s)
    \/ Tick

Spec == Init /\ [][Next]_vars

-----------------------------------------------------------------------------
(* Properties *)

\* A cook is learned from with every sample it ended with: no load that runs into
\* a prune or a delete of the cook, or lists one that is still being cooked, keeps
\* a part of its curve (LoadHistory takes no lock and runs a query per cook), as long
\* as the readings under way when a cook ends are too few to teach anything.
CurvesAreWhole == \A e \in histModel : endedWith[e.cook] # {} /\ endedWith[e.cook] \subseteq e.pts

\* Once every request is through and its load done, the model is what the store
\* teaches: each change of the finished cooks is followed by a load that sees it.
\* Loads that overlap, fail, or come before a late sample are excepted.
ModelFollowsStore ==
    (\A w \in Writers : writer[w].pc \in {"idle", "append"}) /\ LoadersIdle /\ ~disturbed
        => histModel = UNION {Curve(c) : c \in FinishedCooks}

\* Scrapes that meet share one scan of the tables, which would hold up the writer
\* (store.go:314-317): counts that are good enough are not replaced.
ScansAreRationed ==
    [][(\E s \in Scrapers : CountSamples(s)) => Stale]_vars

Symmetry ==
    Permutations(Readers) \cup Permutations(Handlers)
        \cup Permutations(Loaders) \cup Permutations(Scrapers)

=============================================================================
