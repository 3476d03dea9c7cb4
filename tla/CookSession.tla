----------------------------- MODULE CookSession -----------------------------
(***************************************************************************)
(* The life of a cook: the Monitor of internal/monitor/monitor.go, its     *)
(* callers and its store.                                                  *)
(*                                                                         *)
(* The goroutines are the HTTP handlers (Start, Stop, NewCook, DeleteCook),*)
(* the janitor, the goroutine that owns the link to the probe, the ones    *)
(* that deliver its readings, and main, which resumes an open cook after a *)
(* crash.  A step is a critical section of m.mu or one SQL statement run   *)
(* outside of it: what another goroutine can see, and nothing coarser.     *)
(* Broadcasts, the ETA model and the cook's labels are other modules'.     *)
(***************************************************************************)
EXTENDS CookStore, SequencesExt

CONSTANTS
    Handlers,         \* goroutines serving /api/session, /api/cook and /api/cooks
    Janitor,          \* the goroutine in RunJanitor
    Main,             \* the goroutine in main
    Readers,          \* goroutines that call Update
    Async,            \* TRUE: Update runs on BlueZ callbacks, beside the link's loop
    Requests,         \* which of "start", "stop", "new", "delete" clients send
    IdleTimeout,      \* -cook-idle
    ResumeStaleAfter, \* resumeStaleAfter
    HistoryLimit,     \* historyLimit
    StoreMayFail,     \* TRUE: a statement may return an error
    MaxTime,          \* bound on the clock
    MaxCrashes        \* bound on the crashes

ASSUME ThreadsDistinct ==
    Janitor # Main /\ Janitor \notin Handlers /\ Main \notin Handlers
ASSUME FlagsBoolean == Async \in BOOLEAN /\ StoreMayFail \in BOOLEAN
ASSUME BoundsNat ==
    /\ IdleTimeout \in Nat
    /\ ResumeStaleAfter \in Nat
    /\ HistoryLimit \in Nat \ {0}
    /\ MaxTime \in Nat
    /\ MaxCrashes \in Nat

VARIABLES
    running, connected, hasRead,  \* discovery and the probe's link
    cookID,                       \* the cook readings go to, 0 for none
    history,                      \* times of the retained samples
    lastSampleAt,                 \* 0 is the zero time
    thread,     \* thread[t]: where a handler, the janitor or main is, and its cook
    upd,        \* upd[r]: an Update in progress, the time it took, its cook
    link,       \* where runBridge / runBLE / runMock is in its loop
    stopClosed, \* the stop channel that loop holds is closed
    now, crashes,
    abandoned,  \* history variable: open rows whose EndCook a crash or error lost
    resumedAt   \* history variable: when Resume last took up a cook

monVars == <<running, connected, hasRead, cookID, history, lastSampleAt>>
linkVars == <<link, stopClosed>>
envVars == <<now, crashes, abandoned, resumedAt>>
vars == <<storeVars, monVars, thread, upd, linkVars, envVars>>

Threads == Handlers \cup {Janitor, Main}
NoCook == 0

ThreadPCs == {"idle", "end", "prune1", "prune2", "clear",
              "del1", "del2", "resume"}
Idle == [pc |-> "idle", cook |-> NoCook]
NoUpdate == [pc |-> "idle", at |-> 0, cook |-> NoCook]
At(t, pc) == thread[t].pc = pc

TypeOK ==
    /\ StoreTypeOK
    /\ running \in BOOLEAN /\ connected \in BOOLEAN /\ hasRead \in BOOLEAN
    /\ cookID \in CookIds \cup {NoCook}
    /\ history \in Seq(Times) /\ Len(history) <= HistoryLimit
    /\ lastSampleAt \in Nat
    /\ thread \in [Threads -> [pc : ThreadPCs, cook : CookIds \cup {NoCook}]]
    /\ upd \in [Readers -> {NoUpdate}
                   \cup [pc : {"lock"}, at : Times, cook : {NoCook}]
                   \cup [pc : {"append"}, at : Times, cook : CookIds]]
    /\ link \in {"parked", "woken", "dialing", "streaming", "closing"}
    /\ stopClosed \in BOOLEAN
    /\ now \in Times /\ crashes \in Nat
    /\ abandoned \subseteq CookIds
    /\ resumedAt \in Nat

\* monitor.New: discovery stopped, no cook.
MonInit ==
    /\ running = FALSE /\ connected = FALSE /\ hasRead = FALSE
    /\ cookID = NoCook /\ history = <<>> /\ lastSampleAt = 0

Init ==
    /\ StoreInit
    /\ MonInit
    /\ thread = [t \in Threads |-> Idle]
    /\ upd = [r \in Readers |-> NoUpdate]
    /\ link = "parked" /\ stopClosed = TRUE
    /\ now = 1 /\ crashes = 0 /\ abandoned = {} /\ resumedAt = 0

\* main serves requests and starts the link and the janitor once it has
\* resumed and pruned.
Up == At(Main, "idle")

Goto(t, pc) == thread' = [thread EXCEPT ![t].pc = pc]
GotoWith(t, pc, c) == thread' = [thread EXCEPT ![t] = [pc |-> pc, cook |-> c]]

\* (Bug: the cook taken over is never ended.)
EndTakenNever(h) == UNCHANGED thread

\* After its critical section a handler ends the cook it took, if there was one.
EndTaken(h) ==
    thread' = [thread EXCEPT ![h] =
        IF cookID = NoCook THEN Idle ELSE [pc |-> "end", cook |-> cookID]]

-----------------------------------------------------------------------------
(* Requests *)

\* No-op when discovery already runs.
Start(h) ==
    /\ "start" \in Requests /\ Up /\ At(h, "idle")
    /\ ~running
    /\ running' = TRUE
    /\ cookID' = NoCook
    /\ history' = <<>>
    /\ hasRead' = FALSE
    /\ lastSampleAt' = 0
    /\ EndTaken(h)
    /\ UNCHANGED <<storeVars, connected, upd, linkVars, envVars>>

\* No-op when discovery is stopped already.  Closing stopCh closes it for
\* whoever holds it; the chart keeps what it shows.
Stop(h) ==
    /\ "stop" \in Requests /\ Up /\ At(h, "idle")
    /\ running
    /\ running' = FALSE
    /\ stopClosed' = TRUE
    /\ connected' = FALSE
    /\ hasRead' = FALSE
    /\ cookID' = NoCook
    /\ EndTaken(h)
    /\ UNCHANGED <<storeVars, history, lastSampleAt, upd, link, envVars>>

NewCook(h) ==
    /\ "new" \in Requests /\ Up /\ At(h, "idle")
    /\ cookID' = NoCook
    /\ history' = <<>>
    /\ hasRead' = FALSE
    /\ lastSampleAt' = 0
    /\ EndTaken(h)
    /\ UNCHANGED <<storeVars, running, connected, upd, linkVars, envVars>>

\* (Bug: no ErrCookActive.)
DeleteCookUnchecked(h, c) ==
    /\ "delete" \in Requests /\ Up /\ At(h, "idle")
    /\ row[c] # "absent"
    /\ GotoWith(h, "del1", c)
    /\ UNCHANGED <<storeVars, monVars, upd, linkVars, envVars>>

\* The lookup of DeleteCook: an absent cook is no error, an open one is
\* ErrCookActive; either way the request is over and nothing has changed.
DeleteCook(h, c) ==
    /\ "delete" \in Requests /\ Up /\ At(h, "idle")
    /\ c \in Ended
    /\ GotoWith(h, "del1", c)
    /\ UNCHANGED <<storeVars, monVars, upd, linkVars, envVars>>

DeleteCookSamples(h) ==
    /\ At(h, "del1")
    /\ DeleteSamplesOf({thread[h].cook})
    /\ Goto(h, "del2")
    /\ UNCHANGED <<monVars, upd, linkVars, envVars>>

DeleteCookRow(h) ==
    /\ At(h, "del2")
    /\ DeleteRowsOf({thread[h].cook})
    /\ GotoWith(h, "idle", NoCook)
    /\ UNCHANGED <<monVars, upd, linkVars, envVars>>

-----------------------------------------------------------------------------
(* The janitor *)

\* A tick: read the cook and its last sample under the lock.  What was read may
\* be out of date when EndCook runs.
JanitorLook ==
    /\ Up /\ At(Janitor, "idle")
    /\ cookID # NoCook /\ lastSampleAt # 0
    /\ now - lastSampleAt > IdleTimeout
    /\ GotoWith(Janitor, "end", cookID)
    /\ UNCHANGED <<storeVars, monVars, upd, linkVars, envVars>>

\* (Bug: the cook stays with the monitor.)
JanitorClearNever ==
    /\ At(Janitor, "clear")
    /\ GotoWith(Janitor, "idle", NoCook)
    /\ UNCHANGED <<storeVars, monVars, upd, linkVars, envVars>>

JanitorClear ==
    /\ At(Janitor, "clear")
    /\ cookID' = IF cookID = thread[Janitor].cook THEN NoCook ELSE cookID
    /\ GotoWith(Janitor, "idle", NoCook)
    /\ UNCHANGED <<storeVars, running, connected, hasRead, history, lastSampleAt,
                   upd, linkVars, envVars>>

-----------------------------------------------------------------------------
(* Statements several goroutines share: EndCook, then the two of Prune *)

EndCookStmt(t) ==
    /\ At(t, "end")
    /\ EndCook(thread[t].cook)
    /\ Goto(t, "prune1")
    /\ UNCHANGED <<monVars, upd, linkVars, envVars>>

PruneSamples(t) ==
    /\ At(t, "prune1")
    /\ DeleteSamplesOf(Prunable)
    /\ Goto(t, "prune2")
    /\ UNCHANGED <<monVars, upd, linkVars, envVars>>

AfterPrune(t) ==
    IF t = Janitor THEN Goto(t, "clear") ELSE GotoWith(t, "idle", NoCook)

PruneRows(t) ==
    /\ At(t, "prune2")
    /\ DeleteRowsOf(Prunable)
    /\ AfterPrune(t)
    /\ UNCHANGED <<monVars, upd, linkVars, envVars>>

\* A failed EndCook or Prune is logged and the caller goes on; a failed
\* statement of DeleteCook ends the request.
StatementFails(t) ==
    /\ StoreMayFail
    /\ \/ /\ At(t, "end") /\ Goto(t, "prune1")
          /\ abandoned' = abandoned \cup ({thread[t].cook} \cap Open)
       \/ /\ thread[t].pc \in {"prune1", "prune2"} /\ AfterPrune(t)
          /\ UNCHANGED abandoned
       \/ /\ thread[t].pc \in {"del1", "del2"} /\ GotoWith(t, "idle", NoCook)
          /\ UNCHANGED abandoned
    /\ UNCHANGED <<storeVars, monVars, upd, linkVars, now, crashes, resumedAt>>

-----------------------------------------------------------------------------
(* Readings *)

\* Bound: no reading arrives that could need a cook beyond MaxCooks.
RoomForCook == seq + Cardinality({r \in Readers : upd[r].pc = "lock"}) < MaxCooks

\* Update takes the time first and the lock after.
UpdateBegin(r) ==
    /\ link = "streaming" \/ (Async /\ link = "closing")
    /\ upd[r].pc = "idle" /\ RoomForCook
    /\ upd' = [upd EXCEPT ![r] = [pc |-> "lock", at |-> now, cook |-> NoCook]]
    /\ UNCHANGED <<storeVars, monVars, thread, linkVars, envVars>>

\* (Bug: the history grows without bound.)
RetainAll(h) == h

\* The newest historyLimit samples.
Retain(h) ==
    LET excess == Len(h) - HistoryLimit
    IN  IF excess > 0 THEN SubSeq(h, excess + 1, Len(h)) ELSE h

\* Retain the reading and leave it to InsertSample, unless no cook could be
\* opened.
Record(r, chart, c) ==
    /\ history' = Retain(Append(chart, upd[r].at))
    /\ hasRead' = TRUE
    /\ connected' = TRUE
    /\ lastSampleAt' = upd[r].at
    /\ cookID' = c
    /\ upd' = [upd EXCEPT ![r] =
                 IF c = NoCook THEN NoUpdate
                 ELSE [pc |-> "append", at |-> @.at, cook |-> c]]
    /\ UNCHANGED <<running, thread, linkVars, envVars>>

UpdateLive(r) ==
    /\ upd[r].pc = "lock" /\ cookID # NoCook
    /\ Record(r, history, cookID)
    /\ UNCHANGED storeVars

\* (Bugs: the row is inserted on a look at cookID taken before the lock; the
\* fresh cook goes on with the chart of the one before.)
UpdateOpensUnserialised(r) ==
    /\ upd[r].pc = "lock"
    /\ \E c \in CookIds : InsertCook(c, upd[r].at) /\ Record(r, <<>>, c)
UpdateOpensOldChart(r) ==
    /\ upd[r].pc = "lock" /\ cookID = NoCook
    /\ \E c \in CookIds : InsertCook(c, upd[r].at) /\ Record(r, history, c)

\* With no cook open, the row is inserted while m.mu is held.
UpdateOpens(r) ==
    /\ upd[r].pc = "lock" /\ cookID = NoCook
    /\ \E c \in CookIds :
          /\ InsertCook(c, upd[r].at)
          /\ Record(r, <<>>, c)

UpdateOpenFails(r) ==
    /\ StoreMayFail
    /\ upd[r].pc = "lock" /\ cookID = NoCook
    /\ Record(r, history, NoCook)
    /\ UNCHANGED storeVars

\* AppendSample, after the lock is gone.
UpdateAppends(r) ==
    /\ upd[r].pc = "append"
    /\ \/ InsertSample(upd[r].cook, upd[r].at)
       \/ StoreMayFail /\ UNCHANGED storeVars
    /\ upd' = [upd EXCEPT ![r] = NoUpdate]
    /\ UNCHANGED <<monVars, thread, linkVars, envVars>>

-----------------------------------------------------------------------------
(* The loop that owns the link: runBridge, runMock, and runBLE when Async *)

Quiet == Async \/ \A r \in Readers : upd[r].pc = "idle"

LinkStep(from, to) ==
    /\ Up /\ link = from /\ link' = to
    /\ UNCHANGED <<storeVars, running, cookID, history, lastSampleAt, thread, upd, envVars>>

\* WaitForStart returns; StopChan, a later critical section, picks the channel.
Wake == running /\ LinkStep("parked", "woken")
            /\ UNCHANGED <<stopClosed, connected, hasRead>>
TakeStopChan == stopClosed' = ~running /\ LinkStep("woken", "dialing")
            /\ UNCHANGED <<connected, hasRead>>

\* dialBridge / findAndConnect give up only on a closed stop channel.
DialStopped == stopClosed /\ LinkStep("dialing", "parked")
            /\ UNCHANGED <<stopClosed, connected, hasRead>>

\* A dial under way succeeds whatever Stop does.  runBLE reports the probe
\* connected at once, the bridge leaves it to the status lines.
Dialed ==
    /\ LinkStep("dialing", "streaming")
    /\ connected' = (connected \/ Async)
    /\ UNCHANGED <<stopClosed, hasRead>>

\* A status line: SetConnected.
StatusLine(up) ==
    /\ ~Async /\ Quiet
    /\ LinkStep("streaming", "streaming")
    /\ connected' = up
    /\ hasRead' = (hasRead /\ up)
    /\ UNCHANGED stopClosed

\* The stream is over: stopped, stale or broken.
StreamEnds == Quiet /\ LinkStep("streaming", "closing")
            /\ UNCHANGED <<stopClosed, connected, hasRead>>
\* (Bug: the end of a stream leaves the probe connected.)
LinkClosesSilently ==
    /\ LinkStep("closing", "parked")
    /\ UNCHANGED <<stopClosed, connected, hasRead>>
LinkCloses ==
    /\ LinkStep("closing", "parked")
    /\ connected' = FALSE
    /\ hasRead' = FALSE
    /\ UNCHANGED stopClosed

-----------------------------------------------------------------------------
(* Crash and restart *)

Crash ==
    /\ crashes < MaxCrashes
    /\ crashes' = crashes + 1
    /\ running' = FALSE /\ connected' = FALSE /\ hasRead' = FALSE
    /\ cookID' = NoCook /\ history' = <<>> /\ lastSampleAt' = 0
    /\ thread' = [t \in Threads |-> IF t = Main THEN [Idle EXCEPT !.pc = "resume"]
                                    ELSE Idle]
    /\ upd' = [r \in Readers |-> NoUpdate]
    /\ link' = "parked" /\ stopClosed' = TRUE
    /\ abandoned' = abandoned \cup Open
    /\ resumedAt' = 0
    /\ UNCHANGED <<storeVars, now>>

Stale(c) ==
    /\ SampleTimes(c) # {}
    /\ \A at \in SampleTimes(c) : now - at > ResumeStaleAfter

\* (Bug: no ORDER BY.)
Unordered(S) == SetToSeqs(S)

\* The samples of a cook, oldest first.
Oldest1st(S) == {h \in SetToSeqs(S) : \A i, j \in DOMAIN h : i < j => h[i] < h[j]}

ResumeNothing ==
    /\ At(Main, "resume")
    /\ Open = {} \/ StoreMayFail   \* no row, or the query failed
    /\ Goto(Main, "prune1")
    /\ UNCHANGED <<storeVars, monVars, upd, linkVars, envVars>>

\* Too old: end it, and let the next reading open a fresh cook.
ResumeStale ==
    /\ At(Main, "resume")
    /\ \E c \in CurrentOpenCook :
          /\ Stale(c)
          /\ GotoWith(Main, "end", c)
    /\ running' = TRUE
    /\ UNCHANGED <<storeVars, connected, hasRead, cookID, history, lastSampleAt,
                   upd, linkVars, envVars>>

ResumeCook ==
    /\ At(Main, "resume")
    /\ \E c \in CurrentOpenCook :
          /\ ~Stale(c)
          /\ cookID' = c
          /\ \E h \in Oldest1st(SampleTimes(c)) : history' = Retain(h)
          /\ abandoned' = abandoned \ {c}
    /\ lastSampleAt' = IF history' = <<>> THEN 0 ELSE Last(history')
    /\ running' = TRUE
    /\ resumedAt' = now
    /\ Goto(Main, "prune1")
    /\ UNCHANGED <<storeVars, connected, hasRead, upd, linkVars, now, crashes>>

\* The samples could not be read: discovery is on, the cook is left open.
ResumeUnread ==
    /\ StoreMayFail
    /\ At(Main, "resume")
    /\ \E c \in Open : ~Stale(c)
    /\ running' = TRUE
    /\ Goto(Main, "prune1")
    /\ UNCHANGED <<storeVars, connected, hasRead, cookID, history, lastSampleAt,
                   upd, linkVars, envVars>>

Tick ==
    /\ now < MaxTime
    /\ now' = now + 1
    /\ UNCHANGED <<storeVars, monVars, thread, upd, linkVars, crashes, abandoned,
                   resumedAt>>

-----------------------------------------------------------------------------
Handler(h) ==
    \/ Start(h)
    \/ Stop(h)
    \/ NewCook(h)
    \/ \E c \in CookIds : DeleteCook(h, c)

Statement(t) ==
    \/ EndCookStmt(t)
    \/ PruneSamples(t)
    \/ PruneRows(t)
    \/ StatementFails(t)
    \/ DeleteCookSamples(t)
    \/ DeleteCookRow(t)

Update(r) ==
    \/ UpdateLive(r)
    \/ UpdateOpens(r)
    \/ UpdateOpenFails(r)
    \/ UpdateAppends(r)

Link ==
    \/ Wake
    \/ TakeStopChan
    \/ DialStopped
    \/ Dialed
    \/ \E up \in BOOLEAN : StatusLine(up)
    \/ StreamEnds
    \/ LinkCloses

Startup ==
    \/ ResumeNothing
    \/ ResumeStale
    \/ ResumeCook
    \/ ResumeUnread

Next ==
    \/ \E h \in Handlers : Handler(h)
    \/ JanitorLook
    \/ JanitorClear
    \/ \E t \in Threads : Statement(t)
    \/ \E r \in Readers : UpdateBegin(r) \/ Update(r)
    \/ Link
    \/ Crash
    \/ Startup
    \/ Tick

Spec == Init /\ [][Next]_vars

-----------------------------------------------------------------------------
(* Safety *)

\* A cook never leaks: a row that is open is the monitor's cook, or a goroutine
\* is on its way to end it, or a crash or a failed statement lost that EndCook.
\* (Update, Start, Stop, NewCook, RunJanitor: the hand-over of oldID.)
OpenRowIsOwned ==
    \A c \in Open :
        \/ c = cookID
        \/ c \in abandoned
        \/ \E t \in Threads : At(t, "end") /\ thread[t].cook = c

\* The monitor's cook is an open row, except between the janitor's EndCook and
\* the critical section in which it clears cookID.
JanitorWindow ==
    /\ thread[Janitor].pc \in {"prune1", "prune2", "clear"}
    /\ thread[Janitor].cook = cookID

CurrentCookIsOpen == cookID # NoCook => cookID \in Open \/ JanitorWindow

\* The inductive invariant behind both.  Ids are handed out once; while main
\* resumes, nobody else runs; a cook on its way to its end is no longer the
\* monitor's, unless it is the janitor that ends it; a cook is deleted only
\* once it has ended; and what the janitor clears it has ended first.
IdsInUse ==
    /\ \A c \in CookIds : c > seq => row[c] = "absent"
    /\ cookID <= seq
    /\ \A t \in Threads : thread[t].cook <= seq
    /\ \A r \in Readers : upd[r].cook <= seq

BootAlone ==
    /\ ~Up => /\ \A t \in Threads \ {Main} : At(t, "idle")
              /\ \A r \in Readers : upd[r].pc = "idle"
              /\ link = "parked"
    /\ At(Main, "resume") => cookID = NoCook

HandedOver ==
    /\ \A t \in Threads : At(t, "end") => thread[t].cook \in CookIds
    /\ \A t \in Threads \ {Janitor} : At(t, "end") => thread[t].cook # cookID
    /\ \A t \in Threads :
          thread[t].pc \in {"del1", "del2"} => thread[t].cook \in CookIds \ Open
    /\ thread[Janitor].pc \in {"prune1", "prune2", "clear"} =>
          thread[Janitor].cook \notin Open \ abandoned

CookInv ==
    /\ IdsInUse
    /\ BootAlone
    /\ HandedOver
    /\ OpenRowIsOwned
    /\ CurrentCookIsOpen

\* What a restart would chart is what the chart shows: every retained reading
\* of an open cook is in the store or in an Update that is about to put it there.
ChartIsPersisted ==
    cookID \in Open =>
        \A i \in DOMAIN history :
            \/ [cook |-> cookID, at |-> history[i]] \in samples
            \/ \E r \in Readers : upd[r] = [pc |-> "append", at |-> history[i],
                                            cook |-> cookID]

\* "History returns the retained samples (oldest first)", monitor.go:576, and
\* lastSampleAt, which the janitor trusts, is the newest of them.
HistoryOldestFirst ==
    /\ \A i, j \in DOMAIN history : i < j => history[i] <= history[j]
    /\ history # <<>> => lastSampleAt = history[Len(history)]

\* No step of DeleteCook, Prune or a restart takes a sample from a cook that has
\* no end time.
OpenCookKeepsSamples ==
    [][\A s \in samples : s.cook \in Open => s \in samples']_vars

\* The session implements the abstract log of cooks.
Log == INSTANCE CookLog WITH live <- cookID
ImplementsLog == Log!Spec

-----------------------------------------------------------------------------
(* Liveness.  Goroutines that are not blocked run and statements return.      *)
(* The end of the stream after a Stop is strongly fair: the stop channel has  *)
(* the socket closed, so only the readings already buffered can still hold it *)
(* up, and they are finitely many.  Requests, readings and the clock owe      *)
(* nothing.                                                                   *)
Fairness ==
    /\ \A t \in Threads : WF_vars(Statement(t))
    /\ \A r \in Readers : WF_vars(Update(r))
    /\ WF_vars(JanitorClear)
    /\ WF_vars(Startup)
    /\ SF_vars(stopClosed /\ StreamEnds)
    /\ WF_vars(DialStopped)
    /\ WF_vars(LinkCloses)

FairSpec == Spec /\ Fairness

\* A cook that takes no more readings gets its end time.
RetiredCookEnds ==
    \A c \in CookIds :
        (c \in Open /\ c # cookID /\ c \notin abandoned) ~> (c \notin Open)

\* Stop disconnects in the end, also when a reading or a status line was late.
StopDisconnects == ~running ~> (running \/ ~connected)

-----------------------------------------------------------------------------
(* What comments of the code say and the code does not do *)

\* "Stop halts probe discovery, disconnects, and ends the current cook",
\* monitor.go:211: no cook is open for readings while discovery is stopped.
IdleHasNoCook == ~running => cookID = NoCook

\* The janitor's EndCook gives c its end time.
JanitorEnds(c) ==
    /\ At(Janitor, "end") /\ thread[Janitor].cook = c
    /\ c \in Open /\ c \notin Open'
    /\ At(Janitor, "prune1")'

\* A cook silent for less than resumeStaleAfter is resumed, "we must not split a
\* long smoke" (main.go:105-109): the silence before the restart is not held
\* against it.
JanitorSparesResumedCook ==
    [][cookID # NoCook /\ resumedAt # 0 /\ JanitorEnds(cookID) =>
         now - resumedAt > IdleTimeout]_vars

=============================================================================
