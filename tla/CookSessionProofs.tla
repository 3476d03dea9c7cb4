-------------------------- MODULE CookSessionProofs --------------------------
(***************************************************************************)
(* Theorems about CookSession, for every number of handlers, readers,      *)
(* cooks and crashes, every timeout and limit, with and without failing    *)
(* statements, and for both kinds of link.                                 *)
(***************************************************************************)
EXTENDS CookSession, FiniteSetTheorems, SequenceTheorems, TLAPS

USE MaxCooksNat, KeepEndedNat, BoundsNat

(***************************************************************************)
(* Helpers                                                                 *)
(***************************************************************************)

\* Retaining keeps a sequence of times one, and within historyLimit.
LEMMA RetainType ==
    ASSUME NEW h \in Seq(Times)
    PROVE  Retain(h) \in Seq(Times) /\ Len(Retain(h)) <= HistoryLimit
<1> DEFINE excess == Len(h) - HistoryLimit
<1>1. CASE excess > 0
  <2>1. \A i \in excess + 1 .. Len(h) : h[i] \in Times
    BY <1>1
  <2>2. /\ SubSeq(h, excess + 1, Len(h)) \in Seq(Times)
        /\ Len(SubSeq(h, excess + 1, Len(h))) = Len(h) - excess
    BY <1>1, <2>1, SubSeqProperties
  <2>3. QED BY <1>1, <2>2 DEF Retain
<1>2. CASE ~(excess > 0)
  BY <1>2 DEF Retain
<1>3. QED BY <1>1, <1>2

\* An empty chart is within any limit.
LEMMA EmptyChartType == <<>> \in Seq(Times) /\ Len(<<>>) <= HistoryLimit
  OBVIOUS

\* A finite samples table gives each cook finitely many sample times.
LEMMA SampleTimesFinite ==
    ASSUME StoreTypeOK, NEW c
    PROVE  IsFiniteSet(SampleTimes(c)) /\ SampleTimes(c) \subseteq Times
<1> DEFINE T == {t \in samples : t.cook = c}
           f == [s \in T |-> s.at]
<1>1. IsFiniteSet(T)
  BY FS_Subset DEF StoreTypeOK
<1>2. SampleTimes(c) \subseteq Times
  BY DEF StoreTypeOK, SampleTimes
<1>3. f \in Surjection(T, SampleTimes(c))
  BY DEF Surjection, SampleTimes
<1>4. QED BY <1>1, <1>2, <1>3, FS_Surjection

\* The charted samples of a cook form a sequence of times.
LEMMA Oldest1stType ==
    ASSUME StoreTypeOK, NEW c, NEW h \in Oldest1st(SampleTimes(c))
    PROVE  h \in Seq(Times)
<1>1. IsFiniteSet(SampleTimes(c)) /\ SampleTimes(c) \subseteq Times
  BY SampleTimesFinite
<1>2. Cardinality(SampleTimes(c)) \in Nat
  BY <1>1, FS_CardinalityType
<1>3. h \in [1..Cardinality(SampleTimes(c)) -> SampleTimes(c)]
  BY DEF Oldest1st, SetToSeqs
<1>4. QED BY <1>1, <1>2, <1>3

(***************************************************************************)
(* Type correctness                                                        *)
(***************************************************************************)

LEMMA InsertSampleType ==
    ASSUME StoreTypeOK, NEW c \in CookIds, NEW at \in Times, InsertSample(c, at)
    PROVE  StoreTypeOK'
<1> DEFINE smp == [cook |-> c, at |-> at]
<1>1. IsFiniteSet(samples \cup {smp})
  BY FS_AddElement DEF StoreTypeOK
<1>2. samples \cup {smp} \subseteq [cook : CookIds, at : Times]
  BY DEF StoreTypeOK
<1>3. QED BY <1>1, <1>2 DEF StoreTypeOK, InsertSample

LEMMA DeleteSamplesType ==
    ASSUME StoreTypeOK, NEW C, DeleteSamplesOf(C)
    PROVE  StoreTypeOK'
<1>1. samples' \in SUBSET samples
  BY DEF DeleteSamplesOf
<1>2. QED BY <1>1, FS_Subset DEF StoreTypeOK, DeleteSamplesOf

LEMMA DeleteRowsType ==
    ASSUME StoreTypeOK, NEW C, DeleteRowsOf(C)
    PROVE  StoreTypeOK'
  BY DEF StoreTypeOK, DeleteRowsOf

LEMMA EndCookType ==
    ASSUME StoreTypeOK, NEW c, EndCook(c)
    PROVE  StoreTypeOK'
  BY DEF StoreTypeOK, EndCook

LEMMA InsertCookType ==
    ASSUME StoreTypeOK, NEW c \in CookIds, NEW at \in Times, InsertCook(c, at)
    PROVE  StoreTypeOK'
  BY DEF StoreTypeOK, InsertCook, CookIds, Times

LEMMA StoreUnchangedType ==
    ASSUME StoreTypeOK, UNCHANGED storeVars
    PROVE  StoreTypeOK'
  BY DEF StoreTypeOK, storeVars

LEMMA InitType == Init => TypeOK
<1> SUFFICES ASSUME Init PROVE TypeOK
  OBVIOUS
<1>1. StoreTypeOK
  BY FS_EmptySet DEF Init, StoreInit, StoreTypeOK
<1>2. history \in Seq(Times) /\ Len(history) <= HistoryLimit
  BY EmptyChartType DEF Init, MonInit
<1>3. thread \in [Threads -> [pc : ThreadPCs, cook : CookIds \cup {NoCook}]]
  BY DEF Init, Idle, ThreadPCs
<1>4. running \in BOOLEAN /\ connected \in BOOLEAN /\ hasRead \in BOOLEAN /\ stopClosed \in BOOLEAN
  BY DEF Init, MonInit
<1>5. cookID \in CookIds \cup {NoCook} /\ lastSampleAt \in Nat
  BY DEF Init, MonInit, NoCook
<1>6. QED BY <1>1, <1>2, <1>3, <1>4, <1>5 DEF TypeOK, Init, Times

\* Where a goroutine goes next has the right type.
LEMMA ThreadType ==
    ASSUME TypeOK, NEW t \in Threads, NEW pc \in ThreadPCs,
           NEW c \in CookIds \cup {NoCook}
    PROVE  /\ Goto(t, pc) \/ GotoWith(t, pc, c) \/ AfterPrune(t) \/ EndTaken(t) =>
                thread' \in [Threads -> [pc : ThreadPCs, cook : CookIds \cup {NoCook}]]
  BY DEF TypeOK, Goto, GotoWith, AfterPrune, EndTaken, ThreadPCs, Idle

LEMMA HandlerType ==
    ASSUME TypeOK, NEW h \in Handlers, Handler(h)
    PROVE  TypeOK'
<1> h \in Threads
  BY DEF Threads
<1> USE DEF TypeOK, storeVars, monVars, linkVars, envVars
<1>1. CASE Start(h)
  <2>1. history' \in Seq(Times) /\ Len(history') <= HistoryLimit
    BY <1>1, EmptyChartType DEF Start
  <2>2. thread' \in [Threads -> [pc : ThreadPCs, cook : CookIds \cup {NoCook}]]
    BY <1>1, ThreadType DEF Start, ThreadPCs
  <2>3. StoreTypeOK'
    BY <1>1, StoreUnchangedType DEF Start
  <2>4. cookID' \in CookIds \cup {NoCook} /\ lastSampleAt' \in Nat
    BY <1>1 DEF Start, NoCook
  <2>5. QED BY <1>1, <2>1, <2>2, <2>3, <2>4 DEF Start
<1>2. CASE Stop(h)
  BY <1>2, ThreadType, StoreUnchangedType DEF Stop, ThreadPCs, NoCook
<1>3. CASE NewCook(h)
  <2>1. history' \in Seq(Times) /\ Len(history') <= HistoryLimit
    BY <1>3, EmptyChartType DEF NewCook
  <2>2. thread' \in [Threads -> [pc : ThreadPCs, cook : CookIds \cup {NoCook}]]
    BY <1>3, ThreadType DEF NewCook, ThreadPCs
  <2>3. StoreTypeOK'
    BY <1>3, StoreUnchangedType DEF NewCook
  <2>4. cookID' \in CookIds \cup {NoCook} /\ lastSampleAt' \in Nat
    BY <1>3 DEF NewCook, NoCook
  <2>5. QED BY <1>3, <2>1, <2>2, <2>3, <2>4 DEF NewCook
<1>4. ASSUME NEW c \in CookIds, DeleteCook(h, c)
      PROVE  TypeOK'
  <2>1. GotoWith(h, "del1", c) /\ "del1" \in ThreadPCs
    BY <1>4 DEF DeleteCook, ThreadPCs
  <2>2. QED BY <1>4, <2>1, ThreadType, StoreUnchangedType DEF DeleteCook
<1>5. QED BY <1>1, <1>2, <1>3, <1>4 DEF Handler

LEMMA JanitorType ==
    ASSUME TypeOK, JanitorLook \/ JanitorClear
    PROVE  TypeOK'
<1> Janitor \in Threads /\ "end" \in ThreadPCs /\ "idle" \in ThreadPCs
  BY DEF Threads, ThreadPCs
<1> USE DEF TypeOK, storeVars, monVars, linkVars, envVars
<1>1. CASE JanitorLook
  BY <1>1, ThreadType, StoreUnchangedType DEF JanitorLook
<1>2. CASE JanitorClear
  BY <1>2, ThreadType, StoreUnchangedType DEF JanitorClear
<1>3. QED BY <1>1, <1>2

LEMMA StatementType ==
    ASSUME TypeOK, NEW t \in Threads, Statement(t)
    PROVE  TypeOK'
<1> {"prune1", "prune2", "del2", "idle"} \subseteq ThreadPCs
  BY DEF ThreadPCs
<1> USE DEF TypeOK, monVars, linkVars, envVars
<1>1. CASE EndCookStmt(t)
  BY <1>1, ThreadType, EndCookType DEF EndCookStmt
<1>2. CASE PruneSamples(t)
  BY <1>2, ThreadType, DeleteSamplesType DEF PruneSamples
<1>3. CASE PruneRows(t)
  BY <1>3, ThreadType, DeleteRowsType DEF PruneRows
<1>4. CASE StatementFails(t)
  <2>1. thread' \in [Threads -> [pc : ThreadPCs, cook : CookIds \cup {NoCook}]]
    BY <1>4, ThreadType DEF StatementFails
  <2>2. abandoned' \subseteq CookIds
    BY <1>4 DEF StatementFails, Open
  <2>3. QED BY <1>4, <2>1, <2>2, StoreUnchangedType DEF StatementFails
<1>5. CASE DeleteCookSamples(t)
  BY <1>5, ThreadType, DeleteSamplesType DEF DeleteCookSamples
<1>6. CASE DeleteCookRow(t)
  BY <1>6, ThreadType, DeleteRowsType DEF DeleteCookRow
<1>7. QED BY <1>1, <1>2, <1>3, <1>4, <1>5, <1>6 DEF Statement

\* Record on a chart of times keeps the monitor's part of TypeOK.
LEMMA RecordType ==
    ASSUME TypeOK, NEW r \in Readers, upd[r].pc = "lock",
           NEW chart \in Seq(Times), NEW c \in CookIds \cup {NoCook},
           Record(r, chart, c), StoreTypeOK'
    PROVE  TypeOK'
<1> USE DEF TypeOK, linkVars, envVars
<1>1. upd[r].at \in Times
  BY DEF NoUpdate
<1>2. Append(chart, upd[r].at) \in Seq(Times)
  BY <1>1
<1>3. history' \in Seq(Times) /\ Len(history') <= HistoryLimit
  BY <1>2, RetainType DEF Record
<1>4. upd' \in [Readers -> {NoUpdate}
                   \cup [pc : {"lock"}, at : Times, cook : {NoCook}]
                   \cup [pc : {"append"}, at : Times, cook : CookIds]]
  BY <1>1 DEF Record
<1>5. QED BY <1>1, <1>3, <1>4 DEF Record, Times

LEMMA UpdateType ==
    ASSUME TypeOK, NEW r \in Readers, UpdateBegin(r) \/ Update(r)
    PROVE  TypeOK'
<1>1. CASE UpdateBegin(r)
  BY <1>1, StoreUnchangedType
  DEF UpdateBegin, TypeOK, monVars, linkVars, envVars
<1>2. CASE UpdateLive(r)
  BY <1>2, RecordType, StoreUnchangedType DEF UpdateLive, TypeOK
<1>3. CASE UpdateOpens(r)
  <2>1. PICK c \in CookIds : InsertCook(c, upd[r].at) /\ Record(r, <<>>, c)
    BY <1>3 DEF UpdateOpens
  <2>2. upd[r].pc = "lock" /\ upd[r].at \in Times
    BY <1>3 DEF UpdateOpens, TypeOK, NoUpdate
  <2>3. StoreTypeOK'
    BY <2>1, <2>2, InsertCookType DEF TypeOK
  <2>4. <<>> \in Seq(Times)
    OBVIOUS
  <2>5. QED BY <2>1, <2>2, <2>3, <2>4, RecordType
<1>4. CASE UpdateOpenFails(r)
  BY <1>4, RecordType, StoreUnchangedType DEF UpdateOpenFails, TypeOK
<1>5. CASE UpdateAppends(r)
  <2>1. upd[r].at \in Times /\ upd[r].cook \in CookIds
    BY <1>5 DEF UpdateAppends, TypeOK, NoUpdate
  <2>2. StoreTypeOK'
    BY <1>5, <2>1, InsertSampleType, StoreUnchangedType DEF UpdateAppends, TypeOK
  <2>3. QED
    BY <1>5, <2>2 DEF UpdateAppends, TypeOK, monVars, linkVars, envVars
<1>6. QED BY <1>1, <1>2, <1>3, <1>4, <1>5 DEF Update

LEMMA LinkType ==
    ASSUME TypeOK, Link
    PROVE  TypeOK'
<1> USE DEF TypeOK, LinkStep, envVars
<1>1. CASE Wake
  BY <1>1, StoreUnchangedType DEF Wake
<1>2. CASE TakeStopChan
  BY <1>2, StoreUnchangedType DEF TakeStopChan
<1>3. CASE DialStopped
  BY <1>3, StoreUnchangedType DEF DialStopped
<1>4. CASE Dialed
  BY <1>4, StoreUnchangedType, FlagsBoolean DEF Dialed
<1>5. ASSUME NEW up \in BOOLEAN, StatusLine(up)
      PROVE  TypeOK'
  BY <1>5, StoreUnchangedType DEF StatusLine
<1>6. CASE StreamEnds
  BY <1>6, StoreUnchangedType DEF StreamEnds
<1>7. CASE LinkCloses
  BY <1>7, StoreUnchangedType DEF LinkCloses
<1>8. QED BY <1>1, <1>2, <1>3, <1>4, <1>5, <1>6, <1>7 DEF Link

LEMMA CrashType ==
    ASSUME TypeOK, Crash
    PROVE  TypeOK'
<1>1. history' \in Seq(Times) /\ Len(history') <= HistoryLimit
  BY EmptyChartType DEF Crash
<1>2. thread' \in [Threads -> [pc : ThreadPCs, cook : CookIds \cup {NoCook}]]
  BY DEF Crash, Idle, ThreadPCs
<1>3. abandoned' \subseteq CookIds
  BY DEF Crash, TypeOK, Open
<1>4. cookID' \in CookIds \cup {NoCook} /\ lastSampleAt' \in Nat
  BY DEF Crash, NoCook
<1>5. StoreTypeOK'
  BY StoreUnchangedType DEF Crash, TypeOK
<1>6. upd' \in [Readers -> {NoUpdate}]
  BY DEF Crash
<1>7. /\ link' = "parked" /\ stopClosed' = TRUE
      /\ now' \in Times /\ crashes' \in Nat /\ resumedAt' \in Nat
  BY DEF Crash, TypeOK
<1>8. running' = FALSE /\ connected' = FALSE /\ hasRead' = FALSE
  BY DEF Crash
<1>9. QED
  BY <1>1, <1>2, <1>3, <1>4, <1>5, <1>6, <1>7, <1>8 DEF TypeOK

LEMMA StartupType ==
    ASSUME TypeOK, Startup
    PROVE  TypeOK'
<1> Main \in Threads /\ "prune1" \in ThreadPCs /\ "end" \in ThreadPCs
  BY DEF Threads, ThreadPCs
<1> USE DEF TypeOK, monVars, linkVars, envVars
<1>1. CASE ResumeNothing
  BY <1>1, ThreadType, StoreUnchangedType DEF ResumeNothing
<1>2. CASE ResumeStale
  <2>1. PICK c \in CurrentOpenCook : GotoWith(Main, "end", c)
    BY <1>2 DEF ResumeStale
  <2>2. c \in CookIds
    BY DEF CurrentOpenCook, Open
  <2>3. QED BY <1>2, <2>1, <2>2, ThreadType, StoreUnchangedType DEF ResumeStale
<1>3. CASE ResumeCook
  <2>1. PICK c \in CurrentOpenCook :
            /\ cookID' = c
            /\ \E h \in Oldest1st(SampleTimes(c)) : history' = Retain(h)
            /\ abandoned' = abandoned \ {c}
    BY <1>3 DEF ResumeCook
  <2>2. c \in CookIds
    BY DEF CurrentOpenCook, Open
  <2>3. history' \in Seq(Times) /\ Len(history') <= HistoryLimit
    BY <2>1, Oldest1stType, RetainType
  <2>4. lastSampleAt' \in Nat
    BY <1>3, <2>3 DEF ResumeCook, Last, Times
  <2>5. QED
    BY <1>3, <2>1, <2>2, <2>3, <2>4, ThreadType, StoreUnchangedType
    DEF ResumeCook, Times
<1>4. CASE ResumeUnread
  BY <1>4, ThreadType, StoreUnchangedType DEF ResumeUnread
<1>5. QED BY <1>1, <1>2, <1>3, <1>4 DEF Startup

LEMMA NextType == TypeOK /\ [Next]_vars => TypeOK'
<1> SUFFICES ASSUME TypeOK, [Next]_vars PROVE TypeOK'
  OBVIOUS
<1>1. ASSUME NEW h \in Handlers, Handler(h) PROVE TypeOK'
  BY <1>1, HandlerType
<1>2. ASSUME NEW t \in Threads, Statement(t) PROVE TypeOK'
  BY <1>2, StatementType
<1>3. ASSUME NEW r \in Readers, UpdateBegin(r) \/ Update(r) PROVE TypeOK'
  BY <1>3, UpdateType
<1>4. CASE Tick
  BY <1>4, StoreUnchangedType DEF Tick, TypeOK, monVars, linkVars, Times
<1>5. CASE UNCHANGED vars
  BY <1>5, StoreUnchangedType DEF vars, TypeOK, monVars, linkVars, envVars
<1>6. QED
  BY <1>1, <1>2, <1>3, <1>4, <1>5, JanitorType, LinkType, CrashType, StartupType DEF Next

\* Every reachable state is well typed: ids are ids of the table, the history
\* never exceeds historyLimit, an Update that appends has a cook to append to.
THEOREM TypeCorrect == Spec => []TypeOK
<1>1. Init => TypeOK
  BY InitType
<1>2. TypeOK /\ [Next]_vars => TypeOK'
  BY NextType
<1>3. QED BY <1>1, <1>2, PTL DEF Spec

(***************************************************************************)
(* No cook leaks, and the monitor's cook is an open row                    *)
(***************************************************************************)

\* The threads are apart, and the ids a cook may have are not NoCook.
LEMMA Apart ==
    /\ Main \in Threads /\ Janitor \in Threads /\ Main # Janitor
    /\ \A h \in Handlers : h \in Threads /\ h # Main /\ h # Janitor
    /\ NoCook \notin CookIds /\ CookIds \subseteq Nat
  BY ThreadsDistinct DEF Threads, NoCook, CookIds

LEMMA CookInvInit == Init => CookInv
  BY Apart DEF Init, StoreInit, MonInit, CookInv, IdsInUse, BootAlone, HandedOver,
     OpenRowIsOwned, CurrentCookIsOpen, Open, Up, At, Idle, NoUpdate, NoCook

\* An idle handler takes the monitor's cook over, to end it: Start, Stop, NewCook.
LEMMA RetireCookInv ==
    ASSUME TypeOK, CookInv, NEW h \in Handlers, Up, At(h, "idle"),
           cookID' = NoCook, EndTaken(h),
           UNCHANGED <<row, seq, upd, link, abandoned>>
    PROVE  CookInv'
<1> USE Apart DEF At, TypeOK, StoreTypeOK, CookInv, EndTaken, Idle, NoCook
<1>1. IdsInUse'
  BY DEF IdsInUse
<1>2. BootAlone'
  BY DEF BootAlone, Up
<1>3. HandedOver'
  BY DEF HandedOver, Open
<1>4. OpenRowIsOwned'
  BY DEF OpenRowIsOwned, HandedOver, Open
<1>5. CurrentCookIsOpen'
  BY DEF CurrentCookIsOpen, HandedOver, JanitorWindow, Open
<1>6. QED BY <1>1, <1>2, <1>3, <1>4, <1>5 DEF CookInv

\* DeleteCook has seen that the cook has ended.
LEMMA DeleteCookInv ==
    ASSUME TypeOK, CookInv, NEW h \in Handlers, NEW c \in CookIds, DeleteCook(h, c)
    PROVE  CookInv'
<1> USE Apart DEF At, TypeOK, StoreTypeOK, CookInv, DeleteCook, Ended,
           GotoWith, storeVars, monVars, linkVars, envVars
<1>1. IdsInUse'
  BY DEF IdsInUse
<1>2. BootAlone'
  BY DEF BootAlone, Up
<1>3. HandedOver'
  BY DEF HandedOver, Open
<1>4. OpenRowIsOwned'
  BY DEF OpenRowIsOwned, HandedOver, Open
<1>5. CurrentCookIsOpen'
  BY DEF CurrentCookIsOpen, HandedOver, JanitorWindow, Open
<1>6. QED BY <1>1, <1>2, <1>3, <1>4, <1>5 DEF CookInv

\* The janitor takes aim at the monitor's cook.
LEMMA JanitorLookInv ==
    ASSUME TypeOK, CookInv, JanitorLook
    PROVE  CookInv'
<1> USE Apart DEF At, TypeOK, StoreTypeOK, CookInv, JanitorLook,
           GotoWith, storeVars, monVars, linkVars, envVars
<1>1. IdsInUse'
  BY DEF IdsInUse
<1>2. BootAlone'
  BY DEF BootAlone, Up
<1>3. HandedOver'
  BY DEF HandedOver, Open
<1>4. OpenRowIsOwned'
  BY DEF OpenRowIsOwned, HandedOver, Open
<1>5. CurrentCookIsOpen'
  BY DEF CurrentCookIsOpen, HandedOver, JanitorWindow, Open
<1>6. QED BY <1>1, <1>2, <1>3, <1>4, <1>5 DEF CookInv

\* The janitor has ended the cook it clears, or lost its EndCook.
LEMMA JanitorClearInv ==
    ASSUME TypeOK, CookInv, JanitorClear
    PROVE  CookInv'
<1> USE Apart DEF At, TypeOK, StoreTypeOK, CookInv, JanitorClear,
           GotoWith, storeVars, linkVars, envVars, NoCook
<1>1. IdsInUse'
  BY DEF IdsInUse
<1>2. BootAlone'
  BY DEF BootAlone, Up
<1>3. HandedOver'
  BY DEF HandedOver, Open
<1>4. OpenRowIsOwned'
  BY DEF OpenRowIsOwned, HandedOver, Open
<1>5. CurrentCookIsOpen'
  BY DEF CurrentCookIsOpen, JanitorWindow, Open
<1>6. QED BY <1>1, <1>2, <1>3, <1>4, <1>5 DEF CookInv

\* EndCook ends a cook that is no longer the monitor's, or opens the janitor's window.
LEMMA EndCookStmtInv ==
    ASSUME TypeOK, CookInv, NEW t \in Threads, EndCookStmt(t)
    PROVE  CookInv'
<1> USE Apart DEF At, TypeOK, StoreTypeOK, CookInv, EndCookStmt, EndCook, Goto, monVars, linkVars, envVars
<1>1. IdsInUse'
  BY DEF IdsInUse
<1>2. BootAlone'
  BY DEF BootAlone, Up
<1>3. HandedOver'
  BY DEF HandedOver, Open
<1>4. OpenRowIsOwned'
  BY DEF OpenRowIsOwned, HandedOver, Open
<1>5. CurrentCookIsOpen'
  BY DEF CurrentCookIsOpen, HandedOver, JanitorWindow, Open
<1>6. QED BY <1>1, <1>2, <1>3, <1>4, <1>5 DEF CookInv

\* An EndCook that fails leaves its cook open, recorded as abandoned.
LEMMA LostEndCookInv ==
    ASSUME TypeOK, CookInv, NEW t \in Threads, At(t, "end"), Goto(t, "prune1"),
           abandoned' = abandoned \cup ({thread[t].cook} \cap Open),
           UNCHANGED <<row, seq, cookID, upd, link>>
    PROVE  CookInv'
<1> USE Apart DEF At, TypeOK, CookInv, Goto
<1>1. IdsInUse'
  BY DEF IdsInUse
<1>2. BootAlone'
  BY DEF BootAlone, Up
<1>3. HandedOver'
  BY DEF HandedOver, Open
<1>4. OpenRowIsOwned'
  BY DEF OpenRowIsOwned, HandedOver, Open
<1>5. CurrentCookIsOpen'
  BY DEF CurrentCookIsOpen, HandedOver, JanitorWindow, Open
<1>6. QED BY <1>1, <1>2, <1>3, <1>4, <1>5 DEF CookInv

\* A goroutine is done with a statement of Prune or DeleteCook, which has at most
\* taken rows that were not open: the next statement, the janitor's second
\* critical section, or nothing more.
LEMMA MoveOnInv ==
    ASSUME TypeOK, CookInv, NEW t \in Threads,
           thread[t].pc \in {"prune1", "prune2", "del1", "del2"},
           \/ /\ thread[t].pc \in {"prune1", "prune2"}
              /\ \E pc \in {"prune2", "clear"} : Goto(t, pc)
           \/ /\ thread[t].pc \in {"del1", "del2"}
              /\ Goto(t, "del2")
           \/ /\ thread[t].pc \in {"del1", "del2"} \/ t # Janitor
              /\ GotoWith(t, "idle", NoCook),
           \A c \in CookIds : row'[c] = row[c] \/ (row[c] # "open" /\ row'[c] = "absent"),
           UNCHANGED <<seq, cookID, upd, link, abandoned>>
    PROVE  CookInv'
<1> USE Apart
<1>1. /\ thread \in [Threads -> [pc : ThreadPCs, cook : CookIds \cup {NoCook}]]
      /\ seq \in Nat
  BY DEF TypeOK, StoreTypeOK
<1>2. \A u \in Threads : u # t => thread'[u] = thread[u]
  BY <1>1 DEF Goto, GotoWith
<1>3. \/ /\ thread[t].pc \in {"prune1", "prune2"} /\ thread'[t].pc \in {"prune2", "clear"}
         /\ thread'[t].cook = thread[t].cook
      \/ /\ thread[t].pc \in {"del1", "del2"} /\ thread'[t].pc = "del2"
         /\ thread'[t].cook = thread[t].cook
      \/ /\ thread[t].pc \in {"del1", "del2"} \/ t # Janitor
         /\ thread'[t].pc = "idle" /\ thread'[t].cook = NoCook
  BY <1>1 DEF Goto, GotoWith
<1>4. Open' = Open
  BY DEF Open
<1>5. IdsInUse'
  BY <1>1, <1>2, <1>3 DEF CookInv, IdsInUse, NoCook
<1>6. BootAlone'
  BY <1>2, <1>3 DEF CookInv, BootAlone, Up, At
<1>7. HandedOver'
  BY <1>2, <1>3, <1>4 DEF CookInv, HandedOver, At
<1>8. OpenRowIsOwned'
  BY <1>2, <1>3, <1>4 DEF CookInv, OpenRowIsOwned, At
<1>9. CurrentCookIsOpen'
  BY <1>2, <1>3, <1>4 DEF CookInv, CurrentCookIsOpen, JanitorWindow
<1>10. QED BY <1>5, <1>6, <1>7, <1>8, <1>9 DEF CookInv

LEMMA StatementInv ==
    ASSUME TypeOK, CookInv, NEW t \in Threads, Statement(t)
    PROVE  CookInv'
<1> USE DEF At, monVars, linkVars, envVars
<1>1. CASE EndCookStmt(t)
  BY <1>1, EndCookStmtInv
<1>2. CASE PruneSamples(t)
  BY <1>2, MoveOnInv DEF PruneSamples, DeleteSamplesOf
<1>3. CASE PruneRows(t)
  BY <1>3, MoveOnInv DEF PruneRows, DeleteRowsOf, Prunable, Ended, AfterPrune
<1>4. CASE StatementFails(t)
  <2>1. CASE At(t, "end")
    BY <1>4, <2>1, LostEndCookInv DEF StatementFails, storeVars
  <2>2. CASE ~At(t, "end")
    BY <1>4, <2>2, MoveOnInv DEF StatementFails, AfterPrune, storeVars
  <2>3. QED BY <2>1, <2>2
<1>5. CASE DeleteCookSamples(t)
  BY <1>5, MoveOnInv DEF DeleteCookSamples, DeleteSamplesOf
<1>6. CASE DeleteCookRow(t)
  <2>1. row[thread[t].cook] # "open"
    BY <1>6 DEF DeleteCookRow, CookInv, HandedOver, Open
  <2>2. QED BY <1>6, <2>1, MoveOnInv DEF DeleteCookRow, DeleteRowsOf
<1>7. QED BY <1>1, <1>2, <1>3, <1>4, <1>5, <1>6 DEF Statement

\* A step that leaves the cooks, the threads and the Updates alone.
LEMMA UntouchedInv ==
    ASSUME CookInv, UNCHANGED <<row, seq, cookID, thread, upd, abandoned>>,
           ~Up => link' = link
    PROVE  CookInv'
<1> USE DEF CookInv
<1>1. IdsInUse'
  BY DEF IdsInUse
<1>2. BootAlone'
  BY DEF BootAlone, Up, At
<1>3. HandedOver'
  BY DEF HandedOver, Open, At
<1>4. OpenRowIsOwned'
  BY DEF OpenRowIsOwned, HandedOver, Open, At
<1>5. CurrentCookIsOpen'
  BY DEF CurrentCookIsOpen, HandedOver, JanitorWindow, Open, At
<1>6. QED BY <1>1, <1>2, <1>3, <1>4, <1>5 DEF CookInv

\* Record keeps a cook that is open, or none.
LEMMA RecordInv ==
    ASSUME TypeOK, CookInv, NEW r \in Readers, upd[r].pc = "lock",
           NEW chart, Record(r, chart, cookID), UNCHANGED storeVars
    PROVE  CookInv'
<1> USE DEF TypeOK, CookInv, Record, NoUpdate, storeVars, linkVars, envVars
<1>1. IdsInUse'
  BY DEF IdsInUse
<1>2. BootAlone'
  BY DEF BootAlone, Up, At
<1>3. HandedOver'
  BY DEF HandedOver, Open, At
<1>4. OpenRowIsOwned'
  BY DEF OpenRowIsOwned, HandedOver, Open, At
<1>5. CurrentCookIsOpen'
  BY DEF CurrentCookIsOpen, HandedOver, JanitorWindow, Open, At
<1>6. QED BY <1>1, <1>2, <1>3, <1>4, <1>5 DEF CookInv

\* The row that is opened is new, and the only one the monitor holds.
LEMMA UpdateOpensInv ==
    ASSUME TypeOK, CookInv, NEW r \in Readers, UpdateOpens(r)
    PROVE  CookInv'
<1>1. PICK c \in CookIds : InsertCook(c, upd[r].at) /\ Record(r, <<>>, c)
  BY DEF UpdateOpens
<1> USE Apart
<1>2. /\ seq \in Nat /\ c = seq + 1 /\ seq' = c
      /\ cookID = NoCook /\ cookID' = c /\ c # NoCook
      /\ UNCHANGED <<thread, link, abandoned>>
  BY <1>1 DEF UpdateOpens, TypeOK, StoreTypeOK, InsertCook, Record, linkVars, envVars
<1>3. /\ \A d \in CookIds : d # c => row'[d] = row[d]
      /\ row'[c] = "open"
      /\ Open' = Open \cup {c} /\ Open \subseteq CookIds
  BY <1>1 DEF TypeOK, StoreTypeOK, InsertCook, Open
<1>4. /\ upd[r].pc = "lock"
      /\ upd'[r].cook = c
      /\ \A s \in Readers : s # r => upd'[s] = upd[s]
  BY <1>1, <1>2 DEF UpdateOpens, Record, TypeOK
<1>5. \A t \in Threads : thread[t].cook <= seq /\ thread[t].cook \in Nat /\ thread[t].cook # c
  <2>1. thread \in [Threads -> [pc : ThreadPCs, cook : CookIds \cup {NoCook}]]
    BY DEF TypeOK
  <2>2. \A t \in Threads : thread[t].cook \in CookIds \cup {NoCook}
    BY <2>1
  <2>3. NoCook \in Nat
    BY DEF NoCook
  <2>4. \A t \in Threads : thread[t].cook \in Nat
    BY <2>2, <2>3
  <2>5. \A t \in Threads : thread[t].cook <= seq
    BY DEF CookInv, IdsInUse
  <2>6. QED BY <1>2, <2>4, <2>5
<1>6. IdsInUse'
  <2>1. \A s \in Readers : upd[s].cook \in Nat
    <3>1. \A s \in Readers : upd[s].cook \in CookIds \cup {NoCook}
      BY DEF TypeOK, NoUpdate
    <3>2. NoCook \in Nat
      BY DEF NoCook
    <3>3. QED BY <3>1, <3>2
  <2>2. \A s \in Readers : upd'[s].cook <= seq'
    BY <1>2, <1>4, <2>1 DEF CookInv, IdsInUse
  <2>3. \A d \in CookIds : d > seq' => row'[d] = "absent"
    BY <1>2, <1>3 DEF CookInv, IdsInUse
  <2>4. QED BY <1>2, <1>5, <2>2, <2>3 DEF IdsInUse
<1>7. BootAlone'
  BY <1>2, <1>4 DEF CookInv, BootAlone, Up, At
<1>8. HandedOver'
  BY <1>2, <1>3, <1>5 DEF CookInv, HandedOver, At
<1>9. OpenRowIsOwned'
  BY <1>2, <1>3 DEF CookInv, OpenRowIsOwned, At
<1>10. CurrentCookIsOpen'
  BY <1>2, <1>3 DEF CurrentCookIsOpen
<1>11. QED BY <1>6, <1>7, <1>8, <1>9, <1>10 DEF CookInv

LEMMA UpdateInv ==
    ASSUME TypeOK, CookInv, NEW r \in Readers, UpdateBegin(r) \/ Update(r)
    PROVE  CookInv'
<1>1. CASE UpdateBegin(r)
  <2> USE <1>1 DEF TypeOK, StoreTypeOK, CookInv, UpdateBegin, NoCook,
             storeVars, monVars, linkVars, envVars
  <2>1. IdsInUse'
    BY DEF IdsInUse
  <2>2. BootAlone'
    BY DEF BootAlone, Up, At
  <2>3. HandedOver'
    BY DEF HandedOver, Open, At
  <2>4. OpenRowIsOwned'
    BY DEF OpenRowIsOwned, HandedOver, Open, At
  <2>5. CurrentCookIsOpen'
    BY DEF CurrentCookIsOpen, HandedOver, JanitorWindow, Open, At
  <2>6. QED BY <2>1, <2>2, <2>3, <2>4, <2>5 DEF CookInv
<1>2. CASE UpdateLive(r)
  BY <1>2, RecordInv DEF UpdateLive
<1>3. CASE UpdateOpens(r)
  BY <1>3, UpdateOpensInv
<1>4. CASE UpdateOpenFails(r)
  BY <1>4, RecordInv DEF UpdateOpenFails
<1>5. CASE UpdateAppends(r)
  <2> USE <1>5 DEF TypeOK, StoreTypeOK, CookInv, UpdateAppends, InsertSample,
             NoUpdate, NoCook, storeVars, monVars, linkVars, envVars
  <2>1. IdsInUse'
    BY DEF IdsInUse
  <2>2. BootAlone'
    BY DEF BootAlone, Up, At
  <2>3. HandedOver'
    BY DEF HandedOver, Open, At
  <2>4. OpenRowIsOwned'
    BY DEF OpenRowIsOwned, HandedOver, Open, At
  <2>5. CurrentCookIsOpen'
    BY DEF CurrentCookIsOpen, HandedOver, JanitorWindow, Open, At
  <2>6. QED BY <2>1, <2>2, <2>3, <2>4, <2>5 DEF CookInv
<1>6. QED BY <1>1, <1>2, <1>3, <1>4, <1>5 DEF Update

LEMMA LinkInv ==
    ASSUME CookInv, Link
    PROVE  CookInv'
<1> SUFFICES UNCHANGED <<row, seq, cookID, thread, upd, abandoned>> /\ Up
  BY UntouchedInv
<1>1. QED
  BY DEF Link, Wake, TakeStopChan, DialStopped, Dialed, StatusLine, StreamEnds,
     LinkCloses, LinkStep, storeVars, envVars

\* A crash loses every EndCook under way, and the monitor's cook with them.
LEMMA CrashInv ==
    ASSUME TypeOK, CookInv, Crash
    PROVE  CookInv'
<1> USE Apart DEF TypeOK, StoreTypeOK, CookInv, Crash, Idle, NoUpdate, NoCook, storeVars
<1>1. IdsInUse'
  BY DEF IdsInUse
<1>2. BootAlone'
  BY DEF BootAlone, Up, At
<1>3. HandedOver'
  BY DEF HandedOver, Open, At
<1>4. OpenRowIsOwned'
  BY DEF OpenRowIsOwned, HandedOver, Open, At
<1>5. CurrentCookIsOpen'
  BY DEF CurrentCookIsOpen, HandedOver, JanitorWindow, Open, At
<1>6. QED BY <1>1, <1>2, <1>3, <1>4, <1>5 DEF CookInv

\* main has the monitor for itself: it takes up an abandoned cook, ends one, or
\* goes on without.
LEMMA StartupInv ==
    ASSUME TypeOK, CookInv, Startup
    PROVE  CookInv'
<1> DEFINE next == thread'[Main]
<1> USE Apart
<1>1. /\ thread \in [Threads -> [pc : ThreadPCs, cook : CookIds \cup {NoCook}]]
      /\ At(Main, "resume") /\ cookID = NoCook
      /\ \A t \in Threads : t # Main => At(t, "idle")
      /\ UNCHANGED <<row, seq, upd, link>>
  BY DEF TypeOK, CookInv, BootAlone, Up, At, Startup, ResumeNothing, ResumeStale,
     ResumeCook, ResumeUnread, storeVars, linkVars
<1>2. \A c \in Open : c \in abandoned /\ c \in CookIds /\ c <= seq
  BY <1>1 DEF CookInv, OpenRowIsOwned, IdsInUse, At, Open, TypeOK, StoreTypeOK
<1>3. /\ \A t \in Threads : t # Main => thread'[t] = thread[t]
      /\ \/ /\ next.pc = "prune1" /\ next.cook = thread[Main].cook
            /\ \/ cookID' = NoCook /\ abandoned' = abandoned
               \/ cookID' \in Open /\ abandoned' = abandoned \ {cookID'}
         \/ /\ next.pc = "end" /\ next.cook \in Open
            /\ cookID' = NoCook /\ abandoned' = abandoned
  BY <1>1 DEF Startup, ResumeNothing, ResumeStale, ResumeCook, ResumeUnread,
     CurrentOpenCook, Goto, GotoWith, monVars, envVars
<1>4. Open' = Open
  BY <1>1 DEF Open
<1>5. IdsInUse'
  BY <1>1, <1>2, <1>3 DEF CookInv, IdsInUse, TypeOK, StoreTypeOK, NoCook
<1>6. BootAlone'
  BY <1>1, <1>3 DEF CookInv, BootAlone, Up, At
<1>7. HandedOver'
  BY <1>1, <1>2, <1>3, <1>4 DEF HandedOver, At
<1>8. OpenRowIsOwned'
  BY <1>1, <1>2, <1>3, <1>4 DEF OpenRowIsOwned
<1>9. CurrentCookIsOpen'
  BY <1>3, <1>4 DEF CurrentCookIsOpen
<1>10. QED BY <1>5, <1>6, <1>7, <1>8, <1>9 DEF CookInv

LEMMA CookInvNext == TypeOK /\ CookInv /\ [Next]_vars => CookInv'
<1> SUFFICES ASSUME TypeOK, CookInv, [Next]_vars PROVE CookInv'
  OBVIOUS
<1>1. ASSUME NEW h \in Handlers, Handler(h) PROVE CookInv'
  <2>1. ASSUME NEW c \in CookIds, DeleteCook(h, c) PROVE CookInv'
    BY <2>1, DeleteCookInv
  <2>2. CASE Start(h) \/ Stop(h) \/ NewCook(h)
    BY <2>2, RetireCookInv DEF Start, Stop, NewCook, storeVars, linkVars, envVars
  <2>3. QED BY <1>1, <2>1, <2>2 DEF Handler
<1>2. ASSUME NEW t \in Threads, Statement(t) PROVE CookInv'
  BY <1>2, StatementInv
<1>3. ASSUME NEW r \in Readers, UpdateBegin(r) \/ Update(r) PROVE CookInv'
  BY <1>3, UpdateInv
<1>4. CASE Tick
  BY <1>4, UntouchedInv DEF Tick, storeVars, monVars, linkVars
<1>5. CASE UNCHANGED vars
  BY <1>5, UntouchedInv DEF vars, storeVars, monVars, linkVars, envVars
<1>6. QED
  BY <1>1, <1>2, <1>3, <1>4, <1>5, JanitorLookInv, JanitorClearInv, LinkInv,
     CrashInv, StartupInv DEF Next

\* The inductive invariant of the cook's life holds in every reachable state.
THEOREM CookInvariant == Spec => []CookInv
<1>1. Init => TypeOK /\ CookInv
  BY InitType, CookInvInit
<1>2. TypeOK /\ CookInv /\ [Next]_vars => TypeOK' /\ CookInv'
  BY NextType, CookInvNext
<1>3. QED BY <1>1, <1>2, PTL DEF Spec

\* No cook is lost without an end time: an open row is the monitor's cook, or is
\* about to be ended, or a crash or a failed statement lost its EndCook.
THEOREM OpenRowsOwned == Spec => []OpenRowIsOwned
<1>1. CookInv => OpenRowIsOwned
  BY DEF CookInv
<1>2. QED BY <1>1, CookInvariant, PTL

\* Readings go to an open row, but for the janitor's window.
THEOREM CurrentCookOpen == Spec => []CurrentCookIsOpen
<1>1. CookInv => CurrentCookIsOpen
  BY DEF CookInv
<1>2. QED BY <1>1, CookInvariant, PTL

(***************************************************************************)
(* What a step may do to the samples of an open cook                       *)
(***************************************************************************)

\* Only Prune and DeleteCook take samples away, and never from an open cook.
LEMMA StepKeepsSamples ==
    ASSUME TypeOK, CookInv, [Next]_vars
    PROVE  \A s \in samples : s.cook \in Open => s \in samples'
<1> USE DEF storeVars
<1>1. ASSUME NEW h \in Handlers, Handler(h) PROVE samples' = samples
  BY <1>1 DEF Handler, Start, Stop, NewCook, DeleteCook
<1>2. CASE JanitorLook \/ JanitorClear
  BY <1>2 DEF JanitorLook, JanitorClear
<1>3. ASSUME NEW t \in Threads, Statement(t)
      PROVE  \A s \in samples : s.cook \in Open => s \in samples'
  <2>1. CASE PruneSamples(t)
    BY <2>1 DEF PruneSamples, DeleteSamplesOf, Prunable, Ended, Open
  <2>2. CASE DeleteCookSamples(t)
    BY <2>2 DEF DeleteCookSamples, DeleteSamplesOf, CookInv, HandedOver, At
  <2>3. CASE EndCookStmt(t) \/ PruneRows(t) \/ StatementFails(t) \/ DeleteCookRow(t)
    BY <2>3 DEF EndCookStmt, EndCook, PruneRows, StatementFails, DeleteCookRow,
       DeleteRowsOf
  <2>4. QED BY <1>3, <2>1, <2>2, <2>3 DEF Statement
<1>4. ASSUME NEW r \in Readers, UpdateBegin(r) \/ Update(r)
      PROVE  samples \subseteq samples'
  BY <1>4 DEF UpdateBegin, Update, UpdateLive, UpdateOpens, UpdateOpenFails,
     UpdateAppends, InsertCook, InsertSample
<1>5. CASE Link
  BY <1>5 DEF Link, Wake, TakeStopChan, DialStopped, Dialed, StatusLine, StreamEnds,
     LinkCloses, LinkStep
<1>6. CASE Crash \/ Startup \/ Tick \/ UNCHANGED vars
  BY <1>6 DEF Crash, Startup, ResumeNothing, ResumeStale, ResumeCook, ResumeUnread,
     Tick, vars
<1>7. QED BY <1>1, <1>2, <1>3, <1>4, <1>5, <1>6 DEF Next

\* A cook that has no end time never loses a sample, whatever DeleteCook, Prune
\* and a restart do in between.
THEOREM OpenCooksKeepSamples == Spec => OpenCookKeepsSamples
<1>1. TypeOK /\ CookInv /\ [Next]_vars =>
        [\A s \in samples : s.cook \in Open => s \in samples']_vars
  BY StepKeepsSamples
<1>2. QED BY <1>1, TypeCorrect, CookInvariant, PTL DEF Spec, OpenCookKeepsSamples

(***************************************************************************)
(* CookSession implements CookLog                                          *)
(***************************************************************************)

LEMMA RefinesInit == Init => Log!Init
  BY DEF Init, StoreInit, MonInit, Log!Init, Log!CookIds, CookIds, NoCook

\* A statement is a step of the log, or none.
LEMMA StatementRefines ==
    ASSUME TypeOK, CookInv, NEW t \in Threads, Statement(t)
    PROVE  [Log!Next]_(Log!vars)
<1> USE DEF Log!vars, monVars
<1>1. CASE EndCookStmt(t)
  <2>1. CASE row[thread[t].cook] = "open"
    <3>1. thread[t].cook \in CookIds
      BY <1>1 DEF EndCookStmt, CookInv, HandedOver
    <3>2. Log!Finish(thread[t].cook)
      BY <1>1, <2>1 DEF EndCookStmt, EndCook, Log!Finish
    <3>3. QED BY <3>1, <3>2 DEF Log!Next, Log!CookIds, CookIds
  <2>2. CASE row[thread[t].cook] # "open"
    BY <1>1, <2>2 DEF EndCookStmt, EndCook
  <2>3. QED BY <2>1, <2>2
<1>2. CASE PruneSamples(t) \/ DeleteCookSamples(t)
  <2>1. \A s \in samples \ samples' : row[s.cook] # "open"
    BY <1>2 DEF PruneSamples, DeleteCookSamples, DeleteSamplesOf, Prunable, Ended,
       CookInv, HandedOver, Open, At
  <2>2. samples' \subseteq samples /\ UNCHANGED <<row, seq, cookID>>
    BY <1>2 DEF PruneSamples, DeleteCookSamples, DeleteSamplesOf
  <2>3. QED BY <2>1, <2>2 DEF Log!Next, Log!Forget
<1>3. CASE PruneRows(t) \/ DeleteCookRow(t)
  <2>1. /\ row \in [CookIds -> {"absent", "open", "ended"}]
        /\ row' \in [CookIds -> {"absent", "open", "ended"}]
    BY <1>3, StatementType DEF TypeOK, StoreTypeOK
  <2>2. \A c \in CookIds : row'[c] # row[c] => row[c] = "ended" /\ row'[c] = "absent"
    BY <1>3, <2>1 DEF PruneRows, DeleteCookRow, DeleteRowsOf, Prunable, Ended,
       CookInv, HandedOver, Open, At
  <2>3. UNCHANGED <<samples, seq, cookID>>
    BY <1>3 DEF PruneRows, DeleteCookRow, DeleteRowsOf
  <2>4. QED BY <2>1, <2>2, <2>3 DEF Log!Next, Log!Drop, Log!CookIds, CookIds
<1>4. CASE StatementFails(t)
  BY <1>4 DEF StatementFails, storeVars
<1>5. QED BY <1>1, <1>2, <1>3, <1>4 DEF Statement

\* A reading records a sample, or begins a cook when none is live.
LEMMA UpdateRefines ==
    ASSUME TypeOK, CookInv, NEW r \in Readers, UpdateBegin(r) \/ Update(r)
    PROVE  [Log!Next]_(Log!vars)
<1> USE DEF Log!vars, storeVars, monVars
<1>1. CASE UpdateBegin(r)
  BY <1>1 DEF UpdateBegin
<1>2. CASE UpdateLive(r) \/ UpdateOpenFails(r)
  BY <1>2 DEF UpdateLive, UpdateOpenFails, Record
<1>3. CASE UpdateOpens(r)
  <2>1. Log!Begin
    BY <1>3 DEF UpdateOpens, InsertCook, Record, Log!Begin, NoCook
  <2>2. QED BY <2>1 DEF Log!Next
<1>4. CASE UpdateAppends(r)
  <2> DEFINE s == [cook |-> upd[r].cook, at |-> upd[r].at]
  <2>1. upd[r].cook \in 1..seq
    BY <1>4 DEF UpdateAppends, CookInv, IdsInUse, TypeOK, StoreTypeOK, NoUpdate, CookIds
  <2>2. UNCHANGED <<row, seq, cookID>>
    BY <1>4 DEF UpdateAppends, InsertSample
  <2>3. \/ samples' = samples \cup {s} /\ s \in samples' /\ s.cook \in 1..seq
        \/ samples' = samples
    BY <1>4, <2>1 DEF UpdateAppends, InsertSample
  <2>4. Log!Record \/ samples' = samples
    BY <2>2, <2>3 DEF Log!Record
  <2>5. QED BY <2>2, <2>4 DEF Log!Next
<1>5. QED BY <1>1, <1>2, <1>3, <1>4 DEF Update

LEMMA StepRefines ==
    ASSUME TypeOK, CookInv, [Next]_vars
    PROVE  [Log!Next]_(Log!vars)
<1> USE DEF Log!vars, storeVars
<1>1. ASSUME cookID' \in {NoCook, cookID}, UNCHANGED storeVars
      PROVE  [Log!Next]_(Log!vars)
  BY <1>1 DEF Log!Next, Log!Retire, NoCook
<1>2. ASSUME NEW h \in Handlers, Handler(h) PROVE [Log!Next]_(Log!vars)
  BY <1>1, <1>2 DEF Handler, Start, Stop, NewCook, DeleteCook, monVars
<1>3. CASE JanitorLook \/ JanitorClear
  BY <1>1, <1>3 DEF JanitorLook, JanitorClear, monVars
<1>4. ASSUME NEW t \in Threads, Statement(t) PROVE [Log!Next]_(Log!vars)
  BY <1>4, StatementRefines
<1>5. ASSUME NEW r \in Readers, UpdateBegin(r) \/ Update(r)
      PROVE  [Log!Next]_(Log!vars)
  BY <1>5, UpdateRefines
<1>6. CASE Link
  BY <1>1, <1>6 DEF Link, Wake, TakeStopChan, DialStopped, Dialed, StatusLine,
     StreamEnds, LinkCloses, LinkStep
<1>7. CASE Startup
  <2>1. CASE ResumeCook
    <3>1. cookID = NoCook
      BY <2>1 DEF ResumeCook, CookInv, BootAlone
    <3>2. Log!Resume
      BY <2>1, <3>1 DEF ResumeCook, CurrentOpenCook, Open, Log!Resume, Log!CookIds,
         CookIds, NoCook
    <3>3. QED BY <3>2 DEF Log!Next
  <2>2. CASE ResumeNothing \/ ResumeStale \/ ResumeUnread
    BY <1>1, <2>2 DEF ResumeNothing, ResumeStale, ResumeUnread, monVars
  <2>3. QED BY <1>7, <2>1, <2>2 DEF Startup
<1>8. CASE Crash \/ Tick \/ UNCHANGED vars
  BY <1>1, <1>8 DEF Crash, Tick, vars, monVars
<1>9. QED BY <1>2, <1>3, <1>4, <1>5, <1>6, <1>7, <1>8 DEF Next

\* Every behaviour of the Monitor, its callers and its store is one of the log:
\* at most one cook is live, it begins only when none is, its end is final, and
\* nothing but a finished cook loses samples or its row.
THEOREM ImplementsCookLog == Spec => ImplementsLog
<1>1. Init => Log!Init
  BY RefinesInit
<1>2. TypeOK /\ CookInv /\ [Next]_vars => [Log!Next]_(Log!vars)
  BY StepRefines
<1>3. QED
  BY <1>1, <1>2, TypeCorrect, CookInvariant, PTL DEF Spec, ImplementsLog, Log!Spec

=============================================================================
