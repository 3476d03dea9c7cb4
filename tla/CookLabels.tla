------------------------------ MODULE CookLabels ------------------------------
(***************************************************************************)
(* The labels of a cook: its name, its cut of meat and its target          *)
(* temperature.  The requests of internal/server/server.go set them        *)
(* through the setters of the Monitor, which keep them in memory for the   *)
(* status and for the next cook, and write them to the row of the current  *)
(* cook after the lock is given back.  A restart takes them from the row.  *)
(*                                                                         *)
(* A request is the sequence of Monitor calls its handler makes; each call *)
(* is a step under m.mu and, when it has a statement for the store, the    *)
(* statement is another.  What the calls do to readings, samples and the   *)
(* link is the matter of CookSession.                                      *)
(***************************************************************************)
EXTENDS Integers, Sequences, FiniteSetsExt, TLC

CONSTANTS
    Handlers,       \* goroutines serving a request each
    Names, Meats,   \* what the requests carry, the empty string included
    Targets,        \* the temperatures the requests carry, in degrees Celsius
    DefaultTarget,  \* -target
    MaxCooks        \* bound on the cooks ever started

ASSUME LabelsBounds == "" \in Names \cap Meats /\ DefaultTarget \in Nat /\ MaxCooks \in Nat

VARIABLES
    status,     \* cookName, meatType and target
    pending,    \* pendingName, pendingMeatType
    cookID,
    running,
    table,      \* the labels of the rows ever inserted, in order
    ended,      \* the cooks with an end time
    handler,    \* handler[h]: the calls still to make, the statement to run
    unsure,     \* history variable: the row labels that writes out of order or
                \* failed ones, or a target of 0, may have left behind
    last        \* history variable: the status when a cook was retired

vars == <<status, pending, cookID, running, table, ended, handler, unsure, last>>

NoCook == 0
Default == [name |-> "", meat |-> "", target |-> DefaultTarget]
Labels == DOMAIN Default
Accepted == {t \in Targets : t >= 0 /\ t <= 300}
Record == [name : Names, meat : Meats, target : Accepted \cup {DefaultTarget}]
CookIds == 1 .. Len(table)

NoStmt == [op |-> "none"]
Set(l, v) == [op |-> "set", label |-> l, value |-> v]
Values(l) == {r[l] : r \in Record}
Calls == [op : {"start", "stop"}] \cup [op : {"new"}, name : Names]
         \cup UNION {[op : {"set"}, label : {l}, value : Values(l)] : l \in Labels}
Stmts == {NoStmt} \cup [op : {"end"}, cook : CookIds]
         \cup UNION {[op : {"update"}, cook : CookIds, label : {l}, value : Values(l)] : l \in Labels}
Idle == [calls |-> <<>>, stmt |-> NoStmt]

TypeOK ==
    /\ status \in Record /\ pending \in [name : Names, meat : Meats]
    /\ cookID \in CookIds \cup {NoCook} /\ running \in BOOLEAN
    /\ table \in Seq(Record) /\ Len(table) <= MaxCooks
    /\ ended \subseteq CookIds
    /\ handler \in [Handlers -> [calls : Seq(Calls), stmt : Stmts]]
    /\ unsure \subseteq CookIds \X Labels
    /\ last \in Seq(Record) /\ Len(last) = Len(table)

Boot(labels, run) ==
    /\ status' = labels
    /\ pending' = [name |-> labels.name, meat |-> labels.meat]
    /\ running' = run

Init ==
    /\ status = Default /\ pending = [name |-> "", meat |-> ""]
    /\ cookID = NoCook /\ running = FALSE
    /\ table = <<>> /\ ended = {}
    /\ handler = [h \in Handlers |-> Idle]
    /\ unsure = {} /\ last = <<>>

-----------------------------------------------------------------------------
(* Requests *)

Given(l, v) == IF v = "" THEN <<>> ELSE <<Set(l, v)>>

SessionStart == {Given("name", n) \o <<[op |-> "start"]>> \o Given("meat", m) : n \in Names, m \in Meats}
SessionStop == {<<[op |-> "stop"]>>}
CookNew == {<<[op |-> "new", name |-> n]>> : n \in Names}
CookName == {<<Set("name", n)>> : n \in Names}
CookMeat == {<<Set("meat", m)>> : m \in Meats}

\* (Bug: the range is not checked.)
TargetUnchecked == {<<Set("target", t)>> : t \in Targets}

Target == {<<Set("target", t)>> : t \in Accepted}

Requests == SessionStart \cup SessionStop \cup CookNew \cup CookName \cup CookMeat \cup Target

-----------------------------------------------------------------------------
(* Calls *)

\* The calls h may make next: those that are left of its request, or a new one's.
Program(h) ==
    CASE handler[h] = Idle -> Requests
      [] handler[h].stmt # NoStmt -> {}
      [] OTHER -> {handler[h].calls}

\* Of the program q the call is made; stmt is left to be run after the unlock.
Called(h, q, stmt) == handler' = [handler EXCEPT ![h] = [calls |-> Tail(q), stmt |-> stmt]]

\* The current cook is taken from the monitor.
Retire ==
    /\ cookID' = NoCook
    /\ last' = IF cookID = NoCook THEN last ELSE [last EXCEPT ![cookID] = status]

EndOf(c) == IF c = NoCook THEN NoStmt ELSE [op |-> "end", cook |-> c]

\* h has still to write label l to the row of c.
Writing(h, c, l) ==
    LET s == handler[h].stmt IN s.op = "update" /\ s.cook = c /\ s.label = l

\* Another write of the same label to the same row is under way.
Races(h, c, l) == \E g \in Handlers \ {h} : Writing(g, c, l)

\* SetCookName, SetMeatType, SetTarget: the first half.
SetLabel(h, q) ==
    /\ Head(q).op = "set"
    /\ LET l == Head(q).label
           v == Head(q).value
       IN  /\ status' = [status EXCEPT ![l] = v]
           /\ pending' = IF l = "target" THEN pending ELSE [pending EXCEPT ![l] = v]
           /\ IF cookID = NoCook
                 THEN Called(h, q, NoStmt) /\ UNCHANGED unsure
                 ELSE /\ Called(h, q, [op |-> "update", cook |-> cookID, label |-> l, value |-> v])
                      /\ unsure' = IF Races(h, cookID, l) THEN unsure \cup {<<cookID, l>>}
                                   ELSE unsure \ {<<cookID, l>>}
    /\ UNCHANGED <<cookID, running, table, ended, last>>

Start(h, q) ==
    /\ Head(q).op = "start"
    /\ running' = TRUE
    /\ IF running THEN Called(h, q, NoStmt) /\ UNCHANGED <<cookID, last>>
       ELSE Called(h, q, EndOf(cookID)) /\ Retire
    /\ UNCHANGED <<status, pending, table, ended, unsure>>

Stop(h, q) ==
    /\ Head(q).op = "stop"
    /\ running' = FALSE
    /\ IF running THEN Called(h, q, EndOf(cookID)) /\ Retire
       ELSE Called(h, q, NoStmt) /\ UNCHANGED <<cookID, last>>
    /\ UNCHANGED <<status, pending, table, ended, unsure>>

\* (Bug: the name is not kept for the next cook.)
NewCookForgets(h, q) ==
    /\ Head(q).op = "new"
    /\ status' = [status EXCEPT !.name = Head(q).name]
    /\ Called(h, q, EndOf(cookID)) /\ Retire
    /\ UNCHANGED <<pending, running, table, ended, unsure>>

NewCook(h, q) ==
    /\ Head(q).op = "new"
    /\ status' = [status EXCEPT !.name = Head(q).name]
    /\ pending' = [pending EXCEPT !.name = Head(q).name]
    /\ Called(h, q, EndOf(cookID)) /\ Retire
    /\ UNCHANGED <<running, table, ended, unsure>>

-----------------------------------------------------------------------------
(* Statements *)

StmtDone(h) == handler' = [handler EXCEPT ![h].stmt = NoStmt]

\* (Bug: the row is that of the cook that is current by now.)
WriteCurrentRow(h) ==
    /\ handler[h].stmt.op = "update" /\ StmtDone(h)
    /\ LET s == handler[h].stmt
       IN  table' = IF cookID = NoCook THEN table ELSE [table EXCEPT ![cookID][s.label] = s.value]
    /\ UNCHANGED <<status, pending, cookID, running, ended, unsure, last>>

\* RenameCook, SetCookMeatType, SetCookTarget: whether or not the cook has ended.
WriteRow(h) ==
    /\ handler[h].stmt.op = "update" /\ StmtDone(h)
    /\ LET s == handler[h].stmt IN table' = [table EXCEPT ![s.cook][s.label] = s.value]
    /\ UNCHANGED <<status, pending, cookID, running, ended, unsure, last>>

WriteFails(h) ==
    /\ handler[h].stmt.op = "update" /\ StmtDone(h)
    /\ unsure' = unsure \cup {<<handler[h].stmt.cook, handler[h].stmt.label>>}
    /\ UNCHANGED <<status, pending, cookID, running, table, ended, last>>

EndCook(h) ==
    /\ handler[h].stmt.op = "end" /\ StmtDone(h)
    /\ ended' = ended \cup {handler[h].stmt.cook}
    /\ UNCHANGED <<status, pending, cookID, running, table, unsure, last>>

-----------------------------------------------------------------------------
(* Readings, the janitor, restarts *)

\* Update opens a cook, under m.mu, with the labels that are pending.
Open ==
    /\ cookID = NoCook /\ Len(table) < MaxCooks
    /\ LET kept == [name |-> IF pending.name # "" THEN pending.name ELSE status.name,
                    meat |-> IF pending.meat # "" THEN pending.meat ELSE status.meat,
                    target |-> status.target]
           new == [name |-> pending.name, meat |-> pending.meat, target |-> status.target]
       IN  /\ table' = Append(table, new)
           /\ status' = kept
           /\ last' = Append(last, Default)
    /\ cookID' = Len(table) + 1
    /\ UNCHANGED <<pending, running, ended, handler, unsure>>

\* RunJanitor ends the idle cook; then, in a second critical section, takes it
\* from the monitor.  No label moves in between, so this is one step here.
JanitorEnds ==
    /\ cookID # NoCook /\ ended' = ended \cup {cookID} /\ Retire
    /\ UNCHANGED <<status, pending, running, table, handler, unsure>>

\* What the statements that are lost would have written.
Unwritten == {u \in CookIds \X Labels : \E h \in Handlers : Writing(h, u[1], u[2])}

NewestOpen == {c \in CookIds \ ended : \A d \in CookIds \ ended : d <= c}

\* Resume: a target of 0 is taken for one that was never stored.
Restored(c) ==
    [table[c] EXCEPT !.target = IF table[c].target > 0 THEN table[c].target ELSE DefaultTarget]

\* The process dies and starts again: resumeCook finds no open cook, or cannot ask;
\* it goes on with the newest one, ends it because it was silent for too long, or
\* leaves it because its samples cannot be read.
Restart ==
    /\ handler' = [h \in Handlers |-> Idle]
    /\ \/ Boot(Default, FALSE) /\ cookID' = NoCook /\ UNCHANGED ended
       \/ \E c \in NewestOpen :
             \/ Boot(Restored(c), TRUE) /\ cookID' = c /\ UNCHANGED ended
             \/ Boot(Default, TRUE) /\ cookID' = NoCook /\ ended' = ended \cup {c}
             \/ Boot(Default, TRUE) /\ cookID' = NoCook /\ UNCHANGED ended
    /\ last' = [c \in CookIds |-> IF c = cookID' THEN Default
                                  ELSE IF c = cookID THEN status ELSE last[c]]
    /\ unsure' = {u \in unsure \cup Unwritten : u[1] # cookID'}
                 \cup {u \in {cookID'} \X {"target"} :
                         u[1] # NoCook /\ status'.target # table[u[1]].target}
    /\ UNCHANGED table

-----------------------------------------------------------------------------
Next ==
    \/ \E h \in Handlers :
          \/ \E q \in Program(h) :
                SetLabel(h, q) \/ Start(h, q) \/ Stop(h, q) \/ NewCook(h, q)
          \/ WriteRow(h) \/ WriteFails(h) \/ EndCook(h)
    \/ Open \/ JanitorEnds \/ Restart

Spec == Init /\ [][Next]_vars

-----------------------------------------------------------------------------
(* Properties *)

\* What the status shows of a cook, or showed when it was retired.
Shown(c) == IF c = cookID THEN status ELSE last[c]

\* The row of a cook says what the status said while the cook was current, each
\* label as soon as its own statement has run: whatever cook the request found,
\* however requests, readings, the janitor and restarts came between its two halves,
\* and though the statement may run when the next cook has begun.  Two writes of one
\* label that overlap may reach the row in the wrong order (monitor.go:435-446), and
\* are excepted.
RowFollowsMemory ==
    \A c \in CookIds : \A l \in Labels :
        <<c, l>> \notin unsure \cup Unwritten =>
            table[c][l] = Shown(c)[l]

\* What the status shows between two cooks is what the next one gets: Update opens
\* it with the pending labels, and shows others.
PendingIsShown == status.name = pending.name /\ status.meat = pending.meat

Symmetry == Permutations(Handlers)

=============================================================================
