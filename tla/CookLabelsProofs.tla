-------------------------- MODULE CookLabelsProofs --------------------------
(***************************************************************************)
(* Theorems about CookLabels, for every number of handlers and cooks and   *)
(* every set of labels the requests may carry.                             *)
(***************************************************************************)
EXTENDS CookLabels, SequenceTheorems, TLAPS

(***************************************************************************)
(* The labels of a record                                                  *)
(***************************************************************************)

\* A cook has three labels.
LEMMA ThreeLabels == Labels = {"name", "meat", "target"}
  BY DEF Labels, Default

\* What a cook has no label for is empty, or the default target.
LEMMA DefaultType == Default \in Record
  BY LabelsBounds DEF Default, Record

\* The values a label takes are those its requests carry.
LEMMA ValuesAre ==
    /\ Values("name") = Names
    /\ Values("meat") = Meats
    /\ Values("target") = Accepted \cup {DefaultTarget}
<1> DEFINE T == Accepted \cup {DefaultTarget}
<1>1. ASSUME NEW n \in Names, NEW m \in Meats, NEW t \in T
      PROVE  [name |-> n, meat |-> m, target |-> t] \in Record
  BY DEF Record
<1>2. "" \in Names /\ "" \in Meats /\ DefaultTarget \in T
  BY LabelsBounds
<1>3. ASSUME NEW n \in Names PROVE n \in Values("name")
  <2> DEFINE rec == [name |-> n, meat |-> "", target |-> DefaultTarget]
  <2>1. rec \in Record /\ rec["name"] = n
    BY <1>1, <1>2
  <2> HIDE DEF rec
  <2>2. QED BY <2>1 DEF Values
<1>4. ASSUME NEW m \in Meats PROVE m \in Values("meat")
  <2> DEFINE rec == [name |-> "", meat |-> m, target |-> DefaultTarget]
  <2>1. rec \in Record /\ rec["meat"] = m
    BY <1>1, <1>2
  <2> HIDE DEF rec
  <2>2. QED BY <2>1 DEF Values
<1>5. ASSUME NEW t \in T PROVE t \in Values("target")
  <2> DEFINE rec == [name |-> "", meat |-> "", target |-> t]
  <2>1. rec \in Record /\ rec["target"] = t
    BY <1>1, <1>2
  <2> HIDE DEF rec
  <2>2. QED BY <2>1 DEF Values
<1>6. /\ Values("name") \subseteq Names
      /\ Values("meat") \subseteq Meats
      /\ Values("target") \subseteq T
  BY DEF Values, Record
<1>7. QED BY <1>3, <1>4, <1>5, <1>6

\* Setting one label of a record leaves the others.
LEMMA SetOneLabel ==
    ASSUME NEW s \in Record, NEW l \in Labels, NEW v \in Values(l)
    PROVE  /\ [s EXCEPT ![l] = v] \in Record
           /\ [s EXCEPT ![l] = v][l] = v
           /\ \A k \in Labels \ {l} : [s EXCEPT ![l] = v][k] = s[k]
<1>1. l \in {"name", "meat", "target"} /\ DOMAIN s = Labels
  BY ThreeLabels DEF Record
<1>2. CASE l = "name"
  BY <1>1, <1>2, ValuesAre, ThreeLabels DEF Record
<1>3. CASE l = "meat"
  BY <1>1, <1>3, ValuesAre, ThreeLabels DEF Record
<1>4. CASE l = "target"
  BY <1>1, <1>4, ValuesAre, ThreeLabels DEF Record
<1>5. QED BY <1>1, <1>2, <1>3, <1>4

(***************************************************************************)
(* The calls of the requests                                               *)
(***************************************************************************)

\* A label a request sets is one of the three, with a value it may have.
LEMMA SetIsCall ==
    ASSUME NEW l \in Labels, NEW v \in Values(l)
    PROVE  Set(l, v) \in Calls
  BY DEF Set, Calls

\* A call that sets a label names the label and a value it may have.
LEMMA CallParts ==
    ASSUME NEW k \in Calls
    PROVE  /\ k.op = "set" => k.label \in Labels /\ k.value \in Values(k.label)
           /\ k.op = "new" => k.name \in Names
<1>1. CASE k \in [op : {"start", "stop"}]
  BY <1>1
<1>2. CASE k \in [op : {"new"}, name : Names]
  BY <1>2
<1>3. ASSUME NEW l \in Labels, k \in [op : {"set"}, label : {l}, value : Values(l)]
      PROVE  k.op = "set" /\ k.label \in Labels /\ k.value \in Values(k.label)
  BY <1>3
<1>4. QED BY <1>1, <1>2, <1>3 DEF Calls

\* The requests are sequences of calls, and none is empty.
LEMMA RequestsType ==
    ASSUME NEW q \in Requests
    PROVE  q \in Seq(Calls) /\ q # <<>>
<1>1. /\ [op |-> "start"] \in Calls /\ [op |-> "stop"] \in Calls
      /\ \A n \in Names : [op |-> "new", name |-> n] \in Calls /\ Set("name", n) \in Calls
      /\ \A m \in Meats : Set("meat", m) \in Calls
      /\ \A t \in Accepted : Set("target", t) \in Calls
  <2>1. /\ [op |-> "start"] \in Calls /\ [op |-> "stop"] \in Calls
        /\ \A n \in Names : [op |-> "new", name |-> n] \in Calls
    BY DEF Calls
  <2>2. QED BY <2>1, SetIsCall, ValuesAre, ThreeLabels
<1>2. ASSUME NEW n \in Names, NEW m \in Meats,
             q = Given("name", n) \o <<[op |-> "start"]>> \o Given("meat", m)
      PROVE  q \in Seq(Calls) /\ q # <<>>
  <2> DEFINE a == Given("name", n)
             b == <<[op |-> "start"]>>
             d == Given("meat", m)
  <2>1. a \in Seq(Calls) /\ b \in Seq(Calls) /\ d \in Seq(Calls) /\ Len(b) = 1
    <3>1. \A k \in Calls : <<k>> \in Seq(Calls) /\ Len(<<k>>) = 1
      OBVIOUS
    <3>2. <<>> \in Seq(Calls)
      OBVIOUS
    <3>3. QED BY <1>1, <3>1, <3>2 DEF Given
  <2> HIDE DEF a, b, d
  <2>2. \A x, y \in Seq(Calls) : x \o y \in Seq(Calls) /\ Len(x \o y) = Len(x) + Len(y)
    OBVIOUS
  <2>3. Len(a) \in Nat /\ Len(d) \in Nat
    BY <2>1
  <2>4. (a \o b) \o d \in Seq(Calls) /\ Len((a \o b) \o d) = Len(a) + 1 + Len(d)
    <3>1. a \o b \in Seq(Calls) /\ Len(a \o b) = Len(a) + 1
      BY <2>1, <2>2
    <3> DEFINE e == a \o b
    <3> HIDE DEF e
    <3>2. e \in Seq(Calls) /\ Len(e) = Len(a) + 1
      BY <3>1 DEF e
    <3>3. e \o d \in Seq(Calls) /\ Len(e \o d) = Len(a) + 1 + Len(d)
      BY <2>1, <2>2, <3>2
    <3>4. QED BY <3>3 DEF e
  <2>5. (a \o b) \o d # <<>>
    BY <2>3, <2>4
  <2>6. QED BY <1>2, <2>4, <2>5 DEF a, b, d
<1>3. ASSUME NEW k \in Calls, q = <<k>>
      PROVE  q \in Seq(Calls) /\ q # <<>>
  BY <1>3
<1>4. CASE q \in SessionStart
  BY <1>2, <1>4 DEF SessionStart
<1>5. CASE q \in SessionStop \cup CookNew \cup CookName \cup CookMeat \cup Target
  BY <1>1, <1>3, <1>5 DEF SessionStop, CookNew, CookName, CookMeat, Target
<1>6. QED BY <1>4, <1>5 DEF Requests

\* The calls a handler may make next: at least one, and no statement is left to run.
LEMMA ProgramType ==
    ASSUME TypeOK, NEW h \in Handlers, NEW q \in Program(h)
    PROVE  /\ q \in Seq(Calls) /\ q # <<>>
           /\ Head(q) \in Calls /\ Tail(q) \in Seq(Calls)
           /\ handler[h].stmt = NoStmt
<1>1. handler[h] \in [calls : Seq(Calls), stmt : Stmts]
  BY DEF TypeOK
<1>2. q \in Seq(Calls) /\ q # <<>> /\ handler[h].stmt = NoStmt
  <2>1. CASE handler[h] = Idle
    <3>1. q \in Requests
      BY <2>1 DEF Program
    <3>2. QED BY <2>1, <3>1, RequestsType DEF Idle
  <2>2. CASE handler[h] # Idle
    <3>1. handler[h].stmt = NoStmt /\ q = handler[h].calls
      BY <2>2 DEF Program
    <3>2. handler[h].calls # <<>>
      BY <1>1, <2>2, <3>1 DEF Idle
    <3>3. QED BY <1>1, <3>1, <3>2
  <2>3. QED BY <2>1, <2>2
<1>3. QED BY <1>2

(***************************************************************************)
(* The statements for the store                                            *)
(***************************************************************************)

\* What the calls leave to be run are statements.
LEMMA StmtsMade ==
    ASSUME cookID \in CookIds \cup {NoCook}
    PROVE  /\ NoStmt \in Stmts /\ EndOf(cookID) \in Stmts
           /\ NoStmt.op = "none" /\ EndOf(cookID).op \in {"none", "end"}
           /\ \A c \in CookIds : \A l \in Labels : \A v \in Values(l) :
                 [op |-> "update", cook |-> c, label |-> l, value |-> v] \in Stmts
<1>1. NoStmt \in Stmts /\ EndOf(cookID) \in Stmts
  BY DEF Stmts, EndOf, NoStmt
<1>2. NoStmt.op = "none" /\ EndOf(cookID).op \in {"none", "end"}
  BY DEF EndOf, NoStmt
<1>3. ASSUME NEW c \in CookIds, NEW l \in Labels, NEW v \in Values(l)
      PROVE  [op |-> "update", cook |-> c, label |-> l, value |-> v] \in Stmts
  <2>1. [op |-> "update", cook |-> c, label |-> l, value |-> v]
           \in [op : {"update"}, cook : CookIds, label : {l}, value : Values(l)]
    OBVIOUS
  <2>2. QED BY <2>1 DEF Stmts
<1>4. QED BY <1>1, <1>2, <1>3

\* A statement names a row there is, and a label with a value it may have.
LEMMA StmtParts ==
    ASSUME NEW s \in Stmts
    PROVE  /\ s.op \in {"update", "end"} => s.cook \in CookIds
           /\ s.op = "update" => s.label \in Labels /\ s.value \in Values(s.label)
<1>1. CASE s = NoStmt
  BY <1>1 DEF NoStmt
<1>2. CASE s \in [op : {"end"}, cook : CookIds]
  BY <1>2
<1>3. ASSUME NEW l \in Labels,
             s \in [op : {"update"}, cook : CookIds, label : {l}, value : Values(l)]
      PROVE  s.cook \in CookIds /\ s.label \in Labels /\ s.value \in Values(s.label)
  BY <1>3
<1>4. QED BY <1>1, <1>2, <1>3 DEF Stmts

\* Rows are only added, so a statement keeps naming one.
LEMMA StmtsKept ==
    ASSUME table \in Seq(Record), table' \in Seq(Record), Len(table) <= Len(table')
    PROVE  /\ CookIds \subseteq CookIds' /\ Stmts \subseteq Stmts'
           /\ Len(table') = Len(table) => CookIds' = CookIds /\ Stmts' = Stmts
<1>1. CookIds \subseteq CookIds' /\ (Len(table') = Len(table) => CookIds' = CookIds)
  BY DEF CookIds
<1>2. ASSUME NEW s \in Stmts PROVE s \in Stmts'
  <2>1. CASE s \in {NoStmt} \cup [op : {"end"}, cook : CookIds]
    BY <1>1, <2>1 DEF Stmts
  <2>2. ASSUME NEW l \in Labels,
               s \in [op : {"update"}, cook : CookIds, label : {l}, value : Values(l)]
        PROVE  s \in Stmts'
    <3>1. s \in [op : {"update"}, cook : CookIds', label : {l}, value : Values(l)]
      BY <1>1, <2>2
    <3>2. QED BY <3>1 DEF Stmts
  <2>3. QED BY <2>1, <2>2 DEF Stmts
<1>3. CookIds' = CookIds => Stmts' = Stmts
  BY DEF Stmts
<1>4. QED BY <1>1, <1>2, <1>3

(***************************************************************************)
(* Type correctness                                                        *)
(***************************************************************************)

\* After a call the handler has the rest of its program and the statement.
LEMMA CalledType ==
    ASSUME TypeOK, NEW h \in Handlers, NEW q \in Program(h), NEW stmt \in Stmts,
           Called(h, q, stmt)
    PROVE  /\ handler' \in [Handlers -> [calls : Seq(Calls), stmt : Stmts]]
           /\ handler'[h].stmt = stmt
           /\ \A g \in Handlers \ {h} : handler'[g] = handler[g]
<1>1. Tail(q) \in Seq(Calls)
  BY ProgramType
<1>2. [calls |-> Tail(q), stmt |-> stmt] \in [calls : Seq(Calls), stmt : Stmts]
  BY <1>1
<1>3. handler \in [Handlers -> [calls : Seq(Calls), stmt : Stmts]]
  BY DEF TypeOK
<1>4. QED BY <1>2, <1>3 DEF Called

\* After its statement it has none.
LEMMA StmtDoneType ==
    ASSUME TypeOK, NEW h \in Handlers, StmtDone(h)
    PROVE  /\ handler' \in [Handlers -> [calls : Seq(Calls), stmt : Stmts]]
           /\ handler'[h].stmt = NoStmt
           /\ \A g \in Handlers \ {h} : handler'[g] = handler[g]
  BY StmtsMade DEF TypeOK, StmtDone

\* What the status showed is kept of a cook that is retired, and nothing else changes.
LEMMA RetireType ==
    ASSUME TypeOK, Retire
    PROVE  /\ cookID' = NoCook
           /\ last' \in Seq(Record) /\ Len(last') = Len(last)
           /\ \A c \in CookIds : last'[c] = Shown(c)
  BY DEF TypeOK, Retire, Shown, CookIds, NoCook

LEMMA InitType == Init => TypeOK
<1> SUFFICES ASSUME Init PROVE TypeOK
  OBVIOUS
<1>1. status \in Record /\ pending \in [name : Names, meat : Meats]
  BY DefaultType, LabelsBounds DEF Init
<1>2. /\ table \in Seq(Record) /\ Len(table) = 0 /\ Len(table) <= MaxCooks
      /\ last \in Seq(Record) /\ Len(last) = Len(table)
  <2>1. MaxCooks \in Nat
    BY LabelsBounds
  <2>2. table = <<>> /\ last = <<>>
    BY DEF Init
  <2>3. QED BY <2>1, <2>2
<1>3. cookID \in CookIds \cup {NoCook} /\ running \in BOOLEAN
  BY DEF Init
<1>4. Idle \in [calls : Seq(Calls), stmt : Stmts]
  BY <1>3, StmtsMade DEF Idle
<1>5. handler \in [Handlers -> [calls : Seq(Calls), stmt : Stmts]]
  BY <1>4 DEF Init
<1>6. ended \subseteq CookIds /\ unsure \subseteq CookIds \X Labels
  BY DEF Init
<1>7. QED BY <1>1, <1>2, <1>3, <1>5, <1>6 DEF TypeOK

\* What is restored of a row is a record of labels; only the target may differ.
LEMMA RestoredType ==
    ASSUME TypeOK, NEW c \in CookIds
    PROVE  /\ Restored(c) \in Record
           /\ \A l \in {"name", "meat"} : Restored(c)[l] = table[c][l]
<1>1. table[c] \in Record
  BY DEF TypeOK, CookIds
<1>2. QED BY <1>1, LabelsBounds DEF Restored, Record

\* A typed state in which no row has come.
LEMMA SameRowsType ==
    ASSUME TypeOK,
           status' \in Record, pending' \in [name : Names, meat : Meats],
           cookID' \in CookIds \cup {NoCook}, running' \in BOOLEAN,
           table' \in Seq(Record), Len(table') = Len(table),
           ended' \subseteq CookIds,
           handler' \in [Handlers -> [calls : Seq(Calls), stmt : Stmts]],
           unsure' \subseteq CookIds \X Labels,
           last' \in Seq(Record), Len(last') = Len(last)
    PROVE  TypeOK' /\ CookIds' = CookIds
<1>1. CookIds' = CookIds /\ Stmts' = Stmts
  <2>1. Len(table) <= Len(table')
    BY DEF TypeOK
  <2>2. QED BY <2>1, StmtsKept DEF TypeOK
<1>2. QED BY <1>1 DEF TypeOK

LEMMA SetLabelType ==
    ASSUME TypeOK, NEW h \in Handlers, NEW q \in Program(h), SetLabel(h, q)
    PROVE  TypeOK' /\ CookIds' = CookIds
<1> DEFINE l == Head(q).label
           v == Head(q).value
<1>1. l \in Labels /\ v \in Values(l)
  BY ProgramType, CallParts DEF SetLabel
<1>2. status' \in Record
  BY <1>1, SetOneLabel DEF SetLabel, TypeOK
<1>3. pending' \in [name : Names, meat : Meats]
  BY <1>1, ThreeLabels, ValuesAre DEF SetLabel, TypeOK
<1>4. /\ handler' \in [Handlers -> [calls : Seq(Calls), stmt : Stmts]]
      /\ unsure' \subseteq CookIds \X Labels
  <2>1. CASE cookID = NoCook
    <3>1. Called(h, q, NoStmt) /\ unsure' = unsure /\ NoStmt \in Stmts
      BY <2>1, StmtsMade DEF SetLabel, TypeOK
    <3>2. QED BY <3>1, CalledType DEF TypeOK
  <2>2. CASE cookID # NoCook
    <3> DEFINE stmt == [op |-> "update", cook |-> cookID, label |-> l, value |-> v]
    <3>1. cookID \in CookIds /\ stmt \in Stmts
      BY <1>1, <2>2, StmtsMade DEF TypeOK
    <3>2. Called(h, q, stmt) /\ unsure' \subseteq unsure \cup {<<cookID, l>>}
      BY <2>2 DEF SetLabel
    <3>3. handler' \in [Handlers -> [calls : Seq(Calls), stmt : Stmts]]
      BY <3>1, <3>2, CalledType
    <3>4. QED BY <1>1, <3>1, <3>2, <3>3 DEF TypeOK
  <2>3. QED BY <2>1, <2>2
<1>5. UNCHANGED <<cookID, running, table, ended, last>>
  BY DEF SetLabel
<1>6. QED BY <1>2, <1>3, <1>4, <1>5, SameRowsType DEF TypeOK

\* Start, Stop and NewCook: a call that at most retires the cook.
LEMMA RetiringCallType ==
    ASSUME TypeOK, NEW h \in Handlers, NEW q \in Program(h),
           Start(h, q) \/ Stop(h, q) \/ NewCook(h, q)
    PROVE  TypeOK' /\ CookIds' = CookIds
<1>1. \/ Called(h, q, NoStmt) /\ UNCHANGED <<cookID, last>>
      \/ Called(h, q, EndOf(cookID)) /\ Retire
  BY DEF Start, Stop, NewCook
<1>2. handler' \in [Handlers -> [calls : Seq(Calls), stmt : Stmts]]
  BY <1>1, CalledType, StmtsMade DEF TypeOK
<1>3. cookID' \in {cookID, NoCook} /\ last' \in Seq(Record) /\ Len(last') = Len(last)
  BY <1>1, RetireType DEF TypeOK
<1>4. status' \in Record /\ pending' \in [name : Names, meat : Meats]
  <2>1. CASE Start(h, q) \/ Stop(h, q)
    BY <2>1 DEF Start, Stop, TypeOK
  <2>2. CASE NewCook(h, q)
    <3>1. Head(q).name \in Names
      BY <2>2, ProgramType, CallParts DEF NewCook
    <3>2. [status EXCEPT !.name = Head(q).name] \in Record
      BY <3>1 DEF TypeOK, Record
    <3>3. QED BY <2>2, <3>1, <3>2 DEF NewCook, TypeOK
  <2>3. QED BY <2>1, <2>2
<1>5. running' \in BOOLEAN /\ UNCHANGED <<table, ended, unsure>>
  BY DEF Start, Stop, NewCook, TypeOK
<1>6. QED BY <1>2, <1>3, <1>4, <1>5, SameRowsType DEF TypeOK

LEMMA StatementType ==
    ASSUME TypeOK, NEW h \in Handlers, WriteRow(h) \/ WriteFails(h) \/ EndCook(h)
    PROVE  TypeOK' /\ CookIds' = CookIds
<1> DEFINE s == handler[h].stmt
<1>1. s \in Stmts
  BY DEF TypeOK
<1>2. handler' \in [Handlers -> [calls : Seq(Calls), stmt : Stmts]]
  BY StmtDoneType DEF WriteRow, WriteFails, EndCook
<1>3. UNCHANGED <<status, pending, cookID, running, last>>
  BY DEF WriteRow, WriteFails, EndCook
<1>4. CASE WriteRow(h)
  <2>1. s.cook \in CookIds /\ s.label \in Labels /\ s.value \in Values(s.label)
    BY <1>1, <1>4, StmtParts DEF WriteRow
  <2>2. table[s.cook] \in Record
    BY <2>1 DEF TypeOK, CookIds
  <2>3. [table[s.cook] EXCEPT ![s.label] = s.value] \in Record
    BY <2>1, <2>2, SetOneLabel
  <2>4. table' = [table EXCEPT ![s.cook] = [table[s.cook] EXCEPT ![s.label] = s.value]]
    BY <1>4 DEF WriteRow
  <2>5. table' \in Seq(Record) /\ Len(table') = Len(table)
    BY <2>1, <2>3, <2>4, ExceptSeq DEF TypeOK, CookIds
  <2>6. UNCHANGED <<ended, unsure>>
    BY <1>4 DEF WriteRow
  <2>7. QED BY <1>2, <1>3, <2>5, <2>6, SameRowsType DEF TypeOK
<1>5. CASE WriteFails(h)
  <2>1. <<s.cook, s.label>> \in CookIds \X Labels
    BY <1>1, <1>5, StmtParts DEF WriteFails
  <2>2. UNCHANGED <<table, ended>> /\ unsure' = unsure \cup {<<s.cook, s.label>>}
    BY <1>5 DEF WriteFails
  <2>3. QED BY <1>2, <1>3, <2>1, <2>2, SameRowsType DEF TypeOK
<1>6. CASE EndCook(h)
  <2>1. s.cook \in CookIds
    BY <1>1, <1>6, StmtParts DEF EndCook
  <2>2. UNCHANGED <<table, unsure>> /\ ended' = ended \cup {s.cook}
    BY <1>6 DEF EndCook
  <2>3. QED BY <1>2, <1>3, <2>1, <2>2, SameRowsType DEF TypeOK
<1>7. QED BY <1>4, <1>5, <1>6

LEMMA JanitorEndsType ==
    ASSUME TypeOK, JanitorEnds
    PROVE  TypeOK' /\ CookIds' = CookIds
<1>1. cookID' = NoCook /\ last' \in Seq(Record) /\ Len(last') = Len(last)
  BY RetireType DEF JanitorEnds
<1>2. ended' \subseteq CookIds
  BY DEF JanitorEnds, TypeOK
<1>3. UNCHANGED <<status, pending, running, table, handler, unsure>>
  BY DEF JanitorEnds
<1>4. QED BY <1>1, <1>2, <1>3, SameRowsType DEF TypeOK

LEMMA RestartType ==
    ASSUME TypeOK, Restart
    PROVE  TypeOK' /\ CookIds' = CookIds
<1>1. NewestOpen \subseteq CookIds
  BY DEF NewestOpen
<1>2. /\ cookID' \in CookIds \cup {NoCook} /\ ended' \subseteq CookIds
      /\ \E c \in Record, run \in BOOLEAN : Boot(c, run)
  BY <1>1, DefaultType, RestoredType DEF Restart, TypeOK
<1>3. /\ status' \in Record /\ pending' \in [name : Names, meat : Meats]
      /\ running' \in BOOLEAN
  <2>1. PICK c \in Record : status' = c /\ pending' = [name |-> c.name, meat |-> c.meat]
                            /\ running' \in BOOLEAN
    BY <1>2 DEF Boot
  <2>2. c.name \in Names /\ c.meat \in Meats
    BY DEF Record
  <2>3. QED BY <2>1, <2>2
<1>4. handler' \in [Handlers -> [calls : Seq(Calls), stmt : Stmts]]
  <2>1. Idle \in [calls : Seq(Calls), stmt : Stmts]
    BY StmtsMade DEF Idle, TypeOK
  <2>2. QED BY <2>1 DEF Restart
<1>5. last' \in Seq(Record) /\ Len(last') = Len(last)
  <2>1. \A c \in CookIds : (IF c = cookID' THEN Default
                            ELSE IF c = cookID THEN status ELSE last[c]) \in Record
    BY DefaultType DEF TypeOK, CookIds
  <2>2. last' \in [1 .. Len(table) -> Record] /\ Len(table) \in Nat
    BY <2>1 DEF Restart, CookIds, TypeOK
  <2>3. QED BY <2>2 DEF TypeOK
<1>6. unsure' \subseteq CookIds \X Labels
  <2>1. Unwritten \subseteq CookIds \X Labels /\ "target" \in Labels
    BY ThreeLabels DEF Unwritten
  <2>2. \A u \in {cookID'} \X {"target"} : u[1] # NoCook => u \in CookIds \X Labels
    BY <1>2, <2>1
  <2>3. QED BY <2>1, <2>2 DEF Restart, TypeOK
<1>7. UNCHANGED table
  BY DEF Restart
<1>8. QED BY <1>2, <1>3, <1>4, <1>5, <1>6, <1>7, SameRowsType DEF TypeOK

\* The row that is opened has the pending labels, and nothing is left to be written
\* to it.
LEMMA OpenType ==
    ASSUME TypeOK, Open
    PROVE  /\ TypeOK'
           /\ cookID' = Len(table) + 1 /\ CookIds' = CookIds \cup {cookID'}
           /\ cookID' \notin CookIds
           /\ \A c \in CookIds : table'[c] = table[c] /\ last'[c] = last[c]
           /\ table'[cookID'] = [name |-> pending.name, meat |-> pending.meat,
                                 target |-> status.target]
<1> DEFINE new == [name |-> pending.name, meat |-> pending.meat, target |-> status.target]
<1>1. /\ pending.name \in Names /\ pending.meat \in Meats
      /\ status.name \in Names /\ status.meat \in Meats
      /\ status.target \in Accepted \cup {DefaultTarget}
  BY DEF TypeOK, Record
<1>2. new \in Record /\ status' \in Record
  BY <1>1 DEF Open, Record
<1>3. table' = Append(table, new) /\ last' = Append(last, Default)
  BY DEF Open
<1>4. table \in Seq(Record) /\ last \in Seq(Record) /\ Len(last) = Len(table)
  BY DEF TypeOK
<1>5. /\ table' \in Seq(Record) /\ Len(table') = Len(table) + 1
      /\ \A c \in 1 .. Len(table) : table'[c] = table[c]
      /\ table'[Len(table) + 1] = new
  <2> HIDE DEF new
  <2>1. QED BY <1>2, <1>3, <1>4, AppendProperties
<1>6. /\ last' \in Seq(Record) /\ Len(last') = Len(last) + 1
      /\ \A c \in 1 .. Len(last) : last'[c] = last[c]
  BY <1>3, <1>4, DefaultType, AppendProperties
<1>7. /\ cookID' = Len(table) + 1 /\ CookIds' = CookIds \cup {cookID'}
      /\ cookID' \notin CookIds
  <2>1. cookID' = Len(table) + 1
    BY DEF Open
  <2>2. Len(table) \in Nat
    BY <1>4
  <2>3. 1 .. Len(table') = 1 .. Len(table) \cup {Len(table) + 1}
    BY <1>5, <2>2
  <2>4. QED BY <2>1, <2>2, <2>3 DEF CookIds
<1>8. Len(table') <= MaxCooks
  <2>1. Len(table) < MaxCooks
    BY DEF Open
  <2>2. MaxCooks \in Nat
    BY LabelsBounds
  <2>3. Len(table) \in Nat
    BY <1>4
  <2>4. QED BY <1>5, <2>1, <2>2, <2>3
<1>9. /\ handler' \in [Handlers -> [calls : Seq(Calls), stmt : Stmts']]
      /\ ended' \subseteq CookIds' /\ unsure' \subseteq CookIds' \X Labels
  <2>1. Stmts \subseteq Stmts' /\ CookIds \subseteq CookIds'
    BY <1>4, <1>5, StmtsKept
  <2>2. UNCHANGED <<ended, handler, unsure>>
    BY DEF Open
  <2>3. QED BY <2>1, <2>2 DEF TypeOK
<1>10. UNCHANGED <<pending, running>>
  BY DEF Open
<1>11. TypeOK'
  BY <1>2, <1>4, <1>5, <1>6, <1>7, <1>8, <1>9, <1>10 DEF TypeOK
<1>12. QED BY <1>4, <1>5, <1>6, <1>7, <1>11 DEF CookIds

LEMMA NextType == TypeOK /\ [Next]_vars => TypeOK'
<1> SUFFICES ASSUME TypeOK, [Next]_vars PROVE TypeOK'
  OBVIOUS
<1>1. ASSUME NEW h \in Handlers, NEW q \in Program(h),
             SetLabel(h, q) \/ Start(h, q) \/ Stop(h, q) \/ NewCook(h, q)
      PROVE  TypeOK'
  BY <1>1, SetLabelType, RetiringCallType
<1>2. ASSUME NEW h \in Handlers, WriteRow(h) \/ WriteFails(h) \/ EndCook(h)
      PROVE  TypeOK'
  BY <1>2, StatementType
<1>3. CASE UNCHANGED vars
  BY <1>3, SameRowsType DEF vars, TypeOK
<1>4. QED BY <1>1, <1>2, <1>3, OpenType, JanitorEndsType, RestartType DEF Next

\* Every reachable state is well typed: no statement is for a row that is not there,
\* and no target outside the range the API accepts is shown, kept or written.
THEOREM TypeCorrect == Spec => []TypeOK
<1>1. Init => TypeOK
  BY InitType
<1>2. TypeOK /\ [Next]_vars => TypeOK'
  BY NextType
<1>3. QED BY <1>1, <1>2, PTL DEF Spec

(***************************************************************************)
(* The labels of the next cook are those the status shows                  *)
(***************************************************************************)

LEMMA PendingNext == TypeOK /\ PendingIsShown /\ [Next]_vars => PendingIsShown'
<1> SUFFICES ASSUME TypeOK, PendingIsShown, [Next]_vars PROVE PendingIsShown'
  OBVIOUS
<1> USE DEF PendingIsShown
<1>1. ASSUME NEW h \in Handlers, NEW q \in Program(h), SetLabel(h, q)
      PROVE  PendingIsShown'
  <2>1. Head(q).label \in Labels
    BY <1>1, ProgramType, CallParts DEF SetLabel
  <2>2. QED BY <1>1, <2>1, ThreeLabels DEF SetLabel, TypeOK, Record
<1>2. ASSUME NEW h \in Handlers, NEW q \in Program(h),
             Start(h, q) \/ Stop(h, q) \/ NewCook(h, q)
      PROVE  PendingIsShown'
  BY <1>2 DEF Start, Stop, NewCook, TypeOK, Record
<1>3. ASSUME NEW h \in Handlers, WriteRow(h) \/ WriteFails(h) \/ EndCook(h)
      PROVE  PendingIsShown'
  BY <1>3 DEF WriteRow, WriteFails, EndCook
<1>4. CASE Open
  BY <1>4 DEF Open
<1>5. CASE Restart
  BY <1>5 DEF Restart, Boot
<1>6. CASE JanitorEnds \/ UNCHANGED vars
  BY <1>6 DEF JanitorEnds, vars
<1>7. QED BY <1>1, <1>2, <1>3, <1>4, <1>5, <1>6 DEF Next

\* What the status shows between two cooks is what the next one is opened with,
\* whatever requests and restarts came before.
THEOREM NextCookIsShown == Spec => []PendingIsShown
<1>1. Init => PendingIsShown
  <2>1. Init => status = Default /\ pending = [name |-> "", meat |-> ""]
    BY DEF Init
  <2>2. ASSUME NEW e, NEW t, status = [name |-> e, meat |-> e, target |-> t],
               pending = [name |-> e, meat |-> e]
        PROVE  PendingIsShown
    BY <2>2 DEF PendingIsShown
  <2>3. QED BY <2>1, <2>2 DEF Default
<1>2. TypeOK /\ PendingIsShown /\ [Next]_vars => PendingIsShown'
  BY PendingNext
<1>3. QED BY <1>1, <1>2, TypeCorrect, PTL DEF Spec

(***************************************************************************)
(* A row says what the status says, once its statements have run           *)
(***************************************************************************)

\* Label l of the row of c, unless overlapping or failed writes have left it unsure:
\* one handler at most has still to write it, what it will write is what is shown,
\* and when there is none the row says so already.
PairInv(c, l) ==
    <<c, l>> \notin unsure =>
        /\ \A g, h \in Handlers : Writing(g, c, l) /\ Writing(h, c, l) => g = h
        /\ \A h \in Handlers : Writing(h, c, l) => handler[h].stmt.value = Shown(c)[l]
        /\ (\A h \in Handlers : ~Writing(h, c, l)) => table[c][l] = Shown(c)[l]

RowInv == \A c \in CookIds : \A l \in Labels : PairInv(c, l)

\* A label that no step touches, written by the handlers that wrote it before.
LEMMA PairKept ==
    ASSUME NEW c, NEW l, PairInv(c, l),
           \A h \in Handlers : Writing(h, c, l)' <=> Writing(h, c, l),
           \A h \in Handlers : Writing(h, c, l) => handler'[h].stmt = handler[h].stmt,
           <<c, l>> \in unsure => <<c, l>> \in unsure',
           table'[c][l] = table[c][l], Shown(c)'[l] = Shown(c)[l]
    PROVE  PairInv(c, l)'
  BY DEF PairInv

\* A handler that has no label to write, before the step or after it.
LEMMA NotWriting ==
    ASSUME TypeOK, NEW h \in Handlers, handler[h].stmt.op # "update",
           handler'[h].stmt.op # "update",
           \A g \in Handlers \ {h} : handler'[g] = handler[g],
           NEW c, NEW l
    PROVE  /\ \A g \in Handlers : Writing(g, c, l)' <=> Writing(g, c, l)
           /\ \A g \in Handlers : Writing(g, c, l) => handler'[g].stmt = handler[g].stmt
  BY DEF Writing

\* A label is set: the row of the current cook has one more write to come.
LEMMA SetLabelRow ==
    ASSUME TypeOK, RowInv, NEW h \in Handlers, NEW q \in Program(h), SetLabel(h, q)
    PROVE  RowInv'
<1> DEFINE k == Head(q).label
           v == Head(q).value
           stmt == [op |-> "update", cook |-> cookID, label |-> k, value |-> v]
<1>1. k \in Labels /\ v \in Values(k) /\ handler[h].stmt = NoStmt /\ NoStmt.op # "update"
  BY ProgramType, CallParts DEF SetLabel, NoStmt
<1>2. /\ CookIds' = CookIds /\ UNCHANGED <<cookID, table, last>>
      /\ status'[k] = v /\ \A l \in Labels \ {k} : status'[l] = status[l]
  <2>1. CookIds' = CookIds
    BY SetLabelType
  <2>2. UNCHANGED <<cookID, table, last>> /\ status' = [status EXCEPT ![k] = v]
    BY DEF SetLabel
  <2>3. status \in Record
    BY DEF TypeOK
  <2>4. QED BY <1>1, <2>1, <2>2, <2>3, SetOneLabel
<1> SUFFICES ASSUME NEW c \in CookIds, NEW l \in Labels
             PROVE  PairInv(c, l)'
  BY <1>2 DEF RowInv
<1>3. PairInv(c, l)
  BY DEF RowInv
<1>4. CASE cookID = NoCook
  <2>1. Called(h, q, NoStmt) /\ unsure' = unsure /\ NoStmt \in Stmts
    BY <1>4, StmtsMade DEF SetLabel, TypeOK
  <2>2. handler'[h].stmt = NoStmt /\ \A g \in Handlers \ {h} : handler'[g] = handler[g]
    BY <2>1, CalledType
  <2>3. c # cookID /\ Shown(c)' = Shown(c)
    BY <1>2, <1>4 DEF Shown, CookIds, NoCook
  <2>4. QED BY <1>1, <1>2, <1>3, <2>1, <2>2, <2>3, NotWriting, PairKept
<1>5. CASE cookID # NoCook
  <2>1. cookID \in CookIds /\ stmt \in Stmts /\ Called(h, q, stmt)
    BY <1>1, <1>5, StmtsMade DEF SetLabel, TypeOK
  <2>2. handler'[h].stmt = stmt /\ \A g \in Handlers \ {h} : handler'[g] = handler[g]
    BY <2>1, CalledType
  <2>3. unsure' = IF Races(h, cookID, k) THEN unsure \cup {<<cookID, k>>}
                  ELSE unsure \ {<<cookID, k>>}
    BY <1>5 DEF SetLabel
  <2>4. /\ ~Writing(h, c, l)
        /\ Writing(h, c, l)' <=> (c = cookID /\ l = k)
        /\ \A g \in Handlers \ {h} : Writing(g, c, l)' <=> Writing(g, c, l)
    BY <1>1, <2>2 DEF Writing
  <2>5. CASE c = cookID /\ l = k
    <3>1. CASE Races(h, cookID, k)
      BY <2>3, <2>5, <3>1 DEF PairInv
    <3>2. CASE ~Races(h, cookID, k)
      <4>1. \A g \in Handlers \ {h} : ~Writing(g, c, l)'
        BY <2>4, <2>5, <3>2 DEF Races
      <4>2. handler'[h].stmt.value = v /\ Shown(c)'[l] = v
        BY <1>2, <2>2, <2>5 DEF Shown
      <4>3. QED BY <2>4, <2>5, <4>1, <4>2 DEF PairInv
    <3>3. QED BY <3>1, <3>2
  <2>6. CASE ~(c = cookID /\ l = k)
    <3>1. Shown(c)'[l] = Shown(c)[l]
      BY <1>2, <2>6 DEF Shown
    <3>2. <<c, l>> \in unsure => <<c, l>> \in unsure'
      BY <2>3, <2>6
    <3>3. QED BY <1>2, <1>3, <2>2, <2>4, <2>6, <3>1, <3>2, PairKept
  <2>7. QED BY <2>5, <2>6
<1>6. QED BY <1>4, <1>5

\* Start, Stop and NewCook: what was shown of the cook they retire is remembered.
LEMMA RetiringCallRow ==
    ASSUME TypeOK, RowInv, NEW h \in Handlers, NEW q \in Program(h),
           Start(h, q) \/ Stop(h, q) \/ NewCook(h, q)
    PROVE  RowInv'
<1>1. \/ Called(h, q, NoStmt) /\ UNCHANGED <<cookID, last, status>>
      \/ Called(h, q, EndOf(cookID)) /\ Retire
  BY DEF Start, Stop, NewCook
<1>2. UNCHANGED <<table, unsure>> /\ CookIds' = CookIds
  BY RetiringCallType DEF Start, Stop, NewCook
<1>3. /\ handler[h].stmt.op # "update" /\ handler'[h].stmt.op # "update"
      /\ \A g \in Handlers \ {h} : handler'[g] = handler[g]
  <2>1. handler[h].stmt = NoStmt
    BY ProgramType
  <2>2. handler'[h].stmt \in {NoStmt, EndOf(cookID)}
    BY <1>1, CalledType, StmtsMade DEF TypeOK
  <2>3. \A g \in Handlers \ {h} : handler'[g] = handler[g]
    BY <1>1, CalledType, StmtsMade DEF TypeOK
  <2>4. NoStmt.op # "update" /\ EndOf(cookID).op # "update"
    BY StmtsMade DEF TypeOK
  <2>5. QED BY <2>1, <2>2, <2>3, <2>4
<1>4. ASSUME NEW c \in CookIds PROVE Shown(c)' = Shown(c)
  <2>1. CASE UNCHANGED <<cookID, last, status>>
    BY <2>1 DEF Shown
  <2>2. CASE Retire
    BY <2>2, RetireType DEF Shown, CookIds, NoCook
  <2>3. QED BY <1>1, <2>1, <2>2
<1>5. ASSUME NEW c \in CookIds, NEW l \in Labels PROVE PairInv(c, l)'
  <2>1. PairInv(c, l)
    BY DEF RowInv
  <2>2. QED BY <1>2, <1>3, <1>4, <2>1, NotWriting, PairKept
<1>6. QED BY <1>2, <1>5 DEF RowInv

\* A statement writes what is shown, or leaves the label unsure.
LEMMA StatementRow ==
    ASSUME TypeOK, RowInv, NEW h \in Handlers,
           WriteRow(h) \/ WriteFails(h) \/ EndCook(h)
    PROVE  RowInv'
<1> DEFINE s == handler[h].stmt
<1>1. /\ CookIds' = CookIds /\ UNCHANGED <<status, cookID, last>>
      /\ handler'[h].stmt = NoStmt /\ NoStmt.op # "update"
      /\ \A g \in Handlers \ {h} : handler'[g] = handler[g]
  BY StatementType, StmtDoneType DEF WriteRow, WriteFails, EndCook, NoStmt
<1>2. s \in Stmts
  BY DEF TypeOK
<1> SUFFICES ASSUME NEW c \in CookIds, NEW l \in Labels
             PROVE  PairInv(c, l)'
  BY <1>1 DEF RowInv
<1>3. PairInv(c, l) /\ Shown(c)' = Shown(c)
  BY <1>1 DEF RowInv, Shown
<1>4. /\ ~Writing(h, c, l)'
      /\ \A g \in Handlers \ {h} : Writing(g, c, l)' <=> Writing(g, c, l)
  BY <1>1 DEF Writing
<1>5. CASE EndCook(h)
  <2>1. s.op # "update" /\ UNCHANGED <<table, unsure>>
    BY <1>5 DEF EndCook
  <2>2. QED BY <1>1, <1>3, <2>1, NotWriting, PairKept
<1>6. CASE WriteFails(h)
  <2>1. UNCHANGED table /\ unsure' = unsure \cup {<<s.cook, s.label>>} /\ s.op = "update"
    BY <1>6 DEF WriteFails
  <2>2. CASE <<c, l>> = <<s.cook, s.label>>
    BY <2>1, <2>2 DEF PairInv
  <2>3. CASE <<c, l>> # <<s.cook, s.label>>
    <3>1. ~Writing(h, c, l)
      BY <2>3 DEF Writing
    <3>2. QED BY <1>1, <1>3, <1>4, <2>1, <3>1, PairKept
  <2>4. QED BY <2>2, <2>3
<1>7. CASE WriteRow(h)
  <2>1. s.op = "update" /\ unsure' = unsure
    BY <1>7 DEF WriteRow
  <2>2. s.cook \in CookIds /\ s.label \in Labels /\ s.value \in Values(s.label)
    BY <1>2, <2>1, StmtParts
  <2>3. table[c] \in Record /\ table[s.cook] \in Record
    BY <2>2 DEF TypeOK, CookIds
  <2>4. table'[c] = IF c = s.cook THEN [table[c] EXCEPT ![s.label] = s.value] ELSE table[c]
    <3>1. table' = [table EXCEPT ![s.cook] = [table[s.cook] EXCEPT ![s.label] = s.value]]
      BY <1>7 DEF WriteRow
    <3>2. c \in DOMAIN table /\ s.cook \in DOMAIN table
      BY <2>2 DEF TypeOK, CookIds
    <3>3. QED BY <3>1, <3>2
  <2>5. CASE c = s.cook /\ l = s.label
    <3>1. Writing(h, c, l) /\ table'[c][l] = s.value
      BY <2>1, <2>2, <2>3, <2>4, <2>5, SetOneLabel DEF Writing
    <3>2. QED BY <1>3, <1>4, <2>1, <3>1 DEF PairInv
  <2>6. CASE ~(c = s.cook /\ l = s.label)
    <3>1. ~Writing(h, c, l)
      BY <2>6 DEF Writing
    <3>2. table'[c][l] = table[c][l]
      BY <2>2, <2>3, <2>4, <2>6, SetOneLabel
    <3>3. QED BY <1>1, <1>3, <1>4, <2>1, <3>1, <3>2, PairKept
  <2>7. QED BY <2>5, <2>6
<1>8. QED BY <1>5, <1>6, <1>7

\* The row of a cook that begins has the labels that are shown, for it was pending
\* what was shown before.
LEMMA OpenRow ==
    ASSUME TypeOK, PendingIsShown, RowInv, Open
    PROVE  RowInv'
<1>1. UNCHANGED <<handler, unsure>> /\ cookID = NoCook
  BY DEF Open
<1>2. ASSUME NEW c \in CookIds, NEW l \in Labels PROVE PairInv(c, l)'
  <2>1. table'[c] = table[c] /\ last'[c] = last[c] /\ c # cookID' /\ c # cookID
    BY <1>1, OpenType DEF CookIds, NoCook
  <2>2. Shown(c)' = Shown(c)
    BY <2>1 DEF Shown
  <2>3. PairInv(c, l)
    BY DEF RowInv
  <2>4. QED BY <1>1, <2>1, <2>2, <2>3, PairKept DEF Writing
<1>3. ASSUME NEW c, c = cookID', NEW l \in Labels PROVE PairInv(c, l)'
  <2>1. ASSUME NEW h \in Handlers PROVE ~Writing(h, c, l)'
    <3>1. handler[h].stmt \in Stmts /\ c \notin CookIds
      BY <1>3, OpenType DEF TypeOK
    <3>2. ~Writing(h, c, l)
      BY <3>1, StmtParts DEF Writing
    <3>3. QED BY <1>1, <3>2 DEF Writing
  <2>2. /\ status'["name"] = pending.name /\ status'["meat"] = pending.meat
        /\ status'["target"] = status.target
    BY DEF Open, PendingIsShown
  <2>3. /\ table'[c]["name"] = pending.name /\ table'[c]["meat"] = pending.meat
        /\ table'[c]["target"] = status.target
    BY <1>3, OpenType
  <2>4. table'[c][l] = status'[l]
    BY <2>2, <2>3, ThreeLabels
  <2>5. Shown(c)' = status'
    BY <1>3 DEF Shown
  <2>6. QED BY <2>1, <2>4, <2>5 DEF PairInv
<1>4. QED BY <1>2, <1>3, OpenType DEF RowInv

LEMMA JanitorEndsRow ==
    ASSUME TypeOK, RowInv, JanitorEnds
    PROVE  RowInv'
<1>1. UNCHANGED <<table, handler, unsure>> /\ CookIds' = CookIds
  BY JanitorEndsType DEF JanitorEnds
<1>2. \A c \in CookIds : Shown(c)' = Shown(c)
  BY RetireType DEF JanitorEnds, Shown, CookIds, NoCook
<1>3. ASSUME NEW c \in CookIds, NEW l \in Labels PROVE PairInv(c, l)'
  <2>1. PairInv(c, l)
    BY DEF RowInv
  <2>2. QED BY <1>1, <1>2, <2>1, PairKept DEF Writing
<1>4. QED BY <1>1, <1>3 DEF RowInv

\* A restart shows what it restored, and loses the writes under way, whose labels
\* are unsure from then on; it writes nothing itself.
LEMMA RestartRow ==
    ASSUME TypeOK, RowInv, Restart
    PROVE  RowInv'
<1>1. CookIds' = CookIds /\ UNCHANGED table
  BY RestartType DEF Restart
<1>2. unsure' = {u \in unsure \cup Unwritten : u[1] # cookID'}
                \cup {u \in {cookID'} \X {"target"} :
                        u[1] # NoCook /\ status'.target # table[u[1]].target}
  BY DEF Restart
<1> SUFFICES ASSUME NEW c \in CookIds, NEW l \in Labels, <<c, l>> \notin unsure'
             PROVE  table'[c][l] = Shown(c)'[l]
  <2>1. ASSUME NEW h \in Handlers, NEW c, NEW l PROVE ~Writing(h, c, l)'
    BY DEF Restart, Writing, Idle, NoStmt
  <2>2. QED BY <1>1, <2>1 DEF RowInv, PairInv
<1>3. CASE c = cookID'
  <2>1. /\ c # NoCook /\ c \in CookIds
        /\ cookID' # NoCook => status' = Restored(cookID')
    BY <1>3 DEF CookIds, NoCook, Restart, Boot
  <2>2. status' = Restored(c) /\ Shown(c)' = status'
    BY <1>3, <2>1 DEF Shown
  <2>3. CASE l \in {"name", "meat"}
    BY <1>1, <2>2, <2>3, RestoredType
  <2>4. CASE l = "target"
    <3>1. <<c, l>>[1] = c /\ <<c, l>> \in {cookID'} \X {"target"}
      BY <1>3, <2>4
    <3>2. status'.target = table[c].target
      BY <1>2, <2>1, <3>1
    <3>3. QED BY <1>1, <2>2, <2>4, <3>2
  <2>5. QED BY <2>3, <2>4, ThreeLabels
<1>4. CASE c # cookID'
  <2>1. <<c, l>> \notin unsure /\ <<c, l>> \notin Unwritten
    BY <1>2, <1>4
  <2>2. \A h \in Handlers : ~Writing(h, c, l)
    BY <2>1 DEF Unwritten
  <2>3. table[c][l] = Shown(c)[l]
    BY <2>1, <2>2 DEF RowInv, PairInv
  <2>4. last'[c] = Shown(c)
    BY <1>4 DEF Restart, Shown
  <2>5. Shown(c)' = last'[c]
    BY <1>4 DEF Shown
  <2>6. QED BY <1>1, <2>3, <2>4, <2>5
<1>5. QED BY <1>3, <1>4

LEMMA RowNext ==
    ASSUME TypeOK, PendingIsShown, RowInv, [Next]_vars
    PROVE  RowInv'
<1>1. ASSUME NEW h \in Handlers, NEW q \in Program(h),
             SetLabel(h, q) \/ Start(h, q) \/ Stop(h, q) \/ NewCook(h, q)
      PROVE  RowInv'
  BY <1>1, SetLabelRow, RetiringCallRow
<1>2. ASSUME NEW h \in Handlers, WriteRow(h) \/ WriteFails(h) \/ EndCook(h)
      PROVE  RowInv'
  BY <1>2, StatementRow
<1>3. CASE UNCHANGED vars
  <2>1. UNCHANGED <<table, handler, unsure, status, cookID, last>>
    BY <1>3 DEF vars
  <2>2. CookIds' = CookIds
    BY <2>1 DEF CookIds
  <2>3. ASSUME NEW c \in CookIds, NEW l \in Labels PROVE PairInv(c, l)'
    BY <2>1 DEF RowInv, PairInv, Writing, Shown
  <2>4. QED BY <2>2, <2>3 DEF RowInv
<1>4. QED BY <1>1, <1>2, <1>3, OpenRow, JanitorEndsRow, RestartRow DEF Next

\* The row of every cook, past or current, says what the status said of it, each
\* label as soon as its own statement has run, whatever requests, readings, the
\* janitor and restarts came in between; overlapping and failed writes of that very
\* label are excepted.
THEOREM RowsFollowMemory == Spec => []RowFollowsMemory
<1>1. Init => RowInv
  <2>1. Init => table = <<>>
    BY DEF Init
  <2>2. table = <<>> => CookIds = {}
    BY DEF CookIds
  <2>3. QED BY <2>1, <2>2 DEF RowInv
<1>2. TypeOK /\ PendingIsShown /\ RowInv /\ [Next]_vars => RowInv'
  BY RowNext
<1>3. RowInv => RowFollowsMemory
  <2>1. ASSUME RowInv, NEW c \in CookIds, NEW l \in Labels,
               <<c, l>> \notin unsure \cup Unwritten
        PROVE  table[c][l] = Shown(c)[l]
    <3>1. \A h \in Handlers : ~Writing(h, c, l)
      BY <2>1 DEF Unwritten
    <3>2. QED BY <2>1, <3>1 DEF RowInv, PairInv
  <2>2. QED BY <2>1 DEF RowFollowsMemory
<1>4. QED BY <1>1, <1>2, <1>3, TypeCorrect, NextCookIsShown, PTL DEF Spec
=============================================================================
