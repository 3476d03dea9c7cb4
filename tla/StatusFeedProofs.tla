-------------------------- MODULE StatusFeedProofs --------------------------
(***************************************************************************)
(* Theorems about StatusFeed, for every number of writers and streams and  *)
(* every capacity of the channels.                                         *)
(***************************************************************************)
EXTENDS StatusFeed, SequenceTheorems, TLAPS

USE CapacityPos, MaxChangesNat

\* The newer of two versions is a version.
LEMMA NewestType ==
    ASSUME NEW a \in Versions, NEW b \in Versions
    PROVE  Newest(a, b) \in Versions /\ Newest(a, b) >= a /\ Newest(a, b) >= b
  BY DEF Newest, Versions

LEMMA FeedInitInv == Init => TypeOK /\ FeedInv
<1> SUFFICES ASSUME Init PROVE TypeOK /\ FeedInv
  OBVIOUS
<1>1. <<>> \in Seq(Versions) /\ Len(<<>>) = 0 /\ 0 \in Versions
  BY DEF Versions
<1>2. TypeOK
  BY <1>1 DEF Init, TypeOK, Tasks, NoTask
<1>3. FeedInv
  BY <1>1 DEF Init, FeedInv, SendsToOpenChannels, Registered, NoneFromTheFuture,
     NewestAccountedFor, NoTask
<1>4. QED BY <1>2, <1>3

(***************************************************************************)
(* Type correctness, one step per action                                   *)
(***************************************************************************)

LEMMA WriterType ==
    ASSUME TypeOK, NEW w \in Writers, Writer(w)
    PROVE  TypeOK'
<1> USE DEF TypeOK, Tasks, Versions, streamVars
<1>1. CASE Change(w)
  BY <1>1 DEF Change
<1>2. CASE Record(w)
  <2>1. [task[w] EXCEPT !.pc = "snap"] \in Tasks
    OBVIOUS
  <2>2. task' \in [Writers -> Tasks]
    BY <1>2, <2>1 DEF Record
  <2> HIDE DEF Tasks
  <2>3. QED BY <1>2, <2>2 DEF Record
<1>3. CASE Snapshot(w)
  BY <1>3 DEF Snapshot
<1>4. CASE Broadcast(w)
  BY <1>4 DEF Broadcast
<1>5. ASSUME NEW s \in Streams, Send(w, s)
      PROVE  TypeOK'
  <2>1. task' \in [Writers -> Tasks]
    BY <1>5 DEF Send, Served
  <2>2. CASE Len(chan[s]) < Capacity
    <3>1. Append(chan[s], task[w].snap) \in Seq(Versions)
      OBVIOUS
    <3>2. Len(Append(chan[s], task[w].snap)) = Len(chan[s]) + 1
      OBVIOUS
    <3>3. chan' = [chan EXCEPT ![s] = Append(@, task[w].snap)] /\ lost' = lost
      BY <1>5, <2>2 DEF Send
    <3>4. QED BY <1>5, <2>1, <2>2, <3>1, <3>2, <3>3 DEF Send
  <2>3. CASE Len(chan[s]) = Capacity
    <3>1. lost' = [lost EXCEPT ![s] = Newest(@, task[w].snap)] /\ chan' = chan
      BY <1>5, <2>3 DEF Send
    <3>2. lost[s] \in Versions /\ task[w].snap \in Versions
      OBVIOUS
    <3>3. Newest(lost[s], task[w].snap) \in Versions
      BY <3>2, NewestType
    <3>4. QED BY <1>5, <2>1, <3>1, <3>3 DEF Send
  <2>4. QED BY <1>5, <2>2, <2>3 DEF Send
<1>6. CASE BroadcastEnds(w)
  BY <1>6 DEF BroadcastEnds, NoTask
<1>7. QED BY <1>1, <1>2, <1>3, <1>4, <1>5, <1>6 DEF Writer

LEMMA StreamType ==
    ASSUME TypeOK, NEW s \in Streams, Stream(s)
    PROVE  TypeOK'
<1> USE DEF TypeOK, taskVars
<1>1. CASE Subscribe(s)
  <2>1. <<>> \in Seq(Versions) /\ Len(<<>>) = 0 /\ 0 \in Versions
    BY DEF Versions
  <2>2. QED BY <1>1, <2>1 DEF Subscribe
<1>2. CASE FirstStatus(s)
  BY <1>2 DEF FirstStatus
<1>3. CASE Receive(s)
  <2>1. /\ Head(chan[s]) \in Versions /\ Tail(chan[s]) \in Seq(Versions)
        /\ Len(Tail(chan[s])) = Len(chan[s]) - 1
    BY <1>3 DEF Receive
  <2>2. Newest(seen[s], Head(chan[s])) \in Versions
    BY <2>1, NewestType
  <2>3. QED BY <1>3, <2>1, <2>2 DEF Receive
<1>4. CASE Hangup(s) \/ Cancel(s)
  BY <1>4 DEF Hangup, Cancel
<1>5. QED BY <1>1, <1>2, <1>3, <1>4 DEF Stream

(***************************************************************************)
(* The inductive invariant                                                 *)
(***************************************************************************)

\* A change makes its writer owe everybody the new version.
LEMMA ChangeInv ==
    ASSUME TypeOK, FeedInv, NEW w \in Writers, Change(w) \/ Record(w)
    PROVE  FeedInv'
<1> USE DEF FeedInv, TypeOK, Tasks, Versions, streamVars, Change, Record
<1>1. /\ \A v \in Writers : v # w => task'[v] = task[v]
      /\ (task'[w].pc = "ready" /\ task'[w].snap = version') \/ task'[w].pc = "snap"
      /\ task'[w].snap \in {task[w].snap, version'}
  <2>1. task[w] \in Tasks
    OBVIOUS
  <2>2. CASE Change(w)
    BY <2>2
  <2>3. CASE Record(w)
    BY <2>1, <2>3
  <2>4. QED BY <2>2, <2>3
<1>2. SendsToOpenChannels'
  BY <1>1 DEF SendsToOpenChannels
<1>3. Registered'
  BY DEF Registered
<1>4. NoneFromTheFuture'
  <2>1. /\ version \in Nat /\ version' = version + 1
        /\ UNCHANGED <<chan, seen, lost>>
    OBVIOUS
  <2>2. ASSUME NEW v \in Writers PROVE task'[v].snap <= version'
    <3>1. task[v].snap \in Nat /\ task[v].snap <= version
      BY DEF NoneFromTheFuture
    <3>2. task'[v].snap \in {task[v].snap, version'}
      BY <1>1
    <3>3. QED BY <2>1, <3>1, <3>2
  <2>3. ASSUME NEW s \in Streams
        PROVE  /\ seen[s] <= version + 1 /\ lost[s] <= version + 1
               /\ \A i \in DOMAIN chan[s] : chan[s][i] <= version + 1
    BY <2>1 DEF NoneFromTheFuture
  <2>4. QED BY <2>1, <2>2, <2>3 DEF NoneFromTheFuture
<1>5. \A s \in Streams : Owes(w, s)'
  BY <1>1 DEF Owes
<1>6. NewestAccountedFor'
  BY <1>5 DEF NewestAccountedFor
<1>7. QED BY <1>2, <1>3, <1>4, <1>6

\* A snapshot taken and a broadcast begun still owe what was owed.
LEMMA ForwardInv ==
    ASSUME TypeOK, FeedInv, NEW w \in Writers,
           Snapshot(w) \/ Broadcast(w) \/ BroadcastEnds(w)
    PROVE  FeedInv'
<1> USE DEF FeedInv, TypeOK, Tasks, Versions, streamVars, Snapshot, Broadcast,
            BroadcastEnds, NoTask
<1> task[w] \in Tasks
  OBVIOUS
<1>1. /\ \A v \in Writers : v # w => task'[v] = task[v]
      /\ task'[w].pc = "sending" => task'[w].todo = subs
      /\ task'[w].snap \in {task[w].snap, version, 0}
      /\ UNCHANGED <<version, subs, chan, seen, lost>>
  OBVIOUS
<1>2. SendsToOpenChannels'
  BY <1>1 DEF SendsToOpenChannels
<1>3. Registered'
  BY DEF Registered
<1>4. NoneFromTheFuture'
  <2>1. ASSUME NEW v \in Writers PROVE task'[v].snap <= version
    <3>1. task'[v].snap = task[v].snap \/ task'[v].snap = version \/ task'[v].snap = 0
      BY <1>1
    <3>2. task[v].snap <= version /\ version \in Nat
      BY DEF NoneFromTheFuture
    <3>3. version <= version /\ 0 <= version
      BY <3>2
    <3>4. QED BY <3>1, <3>2, <3>3
  <2>2. QED BY <1>1, <2>1 DEF NoneFromTheFuture
<1>5. ASSUME NEW s \in Streams, pc[s] = "live", NEW v \in Writers, Owes(v, s)
      PROVE  Owes(v, s)'
  <2>1. s \in subs
    BY <1>5 DEF Registered
  <2>2. CASE v = w
    BY <1>5, <2>1, <2>2 DEF Owes
  <2>3. CASE v # w
    BY <1>5, <2>3 DEF Owes
  <2>4. QED BY <2>2, <2>3
<1>6. UNCHANGED <<version, pc, seen, lost, chan>>
  OBVIOUS
<1>7. NewestAccountedFor'
  BY <1>5, <1>6 DEF NewestAccountedFor
<1>8. QED BY <1>2, <1>3, <1>4, <1>7

\* A send puts the status in the channel, or on record as turned away.
LEMMA SendInv ==
    ASSUME TypeOK, FeedInv, NEW w \in Writers, NEW s \in Streams, Send(w, s)
    PROVE  FeedInv'
<1> DEFINE snap == task[w].snap
<1>1. /\ snap \in Versions /\ snap <= version /\ version \in Nat
      /\ UNCHANGED <<version, subs, pc, seen>>
  BY DEF Send, TypeOK, Tasks, Versions, FeedInv, NoneFromTheFuture, streamVars
<1>2. /\ task'[w] = [task[w] EXCEPT !.todo = @ \ {s}]
      /\ \A v \in Writers : v # w => task'[v] = task[v]
  BY DEF Send, Served, TypeOK
<1>3. \A v \in Writers : /\ task'[v].pc = task[v].pc /\ task'[v].snap = task[v].snap
                         /\ task'[v].todo \subseteq task[v].todo
                         /\ \A u \in Streams : u # s /\ u \in task[v].todo => u \in task'[v].todo
                         /\ v # w => task'[v].todo = task[v].todo
  BY <1>2 DEF TypeOK, Tasks
<1>4. \A u \in Streams : u # s => chan'[u] = chan[u] /\ lost'[u] = lost[u]
  BY DEF Send, TypeOK
<1>5. \/ /\ lost'[s] = lost[s]
         /\ chan'[s] = Append(chan[s], snap)
      \/ /\ lost'[s] = Newest(lost[s], snap)
         /\ chan'[s] = chan[s]
  BY DEF Send, TypeOK
<1>6. /\ chan[s] \in Seq(Versions)
      /\ DOMAIN Append(chan[s], snap) = 1..Len(chan[s])+1
      /\ Append(chan[s], snap)[Len(chan[s])+1] = snap
      /\ \A i \in DOMAIN chan[s] : Append(chan[s], snap)[i] = chan[s][i]
  BY <1>1 DEF TypeOK
<1>7. SendsToOpenChannels'
  BY <1>1, <1>3 DEF FeedInv, SendsToOpenChannels
<1>8. Registered'
  BY <1>1 DEF FeedInv, Registered
<1>9. NoneFromTheFuture'
  <2>1. \A i \in DOMAIN chan'[s] : chan'[s][i] <= version
    BY <1>1, <1>5, <1>6 DEF FeedInv, NoneFromTheFuture
  <2>2. lost'[s] <= version
    BY <1>1, <1>5 DEF FeedInv, NoneFromTheFuture, Newest
  <2>3. QED
    BY <1>1, <1>3, <1>4, <2>1, <2>2 DEF FeedInv, NoneFromTheFuture
<1>10. ASSUME snap = version
       PROVE  lost'[s] = version \/ \E i \in DOMAIN chan'[s] : chan'[s][i] = version
  <2>1. CASE chan'[s] = Append(chan[s], snap)
    BY <1>6, <1>10, <2>1
  <2>2. CASE lost'[s] = Newest(lost[s], snap)
    BY <1>1, <1>10, <2>2 DEF Newest, FeedInv, NoneFromTheFuture, TypeOK, Versions
  <2>3. QED BY <1>5, <2>1, <2>2
<1>11. (\E i \in DOMAIN chan[s] : chan[s][i] = version)
         => \E i \in DOMAIN chan'[s] : chan'[s][i] = version
  BY <1>5, <1>6
<1>12. lost[s] = version => lost'[s] = version
  BY <1>1, <1>5 DEF Newest, TypeOK, Versions
<1>13. ASSUME NEW v \in Writers, NEW u \in Streams, Owes(v, u)
       PROVE  Owes(v, u)' \/ (u = s /\ snap = version)
  BY <1>1, <1>2, <1>3, <1>13 DEF Owes
<1>14. NewestAccountedFor'
  BY <1>1, <1>4, <1>10, <1>11, <1>12, <1>13 DEF FeedInv, NewestAccountedFor
<1>15. QED BY <1>7, <1>8, <1>9, <1>14 DEF FeedInv

LEMMA StreamInv ==
    ASSUME TypeOK, FeedInv, NEW s \in Streams, Stream(s)
    PROVE  FeedInv'
<1> USE DEF TypeOK, taskVars
<1>1. UNCHANGED <<version, task>>
  BY DEF Stream, Subscribe, FirstStatus, Receive, Hangup, Cancel
<1>2. SendsToOpenChannels'
  BY DEF Stream, Subscribe, FirstStatus, Receive, Hangup, Cancel, Unshared, FeedInv,
     SendsToOpenChannels
<1>3. Registered'
  BY DEF Stream, Subscribe, FirstStatus, Receive, Hangup, Cancel, FeedInv, Registered
<1>4. \A u \in Streams : u # s =>
          /\ pc'[u] = pc[u] /\ seen'[u] = seen[u] /\ lost'[u] = lost[u]
          /\ chan'[u] = chan[u]
  BY DEF Stream, Subscribe, FirstStatus, Receive, Hangup, Cancel
<1>5. /\ seen'[s] <= version /\ lost'[s] <= version
      /\ \A i \in DOMAIN chan'[s] : chan'[s][i] <= version
      /\ pc'[s] = "live" =>
           \/ version \in {seen'[s], lost'[s]}
           \/ \E i \in DOMAIN chan'[s] : chan'[s][i] = version
           \/ \E w \in Writers : Owes(w, s)
  <2> USE DEF FeedInv, NoneFromTheFuture, NewestAccountedFor, Versions
  <2>1. CASE Subscribe(s)
    BY <2>1 DEF Subscribe
  <2>2. CASE FirstStatus(s)
    BY <2>2 DEF FirstStatus
  <2>3. CASE Receive(s)
    <3>1. /\ chan[s] # <<>> /\ chan[s] \in Seq(Versions)
          /\ chan'[s] = Tail(chan[s]) /\ seen'[s] = Newest(seen[s], Head(chan[s]))
          /\ lost'[s] = lost[s] /\ pc[s] = "live"
      BY <2>3 DEF Receive
    <3>2. /\ Len(chan[s]) >= 1 /\ Head(chan[s]) = chan[s][1] /\ 1 \in DOMAIN chan[s]
          /\ DOMAIN Tail(chan[s]) = 1..Len(chan[s]) - 1
          /\ \A i \in DOMAIN Tail(chan[s]) :
                i + 1 \in DOMAIN chan[s] /\ Tail(chan[s])[i] = chan[s][i + 1]
      BY <3>1
    <3>3. Head(chan[s]) <= version /\ Head(chan[s]) \in Nat /\ seen[s] \in Nat /\ version \in Nat
      BY <3>1, <3>2
    <3>4. /\ seen'[s] <= version
          /\ version \in {seen[s], Head(chan[s])} => seen'[s] = version
      BY <3>1, <3>3 DEF Newest
    <3>5. \A i \in DOMAIN chan[s] : i = 1 \/ (i - 1 \in DOMAIN Tail(chan[s])
                                              /\ Tail(chan[s])[i - 1] = chan[s][i])
      BY <3>1, <3>2
    <3>6. QED BY <3>1, <3>2, <3>4, <3>5
  <2>4. CASE Hangup(s) \/ Cancel(s)
    BY <2>4 DEF Hangup, Cancel
  <2>5. QED BY <2>1, <2>2, <2>3, <2>4 DEF Stream
<1>6. \A w \in Writers, u \in Streams : Owes(w, u)' <=> Owes(w, u)
  BY <1>1 DEF Owes
<1>7. NoneFromTheFuture'
  BY <1>1, <1>4, <1>5 DEF FeedInv, NoneFromTheFuture
<1>8. NewestAccountedFor'
  BY <1>1, <1>4, <1>5, <1>6 DEF FeedInv, NewestAccountedFor
<1>9. QED BY <1>2, <1>3, <1>7, <1>8 DEF FeedInv

LEMMA FeedNextInv == TypeOK /\ FeedInv /\ [Next]_vars => TypeOK' /\ FeedInv'
<1> SUFFICES ASSUME TypeOK, FeedInv, [Next]_vars PROVE TypeOK' /\ FeedInv'
  OBVIOUS
<1>1. ASSUME NEW w \in Writers, Writer(w) PROVE TypeOK' /\ FeedInv'
  BY <1>1, WriterType, ChangeInv, ForwardInv, SendInv DEF Writer
<1>2. ASSUME NEW s \in Streams, Stream(s) PROVE TypeOK' /\ FeedInv'
  BY <1>2, StreamType, StreamInv
<1>3. CASE UNCHANGED vars
  BY <1>3 DEF vars, TypeOK, FeedInv, SendsToOpenChannels, Registered,
     NoneFromTheFuture, NewestAccountedFor, Owes
<1>4. QED BY <1>1, <1>2, <1>3 DEF Next

LEMMA FeedInvariant == Spec => [](TypeOK /\ FeedInv)
  BY FeedInitInv, FeedNextInv, PTL DEF Spec

\* No channel ever holds more than its capacity, and no status is newer than the
\* state: the select in broadcast drops, it never grows a queue (monitor.go:610-618).
THEOREM FeedTypeCorrect == Spec => []TypeOK
<1>1. QED BY FeedInvariant, PTL

\* No broadcast sends on a closed channel, however subscriptions and
\* cancellations interleave with it.
THEOREM FeedSendsToOpenChannels == Spec => []SendsToOpenChannels
<1>1. FeedInv => SendsToOpenChannels
  BY DEF FeedInv
<1>2. QED BY <1>1, FeedInvariant, PTL

\* No status gets lost between the monitor and a client, except in a channel
\* that is full.
THEOREM FeedAccountsForNewest == Spec => []NewestAccountedFor
<1>1. FeedInv => NewestAccountedFor
  BY DEF FeedInv
<1>2. QED BY <1>1, FeedInvariant, PTL

=============================================================================
