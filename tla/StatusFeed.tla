----------------------------- MODULE StatusFeed -----------------------------
(***************************************************************************)
(* The status feed: Monitor.Subscribe and Monitor.broadcast of             *)
(* internal/monitor/monitor.go, and the server's handleStream that consumes *)
(* them.                                                                   *)
(*                                                                         *)
(* A status is the version of the monitor's state it was taken from.       *)
(* Writers are the goroutines that call a method of the Monitor; each      *)
(* changes the state under m.mu, takes a snapshot, and sends it to every   *)
(* subscriber under a read lock, one channel after the other.  Nothing     *)
(* orders two broadcasts.  Streams are the requests for /api/stream.       *)
(***************************************************************************)
EXTENDS Integers, Sequences, FiniteSets

CONSTANTS
    Writers,     \* goroutines that change the monitor's state
    Streams,     \* goroutines in handleStream
    Capacity,    \* capacity of a subscriber's channel
    MaxChanges   \* bound on the changes

ASSUME CapacityPos == Capacity \in Nat \ {0}
ASSUME MaxChangesNat == MaxChanges \in Nat

VARIABLES
    version,  \* the monitor's state
    task,     \* task[w]: where a writer is, its snapshot, the channels left to serve
    subs,     \* m.subs: the streams whose channel is registered
    chan,     \* chan[s]: what the stream's channel holds
    pc,       \* pc[s]: where the stream is
    view,     \* view[s]: the status its client shows
    seen,     \* history variable: the newest status its client was sent
    lost      \* history variable: the newest status its full channel turned away

taskVars == <<version, task>>
streamVars == <<pc, view, seen>>
vars == <<version, task, subs, chan, pc, view, seen, lost>>

Versions == 0..MaxChanges
Tasks == [pc : {"idle", "snap", "ready", "sending"}, snap : Versions, todo : SUBSET Streams]
NoTask == [pc |-> "idle", snap |-> 0, todo |-> {}]

TypeOK ==
    /\ version \in Versions
    /\ task \in [Writers -> Tasks]
    /\ subs \subseteq Streams
    /\ chan \in [Streams -> Seq(Versions)]
    /\ \A s \in Streams : Len(chan[s]) <= Capacity
    /\ pc \in [Streams -> {"away", "joined", "live", "leaving"}]
    /\ view \in [Streams -> Versions]
    /\ seen \in [Streams -> Versions]
    /\ lost \in [Streams -> Versions]

Init ==
    /\ version = 0
    /\ task = [w \in Writers |-> NoTask]
    /\ subs = {}
    /\ chan = [s \in Streams |-> <<>>]
    /\ pc = [s \in Streams |-> "away"]
    /\ view = [s \in Streams |-> 0]
    /\ seen = [s \in Streams |-> 0]
    /\ lost = [s \in Streams |-> 0]

\* m.mu: a broadcast holds it shared for as long as it sends.
Unshared == \A w \in Writers : task[w].pc # "sending"

Newest(a, b) == IF a > b THEN a ELSE b

-----------------------------------------------------------------------------
(* Writers *)

\* SetConnected and its like: the change and its snapshot in one critical section.
\* (The janitor's clear and LoadHistory's swap broadcast nothing: no writers here.)
Change(w) ==
    /\ task[w].pc = "idle" /\ Unshared
    /\ version < MaxChanges
    /\ version' = version + 1
    /\ task' = [task EXCEPT ![w] = [pc |-> "ready", snap |-> version', todo |-> {}]]
    /\ UNCHANGED <<subs, chan, streamVars, lost>>

\* Update stores the sample between the change and a snapshot of its own.
Record(w) ==
    /\ task[w].pc = "idle" /\ Unshared
    /\ version < MaxChanges
    /\ version' = version + 1
    /\ task' = [task EXCEPT ![w].pc = "snap"]
    /\ UNCHANGED <<subs, chan, streamVars, lost>>

Snapshot(w) ==
    /\ task[w].pc = "snap"
    /\ task' = [task EXCEPT ![w] = [pc |-> "ready", snap |-> version, todo |-> {}]]
    /\ UNCHANGED <<version, subs, chan, streamVars, lost>>

\* broadcast takes the read lock.
Broadcast(w) ==
    /\ task[w].pc = "ready"
    /\ task' = [task EXCEPT ![w].pc = "sending", ![w].todo = subs]
    /\ UNCHANGED <<version, subs, chan, streamVars, lost>>

Served(w, s) == task' = [task EXCEPT ![w].todo = @ \ {s}]

\* (Bugs: a send that blocks on a full channel; one that turns nothing away.)
SendBlocking(w, s) ==
    /\ task[w].pc = "sending" /\ s \in task[w].todo
    /\ Len(chan[s]) < Capacity
    /\ chan' = [chan EXCEPT ![s] = Append(@, task[w].snap)]
    /\ Served(w, s)
    /\ UNCHANGED <<version, subs, streamVars, lost>>
SendUnbounded(w, s) ==
    /\ task[w].pc = "sending" /\ s \in task[w].todo
    /\ chan' = [chan EXCEPT ![s] = Append(@, task[w].snap)]
    /\ Served(w, s)
    /\ UNCHANGED <<version, subs, streamVars, lost>>

\* A send that would block is skipped: the channel keeps what it has.
Send(w, s) ==
    /\ task[w].pc = "sending" /\ s \in task[w].todo
    /\ \/ /\ Len(chan[s]) < Capacity
          /\ chan' = [chan EXCEPT ![s] = Append(@, task[w].snap)]
          /\ UNCHANGED lost
       \/ /\ Len(chan[s]) = Capacity
          /\ lost' = [lost EXCEPT ![s] = Newest(@, task[w].snap)]
          /\ UNCHANGED chan
    /\ Served(w, s)
    /\ UNCHANGED <<version, subs, streamVars>>

BroadcastEnds(w) ==
    /\ task[w].pc = "sending" /\ task[w].todo = {}
    /\ task' = [task EXCEPT ![w] = NoTask]
    /\ UNCHANGED <<version, subs, chan, streamVars, lost>>

-----------------------------------------------------------------------------
(* Streams *)

\* A request comes in; it gets a channel of its own.
Subscribe(s) ==
    /\ pc[s] = "away" /\ Unshared
    /\ subs' = subs \cup {s}
    /\ chan' = [chan EXCEPT ![s] = <<>>]
    /\ pc' = [pc EXCEPT ![s] = "joined"]
    /\ view' = [view EXCEPT ![s] = 0]
    /\ seen' = [seen EXCEPT ![s] = 0]
    /\ lost' = [lost EXCEPT ![s] = 0]
    /\ UNCHANGED taskVars

\* (Bug: the status that is sent first was taken before Subscribe.)
FirstStatusEarly(s) ==
    /\ pc[s] = "joined"
    /\ \E v \in Versions : v <= version /\ view' = [view EXCEPT ![s] = v]
    /\ seen' = [seen EXCEPT ![s] = view'[s]]
    /\ pc' = [pc EXCEPT ![s] = "live"]
    /\ UNCHANGED <<taskVars, subs, chan, lost>>

\* The current state goes out before anything from the channel.
FirstStatus(s) ==
    /\ pc[s] = "joined"
    /\ view' = [view EXCEPT ![s] = version]
    /\ seen' = [seen EXCEPT ![s] = version]
    /\ pc' = [pc EXCEPT ![s] = "live"]
    /\ UNCHANGED <<taskVars, subs, chan, lost>>

Receive(s) ==
    /\ pc[s] = "live" /\ chan[s] # <<>>
    /\ chan' = [chan EXCEPT ![s] = Tail(@)]
    /\ view' = [view EXCEPT ![s] = Head(chan[s])]
    /\ seen' = [seen EXCEPT ![s] = Newest(@, Head(chan[s]))]
    /\ UNCHANGED <<taskVars, subs, pc, lost>>

\* The client is gone.
Hangup(s) ==
    /\ pc[s] = "live"
    /\ pc' = [pc EXCEPT ![s] = "leaving"]
    /\ UNCHANGED <<taskVars, subs, chan, view, seen, lost>>

\* (Bug: the channel is closed without the lock.)
CancelUnlocked(s) ==
    /\ pc[s] = "leaving"
    /\ subs' = subs \ {s}
    /\ pc' = [pc EXCEPT ![s] = "away"]
    /\ UNCHANGED <<taskVars, chan, view, seen, lost>>

\* The deferred cancel unregisters the channel and closes it.
Cancel(s) ==
    /\ pc[s] = "leaving" /\ Unshared
    /\ subs' = subs \ {s}
    /\ pc' = [pc EXCEPT ![s] = "away"]
    /\ UNCHANGED <<taskVars, chan, view, seen, lost>>

-----------------------------------------------------------------------------
Writer(w) ==
    \/ Change(w)
    \/ Record(w)
    \/ Snapshot(w)
    \/ Broadcast(w)
    \/ \E s \in Streams : Send(w, s)
    \/ BroadcastEnds(w)

Stream(s) ==
    \/ Subscribe(s)
    \/ FirstStatus(s)
    \/ Receive(s)
    \/ Hangup(s)
    \/ Cancel(s)

Next ==
    \/ \E w \in Writers : Writer(w)
    \/ \E s \in Streams : Stream(s)

Spec == Init /\ [][Next]_vars

\* A writer that has changed the state goes on, and a cancel that waits for m.mu
\* gets it: a waiting Lock of a sync.RWMutex keeps new readers out.  A stream
\* owes nothing: its client may stop reading for ever.
Fairness ==
    /\ \A w \in Writers :
          /\ WF_vars(Snapshot(w))
          /\ WF_vars(Broadcast(w))
          /\ WF_vars(\E s \in Streams : Send(w, s))
          /\ WF_vars(BroadcastEnds(w))
    /\ \A s \in Streams : SF_vars(Cancel(s))

FairSpec == Spec /\ Fairness

-----------------------------------------------------------------------------
(* A writer that still owes stream s a status of the current version. *)
Owes(w, s) ==
    \/ task[w].pc = "snap"
    \/ task[w].pc = "ready" /\ task[w].snap = version
    \/ task[w].pc = "sending" /\ task[w].snap = version /\ s \in task[w].todo

\* broadcast never sends on a channel that cancel has closed, which would panic.
SendsToOpenChannels ==
    \A w \in Writers : task[w].pc = "sending" => task[w].todo \subseteq subs

\* No change falls between Subscribe and the first status, or between two
\* broadcasts: a live client has been sent the current state, or it waits in the
\* channel, or a writer owes it, or the full channel has turned it away.
NewestAccountedFor ==
    \A s \in Streams : pc[s] = "live" =>
        \/ version \in {seen[s], lost[s]}
        \/ \E i \in DOMAIN chan[s] : chan[s][i] = version
        \/ \E w \in Writers : Owes(w, s)

\* The inductive invariant behind both: the registered channels are those of the
\* streams under way, and no status is newer than the state.
Registered == subs = {s \in Streams : pc[s] # "away"}

NoneFromTheFuture ==
    /\ \A w \in Writers : task[w].snap <= version
    /\ \A s \in Streams :
          /\ seen[s] <= version /\ lost[s] <= version
          /\ \A i \in DOMAIN chan[s] : chan[s][i] <= version

FeedInv ==
    /\ SendsToOpenChannels
    /\ Registered
    /\ NoneFromTheFuture
    /\ NewestAccountedFor

\* A client that has stopped reading holds nobody up: neither a broadcast, and
\* with it the monitor's lock, nor the request's own way out.
BroadcastReturns == \A w \in Writers : task[w].pc = "sending" ~> task[w].pc = "idle"
StreamLeaves == \A s \in Streams : pc[s] = "leaving" ~> pc[s] = "away"

=============================================================================
