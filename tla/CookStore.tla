------------------------------ MODULE CookStore ------------------------------
(***************************************************************************)
(* The SQLite store of internal/store/store.go: the tables "cooks" and     *)
(* "samples", one action per SQL statement that changes them and one       *)
(* operator per query.  The pool holds a single connection (store.go:54),  *)
(* so statements never overlap; a method that runs two statements is two   *)
(* steps of its caller, and other goroutines' statements may come between. *)
(*                                                                         *)
(* Times are ticks of a coarse clock and start at 1: time 0 is Go's zero   *)
(* time.Time, as cook id 0 is "no cook".  Of a row the module keeps the    *)
(* start time and whether it has an end time; the labels, the maxima and   *)
(* the temperatures are data no property here tells apart.                 *)
(***************************************************************************)
EXTENDS Integers, FiniteSets, Sequences

CONSTANTS
    MaxCooks,   \* bound on the cooks ever started (the AUTOINCREMENT ids)
    KeepEnded   \* keepEndedCooks: how many finished cooks Prune retains

ASSUME MaxCooksNat == MaxCooks \in Nat
ASSUME KeepEndedNat == KeepEnded \in Nat

VARIABLES
    row,      \* row[c]: no row with that id, a row with no end time, or one with
    started,  \* started[c]: started_at of the row, kept when the row goes
    samples,  \* the rows of "samples": [cook, at]
    seq       \* the largest id ever handed out

storeVars == <<row, started, samples, seq>>

CookIds == 1..MaxCooks
Times == Nat \ {0}

Open == {c \in CookIds : row[c] = "open"}
Ended == {c \in CookIds : row[c] = "ended"}

StoreTypeOK ==
    /\ row \in [CookIds -> {"absent", "open", "ended"}]
    /\ started \in [CookIds -> Nat]
    /\ samples \subseteq [cook : CookIds, at : Times]
    /\ IsFiniteSet(samples)
    /\ seq \in 0..MaxCooks

StoreInit ==
    /\ row = [c \in CookIds |-> "absent"]
    /\ started = [c \in CookIds |-> 0]
    /\ samples = {}
    /\ seq = 0

-----------------------------------------------------------------------------
(* Queries *)

\* "ORDER BY started_at DESC": equal start times are broken by the larger id,
\* the same way in each statement.
Newer(c, d) ==
    \/ started[c] > started[d]
    \/ started[c] = started[d] /\ c > d

\* (Bug: finished cooks are taken for open ones.)
CurrentCook ==
    {c \in Open \cup Ended : \A d \in Open : started[c] >= started[d]}

\* The most recent cook with no end time, as the set of the possible answers.
CurrentOpenCook == {c \in Open : \A d \in Open : started[c] >= started[d]}

SampleTimes(c) == {s.at : s \in {t \in samples : t.cook = c}}

\* (Bug: open cooks are pruned too.)
PrunableOrOpen ==
    {c \in Open \cup Ended : Cardinality({d \in Ended : Newer(d, c)}) >= KeepEnded}

\* The finished cooks that are not among the KeepEnded newest ones (keepIDs).
Prunable == {c \in Ended : Cardinality({d \in Ended : Newer(d, c)}) >= KeepEnded}

-----------------------------------------------------------------------------
(* Statements that write *)

InsertCook(c, at) ==
    /\ seq < MaxCooks
    /\ c = seq + 1
    /\ seq' = c
    /\ row' = [row EXCEPT ![c] = "open"]
    /\ started' = [started EXCEPT ![c] = at]
    /\ UNCHANGED samples

InsertSample(c, at) ==
    /\ samples' = samples \cup {[cook |-> c, at |-> at]}
    /\ UNCHANGED <<row, started, seq>>

\* "... WHERE id = ? AND ended_at IS NULL"
EndCook(c) ==
    /\ row' = IF row[c] = "open" THEN [row EXCEPT ![c] = "ended"] ELSE row
    /\ UNCHANGED <<started, samples, seq>>

DeleteSamplesOf(C) ==
    /\ samples' = {s \in samples : s.cook \notin C}
    /\ UNCHANGED <<row, started, seq>>

DeleteRowsOf(C) ==
    /\ row' = [c \in CookIds |-> IF c \in C THEN "absent" ELSE row[c]]
    /\ UNCHANGED <<started, samples, seq>>
=============================================================================
