------------------------------- MODULE CookLog -------------------------------
(***************************************************************************)
(* What the cook bookkeeping promises, without its goroutines: a log of    *)
(* cooks of which at most one is live.  A cook is opened only while none   *)
(* is live, its end is final, and nothing but a finished cook loses        *)
(* samples or its row.  A restart may take up a cook that was left open.   *)
(* CookSession is shown to implement this specification.                   *)
(***************************************************************************)
EXTENDS Integers

CONSTANT MaxCooks

VARIABLES
    row,      \* row[c] \in {"absent", "open", "ended"}
    samples,  \* recorded samples: [cook, at]
    seq,      \* cooks opened so far
    live      \* the cook that takes readings, 0 when there is none

vars == <<row, samples, seq, live>>

CookIds == 1..MaxCooks

Init ==
    /\ row = [c \in CookIds |-> "absent"]
    /\ samples = {}
    /\ seq = 0
    /\ live = 0

\* A new cook, with an id never used before.
Begin ==
    /\ live = 0
    /\ seq < MaxCooks
    /\ seq' = seq + 1
    /\ row' = [row EXCEPT ![seq + 1] = "open"]
    /\ live' = seq + 1
    /\ UNCHANGED samples

\* The live cook stops taking readings.
Retire ==
    /\ live' = 0
    /\ UNCHANGED <<row, samples, seq>>

\* A restart takes up a cook that has no end yet.
Resume ==
    /\ live = 0
    /\ live' \in {c \in CookIds : row[c] = "open"}
    /\ UNCHANGED <<row, samples, seq>>

Record ==
    /\ \E s \in samples' : s.cook \in 1..seq /\ samples' = samples \cup {s}
    /\ UNCHANGED <<row, seq, live>>

Finish(c) ==
    /\ row[c] = "open"
    /\ row' = [row EXCEPT ![c] = "ended"]
    /\ UNCHANGED <<samples, seq, live>>

\* Only samples of cooks that are not open go.
Forget ==
    /\ samples' \subseteq samples
    /\ \A s \in samples \ samples' : row[s.cook] # "open"
    /\ UNCHANGED <<row, seq, live>>

\* Only rows of finished cooks go.
Drop ==
    /\ row' \in [CookIds -> {"absent", "open", "ended"}]
    /\ \A c \in CookIds : row'[c] # row[c] => row[c] = "ended" /\ row'[c] = "absent"
    /\ UNCHANGED <<samples, seq, live>>

Next ==
    \/ Begin
    \/ Retire
    \/ Resume
    \/ Record
    \/ \E c \in CookIds : Finish(c)
    \/ Forget
    \/ Drop

Spec == Init /\ [][Next]_vars
=============================================================================
