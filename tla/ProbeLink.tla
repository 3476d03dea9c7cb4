------------------------------ MODULE ProbeLink ------------------------------
(***************************************************************************)
(* What the Monitor may expect of whatever owns the link to the probe:     *)
(* runBridge, runBLE and runMock are peers with the "same WaitForStart /   *)
(* SetConnected / Update contract, different transport" (bridge.go:89-91). *)
(*                                                                         *)
(* Discovery is running or not; the owner parks until it runs, takes the   *)
(* stop channel, dials, streams, and parks again; nobody but a stream      *)
(* reports a connection, and its end takes the report back.  On Bluetooth  *)
(* (Async) a notification under way reports a connection whenever it gets  *)
(* the lock.                                                               *)
(***************************************************************************)
CONSTANT Async

VARIABLES
    running,    \* discovery is on
    stopClosed, \* the stop channel the owner holds is closed
    link,       \* where the owner is in its loop
    connected   \* what the Monitor reports

linkVars == <<running, stopClosed, link, connected>>

Init == running = FALSE /\ stopClosed = TRUE /\ link = "parked" /\ connected = FALSE

Start ==
    /\ ~running /\ running' = TRUE
    /\ UNCHANGED <<stopClosed, link, connected>>

Stop ==
    /\ running /\ running' = FALSE
    /\ stopClosed' = TRUE
    /\ connected' = FALSE
    /\ UNCHANGED link

Restart ==
    /\ running' = FALSE /\ stopClosed' = TRUE
    /\ link' = "parked" /\ connected' = FALSE

Step(from, to) == link = from /\ link' = to /\ UNCHANGED running

Wake == running /\ Step("parked", "woken") /\ UNCHANGED <<stopClosed, connected>>

TakeStopChan ==
    /\ Step("woken", "dialing")
    /\ stopClosed' = ~running
    /\ UNCHANGED connected

GiveUp == stopClosed /\ Step("dialing", "parked") /\ UNCHANGED <<stopClosed, connected>>

Connect ==
    /\ Step("dialing", "streaming")
    /\ connected' \in {connected, Async}
    /\ UNCHANGED stopClosed

\* A reading or a status line of the stream.
Report ==
    /\ Step("streaming", "streaming")
    /\ connected' \in BOOLEAN
    /\ UNCHANGED stopClosed

\* A notification that the owner does not wait for.
ReportLate ==
    /\ Async /\ connected' = TRUE
    /\ UNCHANGED <<running, stopClosed, link>>

Lose == Step("streaming", "closing") /\ UNCHANGED <<stopClosed, connected>>

Close == Step("closing", "parked") /\ connected' = FALSE /\ UNCHANGED stopClosed

Next ==
    \/ Start \/ Stop \/ Restart
    \/ Wake \/ TakeStopChan \/ GiveUp \/ Connect
    \/ Report \/ ReportLate \/ Lose \/ Close

Spec == Init /\ [][Next]_linkVars
=============================================================================
