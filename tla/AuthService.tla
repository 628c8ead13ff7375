---------------------------- MODULE AuthService ----------------------------
(***************************************************************************)
(* What the password worker pool (server/src/server/auth_worker.c)         *)
(* promises its client, without slots, threads or a queue: a request is    *)
(* accepted once, may be answered once, and is forgotten when it is        *)
(* cancelled or the pool is stopped.                                       *)
(***************************************************************************)
EXTENDS Naturals

CONSTANT MaxRequest   \* bound on the requests issued

VARIABLES
    issued,     \* the last request ID used
    pending,    \* accepted and not answered
    finished,   \* answered, the answer not delivered
    dropped,    \* cancelled by the client
    delivered   \* the answer was delivered

vars == <<issued, pending, finished, dropped, delivered>>

Init ==
    /\ issued = 0
    /\ pending = {}
    /\ finished = {}
    /\ dropped = {}
    /\ delivered = {}

Accept ==
    /\ issued < MaxRequest
    /\ issued' = issued + 1
    /\ pending' = pending \cup {issued + 1}
    /\ UNCHANGED <<finished, dropped, delivered>>

Refuse ==
    /\ issued < MaxRequest
    /\ issued' = issued + 1
    /\ UNCHANGED <<pending, finished, dropped, delivered>>

Answer(r) ==
    /\ r \in pending
    /\ pending' = pending \ {r}
    /\ finished' = finished \cup {r}
    /\ UNCHANGED <<issued, dropped, delivered>>

Deliver(r) ==
    /\ r \in finished
    /\ finished' = finished \ {r}
    /\ delivered' = delivered \cup {r}
    /\ UNCHANGED <<issued, pending, dropped>>

Cancel(r) ==
    /\ dropped' = dropped \cup {r}
    /\ pending' = pending \ {r}
    /\ finished' = finished \ {r}
    /\ UNCHANGED <<issued, delivered>>

Shutdown ==
    /\ pending' = {}
    /\ finished' = {}
    /\ UNCHANGED <<issued, dropped, delivered>>

Next ==
    \/ Accept
    \/ Refuse
    \/ \E r \in 1..MaxRequest : Answer(r) \/ Deliver(r) \/ Cancel(r)
    \/ Shutdown

Spec == Init /\ [][Next]_vars

=============================================================================
