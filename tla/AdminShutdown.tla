--------------------------- MODULE AdminShutdown ---------------------------
(***************************************************************************)
(* The administrative shutdown of server/src/server/admin_shutdown.c with  *)
(* the shutdown timer and the main loop of server/src/server/main.c: a     *)
(* local client asks for a shutdown after a countdown, and a receipt file  *)
(* tells it how the request ended.                                         *)
(*                                                                         *)
(* The process is one thread; signals, failures of other subsystems,       *)
(* crashes and power failures come at any point.  Publishing a receipt is  *)
(* split at its system calls.  The clock is the number of ticks left; the  *)
(* time limits of a connection may pass at any poll.                       *)
(***************************************************************************)
EXTENDS Naturals, FiniteSets

CONSTANTS
    Ids,       \* request IDs
    Secs,      \* lengths of countdowns, in ticks
    None       \* no ID, no request

ASSUME SecsAssumption == Secs \subseteq Nat \ {0}

\* admin_shutdown_request; two reasons differ as two lengths do.
Requests == [id : Ids, seconds : Secs]

ASSUME NoneAssumption == None \notin Ids \cup Requests

Publishing == {"create", "write", "link", "sync"}
NoPub == [text |-> "none", ok |-> FALSE, then |-> "none", secs |-> 0]

VARIABLES
    pc,          \* where the main thread is; "down" without a process
    endpoint,    \* the socket file exists
    active,      \* shutdown_active
    left,        \* shutdown_time - pticks
    requested,   \* shutdown_requested, set by signals
    unhealthy,   \* the journal or the access server gave up
    pending,     \* state.pending
    expired,     \* state.expired
    failed,      \* state.failed
    pub,         \* the receipt being published and what follows it
    client,      \* the one connection
    reply,       \* the ID of the SCHEDULED response on its way
    tmp,         \* the IDs with a temporary file
    result,      \* the receipts in the directory
    durable,     \* the receipts a power failure leaves
    lost,        \* a save failed: access, players, exploration, maps or journal
    status,      \* how the process ended
    origin,      \* history: what started the countdown
    scheduled,   \* history: the requests this process scheduled
    heard        \* history: the requests whose SCHEDULED response arrived

timer == <<active, left>>
disk  == <<tmp, result, durable>>
peer  == <<client, reply, heard>>
vars  == <<pc, endpoint, active, left, requested, unhealthy, pending, expired, failed, pub, client,
           reply, tmp, result, durable, lost, status, origin, scheduled, heard>>

Init ==
    /\ pc = "down" /\ endpoint = FALSE /\ status = "none"
    /\ tmp = {} /\ result = [i \in Ids |-> "none"] /\ durable = [i \in Ids |-> "none"]
    /\ active = FALSE /\ left = 0 /\ requested = FALSE /\ unhealthy = FALSE
    /\ pending = None /\ expired = FALSE /\ failed = FALSE /\ pub = NoPub
    /\ client = "none" /\ reply = None /\ lost = FALSE
    /\ origin = None /\ scheduled = {} /\ heard = {}

-----------------------------------------------------------------------------
(* Start, and what the operator may do while no server runs. *)

\* admin_shutdown_init() refuses an existing endpoint.
StartServer ==
    /\ pc = "down" /\ ~endpoint
    /\ pc' = "check" /\ endpoint' = TRUE /\ status' = "running"
    /\ scheduled' = {} /\ heard' = {}
    /\ UNCHANGED <<timer, requested, unhealthy, pending, expired, failed, pub, client, reply, lost,
                   origin, disk>>

RemoveEndpoint ==
    /\ pc = "down" /\ endpoint
    /\ endpoint' = FALSE
    /\ UNCHANGED <<pc, timer, requested, unhealthy, pending, expired, failed, pub, peer, disk, lost,
                   status, origin, scheduled>>

\* "Receipts are intentionally retained for the root operator/updater to
\* inspect and remove"
RemoveReceipt(i) ==
    /\ pc = "down" /\ result[i] # "none"
    /\ result' = [result EXCEPT ![i] = "none"] /\ durable' = [durable EXCEPT ![i] = "none"]
    /\ scheduled' = scheduled \ {i} /\ heard' = heard \ {i}
    /\ UNCHANGED <<pc, endpoint, timer, requested, unhealthy, pending, expired, failed, pub, client,
                   reply, tmp, lost, status, origin>>

-----------------------------------------------------------------------------
(* Publication of a receipt. *)

\* Mistake: the result only says whether saving went well.
Verdict_Saved(ok) == IF ok THEN "saved" ELSE "failed"

\* admin_shutdown_finish(): the receipt of the pending request.
Verdict(ok) == IF ~expired THEN "cancelled" ELSE IF ok THEN "saved" ELSE "failed"

\* What follows the receipt: the timer operation that cancelled the request,
\* or the end of the process.
Continue(then, secs) ==
    \/ then = "start" /\ pc' = "rest" /\ active' = TRUE /\ left' = secs /\ origin' = "manual"
    \/ then = "stop" /\ pc' = "rest" /\ active' = FALSE /\ UNCHANGED <<left, origin>>
    \/ then = "finish" /\ pc' = "exit" /\ UNCHANGED <<timer, origin>>

\* Mistake: a failed publication is not remembered.
Latched_Forget(ok) == failed

Latched(ok) == failed \/ ~ok

\* The end of admin_shutdown_cancel() and admin_shutdown_finish().
Published(ok) ==
    /\ failed' = Latched(ok)
    /\ pending' = None
    /\ expired' = IF pub.then = "finish" THEN expired ELSE FALSE
    /\ pub' = NoPub
    /\ Continue(pub.then, pub.secs)

\* O_EXCL: a temporary file left by a crash makes it fail.
PublishCreate ==
    /\ pc = "create"
    /\ \/ /\ pending.id \notin tmp
          /\ tmp' = tmp \cup {pending.id} /\ pc' = "write"
          /\ UNCHANGED <<timer, pending, expired, failed, pub, origin>>
       \/ Published(FALSE) /\ UNCHANGED tmp
    /\ UNCHANGED <<endpoint, requested, unhealthy, peer, result, durable, lost, status, scheduled>>

PublishWrite ==
    /\ pc = "write"
    /\ \E ok \in BOOLEAN : pub' = [pub EXCEPT !.ok = ok] /\ pc' = IF ok THEN "link" ELSE "sync"
    /\ UNCHANGED <<endpoint, timer, requested, unhealthy, pending, expired, failed, peer, disk, lost,
                   status, origin, scheduled>>

\* linkat() fails if the receipt exists.
PublishLink ==
    /\ pc = "link"
    /\ pc' = "sync"
    /\ \/ /\ result[pending.id] = "none"
          /\ result' = [result EXCEPT ![pending.id] = pub.text]
          /\ UNCHANGED pub
       \/ pub' = [pub EXCEPT !.ok = FALSE] /\ UNCHANGED result
    /\ UNCHANGED <<endpoint, timer, requested, unhealthy, pending, expired, failed, peer, tmp,
                   durable, lost, status, origin, scheduled>>

\* The directory is synchronised only after the temporary file is gone.
Synced(unlinked) == IF unlinked THEN {TRUE, FALSE} ELSE {FALSE}

PublishSync ==
    /\ pc = "sync"
    /\ \E unlinked \in BOOLEAN : \E synced \in Synced(unlinked) :
          /\ tmp' = IF unlinked THEN tmp \ {pending.id} ELSE tmp
          /\ durable' = IF synced THEN result ELSE durable
          /\ Published(pub.ok /\ unlinked /\ synced)
    /\ UNCHANGED <<endpoint, requested, unhealthy, peer, result, lost, status, scheduled>>

-----------------------------------------------------------------------------
(* The main loop. *)

\* Mistake: the comparison is strict.
TimerDue_Late == active /\ left < 0

\* shutdown_timer_check()
TimerDue == active /\ left = 0

\* A signal is looked at first, and then the timer is not.
Expires == ~requested /\ TimerDue

Check ==
    /\ pc = "check"
    /\ \/ /\ requested \/ TimerDue \/ unhealthy
          /\ pc' = "saving"
          /\ expired' = (expired \/ (Expires /\ pending # None))
       \/ /\ ~requested /\ ~TimerDue /\ ~unhealthy
          /\ pc' = "poll"
          /\ UNCHANGED expired
    /\ UNCHANGED <<endpoint, timer, requested, unhealthy, pending, failed, pub, peer, disk, lost,
                   status, origin, scheduled>>

\* send(): everything, a part, or an error.
Send(r) ==
    \/ client' = "none" /\ reply' = None /\ heard' = IF r = None THEN heard ELSE heard \cup {r}
    \/ client' = "sending" /\ reply' = r /\ UNCHANGED heard
    \/ client' = "none" /\ reply' = None /\ UNCHANGED heard

NotScheduled == UNCHANGED <<timer, pending, expired, origin, scheduled>>

\* admin_shutdown_schedule()
Schedule(req) ==
    /\ active' = TRUE /\ left' = req.seconds /\ origin' = req.id
    /\ pending' = req /\ expired' = FALSE
    /\ scheduled' = scheduled \cup {req.id}

\* A matching retry changes nothing.
Repeat(req) == NotScheduled

Matches(req) == pending = req

Busy == active \/ requested

\* handle_request() with a capabilities, access or malformed request.
HandleOther ==
    /\ NotScheduled
    /\ \/ Send(None)
       \/ client' = "executing" /\ reply' = None /\ UNCHANGED heard

\* handle_request() with a shutdown request.
Handle(req) ==
    IF failed THEN Send(None) /\ NotScheduled
    ELSE IF pending # None
    THEN IF Matches(req) THEN Send(req.id) /\ Repeat(req) ELSE Send(None) /\ NotScheduled
    ELSE IF result[req.id] # "none" \/ Busy THEN Send(None) /\ NotScheduled
    ELSE Send(req.id) /\ Schedule(req)

\* admin_shutdown_poll(): limits, the answer to an access request, the rest
\* of a response, and then a new connection or more of a request.
Poll ==
    /\ pc = "poll"
    /\ pc' = "rest"
    /\ \E late \in BOOLEAN :
          /\ late => client # "none"
          /\ LET c == IF late THEN "none" ELSE client
             IN  \/ c = "executing" /\ client' \in {"executing", "none"} /\ UNCHANGED <<reply, heard>>
                    /\ NotScheduled
                 \/ c = "executing" /\ Send(None) /\ NotScheduled
                 \/ c = "sending" /\ Send(reply) /\ NotScheduled
                 \/ c \in {"none", "reading"} /\ client' \in {"none", "reading"} /\ reply' = None
                    /\ UNCHANGED heard /\ NotScheduled
                 \/ c \in {"none", "reading"} /\ HandleOther
                 \/ c \in {"none", "reading"} /\ \E req \in Requests : Handle(req)
    /\ UNCHANGED <<endpoint, requested, unhealthy, failed, pub, disk, lost, status>>

\* admin_shutdown_cancel() has something to cancel.
Displaces(then) == pending # None

\* shutdown_timer_start() and shutdown_timer_stop() from the console or a player.
Manual(then, secs) ==
    /\ pc = "rest"
    /\ \/ /\ Displaces(then)
          /\ pc' = "create"
          /\ pub' = [text |-> "cancelled", ok |-> FALSE, then |-> then, secs |-> secs]
          /\ UNCHANGED <<timer, origin>>
       \/ /\ ~Displaces(then)
          /\ Continue(then, secs)
          /\ UNCHANGED pub
    /\ UNCHANGED <<endpoint, requested, unhealthy, pending, expired, failed, peer, disk, lost, status,
                   scheduled>>

\* The loop ends with a game tick, or without one after mere transport work.
LoopEnd(tick) ==
    /\ pc = "rest"
    /\ pc' = "check"
    /\ left' = IF tick /\ left > 0 THEN left - 1 ELSE left
    /\ UNCHANGED <<endpoint, active, requested, unhealthy, pending, expired, failed, pub, peer, disk,
                   lost, status, origin, scheduled>>

\* server_shutdown(): every save is tried, then the receipt is published.
SaveAll ==
    /\ pc = "saving"
    /\ \E x \in BOOLEAN :
          /\ lost' = x
          /\ IF pending # None
             THEN /\ pc' = "create"
                  /\ pub' = [text |-> Verdict(~x), ok |-> FALSE, then |-> "finish", secs |-> 0]
             ELSE pc' = "exit" /\ UNCHANGED pub
    /\ UNCHANGED <<endpoint, timer, requested, unhealthy, pending, expired, failed, peer, disk,
                   status, origin, scheduled>>

\* The process and its memory are gone.
Gone ==
    /\ pc' = "down"
    /\ active' = FALSE /\ left' = 0 /\ requested' = FALSE /\ unhealthy' = FALSE
    /\ pending' = None /\ expired' = FALSE /\ failed' = FALSE /\ pub' = NoPub
    /\ client' = "none" /\ reply' = None /\ lost' = FALSE /\ origin' = None
    /\ UNCHANGED <<scheduled, heard>>

Exit ==
    /\ pc = "exit"
    /\ Gone
    /\ endpoint' = FALSE
    /\ status' = IF ~lost /\ ~failed THEN "success" ELSE "failure"
    /\ UNCHANGED disk

-----------------------------------------------------------------------------
(* What happens to the process from outside. *)

Running == pc # "down"

Signal ==
    /\ Running /\ ~requested
    /\ requested' = TRUE
    /\ UNCHANGED <<pc, endpoint, timer, unhealthy, pending, expired, failed, pub, peer, disk, lost,
                   status, origin, scheduled>>

\* gameplay_journal_available() or access_server_healthy() becomes false.
Sicken ==
    /\ Running /\ ~unhealthy
    /\ unhealthy' = TRUE
    /\ UNCHANGED <<pc, endpoint, timer, requested, pending, expired, failed, pub, peer, disk, lost,
                   status, origin, scheduled>>

Dies == Gone /\ status' = "crashed" /\ UNCHANGED endpoint

Crash == Running /\ Dies /\ UNCHANGED disk

\* Receipts that were not synchronised may be gone.
PowerFailure ==
    /\ Running /\ Dies
    /\ \E kept \in SUBSET Ids :
          result' = [i \in Ids |-> IF i \in kept THEN result[i] ELSE durable[i]]
    /\ durable' = result'
    /\ tmp' \in SUBSET tmp

-----------------------------------------------------------------------------
Publish == PublishCreate \/ PublishWrite \/ PublishLink \/ PublishSync
Commands == Manual("stop", 0) \/ \E s \in Secs : Manual("start", s)
Loop == Check \/ Poll \/ SaveAll \/ Exit \/ \E t \in BOOLEAN : LoopEnd(t)

Next ==
    \/ StartServer \/ RemoveEndpoint \/ \E i \in Ids : RemoveReceipt(i)
    \/ Publish \/ Loop \/ Commands
    \/ Signal \/ Sicken \/ Crash \/ PowerFailure

Spec == Init /\ [][Next]_vars

\* The process runs, and the game ticks again and again.
FairSpec == Spec /\ WF_vars(Publish \/ Loop) /\ SF_vars(LoopEnd(TRUE))

-----------------------------------------------------------------------------
(* Properties. *)

SHTypeOK ==
    /\ pc \in {"down", "check", "poll", "rest", "saving", "exit"} \cup Publishing
    /\ {endpoint, active, requested, unhealthy, expired, failed, lost} \subseteq BOOLEAN
    /\ left \in {0} \cup UNION {0..s : s \in Secs}
    /\ pending \in Requests \cup {None}
    /\ pub \in [text : {"none", "saved", "failed", "cancelled"}, ok : BOOLEAN,
                then : {"none", "start", "stop", "finish"}, secs : Secs \cup {0}]
    /\ pc \in Publishing => pub # NoPub /\ pending # None
    /\ client \in {"none", "reading", "executing", "sending"}
    /\ reply \in Ids \cup {None}
    /\ tmp \subseteq Ids /\ scheduled \subseteq Ids /\ heard \subseteq scheduled
    /\ {result, durable} \subseteq [Ids -> {"none", "saved", "failed", "cancelled"}]
    /\ status \in {"none", "running", "success", "failure", "crashed"}
    /\ origin \in Ids \cup {None, "manual"}

\* "Failure to save or publish completion causes a nonzero server exit":
\* after exit zero, every request the server scheduled has a durable receipt.
CleanExitHasReceipts ==
    status = "success" => \A i \in scheduled : durable[i] # "none"

\* A pending request always has its own countdown running: one a manual
\* countdown replaced or stopped is pending no more.
PendingHasCountdown ==
    pending # None /\ pc \in {"check", "poll", "rest", "saving"} => active /\ origin = pending.id

\* "saved requires timer expiry and successful checked ... shutdown", and
\* "Matching retries are idempotent and never extend the countdown": a receipt
\* says saved only if the countdown this request started ran out, nothing
\* replaced or extended it, and nothing failed to be saved.
SavedIsTrue ==
    [][/\ \A i \in Ids : result'[i] = "saved" /\ result[i] # "saved" =>
             origin = i /\ active /\ left = 0 /\ expired /\ ~lost
       /\ pending # None /\ pending' = pending /\ Running => left' <= left]_vars

\* A client that heard SCHEDULED and finds no receipt is not left in doubt:
\* the request is still pending, or the process failed to publish, or died.
HeardIsKept ==
    \A i \in heard :
        \/ result[i] # "none" \/ failed \/ status \in {"crashed", "failure"}
        \/ (Running /\ pending # None /\ pending.id = i)

\* What clients are told of their requests, and what the server still owes
\* them, agree at every point where the process may die.
ReceiptsKept == SHTypeOK /\ CleanExitHasReceipts /\ PendingHasCountdown /\ HeardIsKept

\* Every scheduled request ends, with a receipt or with the process.
RequestsEnd == \A i \in Ids : (pending # None /\ pending.id = i /\ Running) ~>
                              (result[i] # "none" \/ failed \/ pc = "down")

=============================================================================
