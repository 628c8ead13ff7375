------------------------- MODULE MetaserverPublisher -------------------------
(***************************************************************************)
(* The publisher of server/src/socket/metaserver.c, with the cadence of    *)
(* metaserver_policy.c: it tells the metaserver how many players there     *)
(* are, retries, renews, and stops when it is refused.  The main thread    *)
(* calls metaserver_service() on every pass; each request has a worker of  *)
(* libatrinik/curl.c, which sets its state and then calls back.  Either    *)
(* may be first to handle the result; request_lock is held for a step.     *)
(*                                                                         *)
(* Times are left out: a deadline that is set is "wait", and "due" some    *)
(* time later.  Sequence numbers are left out too: the metaserver takes a  *)
(* request if it is newer than what it took before.                        *)
(***************************************************************************)
EXTENDS Naturals, Sequences

CONSTANTS
    MaxPlayers,     \* players that are on at once; a bound of the model
    MaxLate,        \* given up requests that may still arrive; a bound
    PublishTokens,  \* METASERVER_ATTEMPT_RATE_CAPACITY
    Public,         \* settings.server_public
    Protected       \* settings.access_required

ASSUME PublisherAssumption == MaxPlayers \in Nat /\ MaxLate \in Nat /\ PublishTokens \in Nat \ {0}
ASSUME SettingsAssumption == Public \in BOOLEAN /\ Protected \in BOOLEAN

Counts == 0..MaxPlayers
Nothing == MaxPlayers + 1       \* no snapshot
Snapshots == Counts \cup {Nothing}
NoRequest == [worker |-> "none"]

VARIABLES
    count,          \* players
    main,           \* what the main thread does: "idle", "free", "join", "cadence"
    leaving,        \* metaserver_deinit()
    request,        \* the request there is
    current,        \* current_request points to it
    cadence,        \* publish_cadence
    snaps,          \* published_snapshot, attempted_snapshot and blocked_snapshot
    listed,         \* what the metaserver lists
    late,           \* given up requests that may still arrive, oldest first
    calm            \* the players stay and the metaserver takes everything

server == <<count, main, leaving, request, current, cadence, snaps>>
vars == <<server, listed, late, calm>>

\* metaserver_publish_cadence_init()
InitCadence == [dirty |-> "due", retry |-> "no", beat |-> "no", tokens |-> PublishTokens,
                published |-> FALSE, suspended |-> FALSE, replayed |-> FALSE]

\* metaserver_init()
InitServer ==
    /\ count = 0 /\ main = "idle" /\ leaving = FALSE
    /\ request = NoRequest /\ current = FALSE
    /\ cadence = InitCadence
    /\ snaps = [published |-> Nothing, attempted |-> Nothing, blocked |-> Nothing]

Init == InitServer /\ listed = Nothing /\ late = <<>> /\ calm = FALSE

\* metaserver_public_snapshot()
Snapshot == IF Public THEN count ELSE 0

-----------------------------------------------------------------------------
(* What becomes of the cadence. *)

\* metaserver_publish_cadence_changed()
Changed(c, actual) == [c EXCEPT !.dirty = "wait", !.suspended = @ /\ ~actual]

\* metaserver_publish_cadence_failed()
Failed(c) == [c EXCEPT !.dirty = "due", !.retry = "wait"]

\* Mistake: success is final.
Succeeded_Final(c) ==
    [c EXCEPT !.published = TRUE, !.suspended = FALSE, !.replayed = FALSE, !.retry = "no", !.beat = "no"]

\* metaserver_publish_cadence_succeeded()
Succeeded(c) ==
    [c EXCEPT !.published = TRUE, !.suspended = FALSE, !.replayed = FALSE, !.retry = "no",
              !.beat = IF Public \/ Protected THEN "wait" ELSE "no"]

\* metaserver_publish_cadence_suspend()
Suspended(c) == [c EXCEPT !.suspended = TRUE, !.retry = "no"]

\* An attempt is not held back.
Free(c) == ~c.suspended /\ c.tokens > 0 /\ c.retry # "wait"

\* metaserver_publish_cadence_due()
Due(c) == Free(c) /\ (c.dirty = "due" \/ (c.published /\ c.beat = "due"))

\* metaserver_publish_cadence_needs_snapshot()
NeedsSnapshot(c) == Due(c) \/ (c.suspended /\ c.dirty # "no")

\* metaserver_publish_cadence_due(): what is not new is not dirty.
Settled(c, changed) ==
    IF Free(c) /\ c.dirty = "due" /\ c.published /\ ~changed THEN [c EXCEPT !.dirty = "no"] ELSE c

\* metaserver_publish_cadence_attempted()
Attempted(c) == [c EXCEPT !.tokens = @ - 1, !.dirty = "no", !.retry = "no"]

\* A suspension ends with the state that was rejected.
Reconsidered(c) ==
    IF ~c.suspended THEN c
    ELSE IF Snapshot # snaps.blocked THEN Changed(c, TRUE) ELSE [c EXCEPT !.dirty = "no"]

-----------------------------------------------------------------------------
(* A result. *)

\* current_request_handled
Unhandled == request.handled = 0

\* metaserver_publish_replay_recover_locked(): the answer may be one that says
\* nothing, and the recovery may fail.
Replayed == IF request.outcome = "replay" THEN {cadence.replayed, TRUE} ELSE {cadence.replayed}

\* metaserver_publish_suspend_locked()
Suspends ==
    /\ snaps' = [snaps EXCEPT !.blocked = snaps.attempted]
    /\ \E r \in Replayed : cadence' = Suspended([cadence EXCEPT !.replayed = r])

\* metaserver_update_request_locked()
Handle ==
    \/ ~Unhandled /\ UNCHANGED <<cadence, snaps>>
    \/ /\ Unhandled /\ request.outcome = "ok"
       /\ snaps' = [snaps EXCEPT !.published = snaps.attempted, !.blocked = Nothing]
       /\ cadence' = Succeeded(cadence)
    \/ Unhandled /\ request.outcome = "retry" /\ cadence' = Failed(cadence) /\ UNCHANGED snaps
    \/ /\ Unhandled /\ request.outcome = "replay" /\ ~cadence.replayed
       /\ cadence' = Failed([cadence EXCEPT !.replayed = TRUE]) /\ UNCHANGED snaps
    \/ Unhandled /\ request.outcome \in {"replay", "reject"} /\ Suspends

\* How often the result was handled.
Counted == IF Unhandled THEN request.handled + 1 ELSE request.handled

-----------------------------------------------------------------------------
(* The main thread. *)

\* A player joins or leaves: metaserver_info_update()
Play ==
    /\ main = "idle" /\ ~leaving /\ ~calm
    /\ \E n \in {count - 1, count + 1} \cap Counts : count' = n
    /\ cadence' = IF Public THEN Changed(cadence, FALSE) ELSE cadence
    /\ UNCHANGED <<main, leaving, request, current, snaps, listed, late, calm>>

\* Mistake: the pointer is cleared before the worker is joined.
Kept_Not == FALSE

Kept == TRUE

\* metaserver_service() finds a result, handles it unless the callback did, and
\* goes on to free the request.
ServiceDone ==
    /\ main = "idle" /\ current /\ request.worker # "flight"
    /\ Handle
    /\ request' = [request EXCEPT !.handled = Counted]
    /\ main' = "free" /\ current' = Kept
    /\ UNCHANGED <<count, leaving, listed, late, calm>>

\* metaserver_deinit()
Deinit ==
    /\ main = "idle" /\ ~leaving /\ ~calm
    /\ leaving' = TRUE
    /\ main' = IF current THEN "free" ELSE "idle"
    /\ UNCHANGED <<count, request, current, cadence, snaps, listed, late, calm>>

\* curl_request_free() cancels the request
Cancel ==
    /\ main = "free"
    /\ request' = [request EXCEPT !.cancelled = TRUE]
    /\ main' = "join"
    /\ UNCHANGED <<count, leaving, current, cadence, snaps, listed, late, calm>>

\* and joins its worker.
Join ==
    /\ main = "join" /\ request.worker = "over"
    /\ request' = NoRequest /\ current' = FALSE
    /\ main' = IF leaving THEN "idle" ELSE "cadence"
    /\ UNCHANGED <<count, leaving, cadence, snaps, listed, late, calm>>

NewRequest == [worker |-> "flight", applied |-> FALSE, cancelled |-> FALSE, outcome |-> "none", handled |-> 0]

\* The rest of metaserver_service(): perhaps an attempt.  The request may not
\* even be made.
Service ==
    /\ main \in {"idle", "cadence"} /\ ~current /\ ~leaving
    /\ LET c == Settled(Reconsidered(cadence), Snapshot # snaps.published)
       IN  \/ ~NeedsSnapshot(cadence) /\ UNCHANGED <<cadence, snaps, request, current>>
           \/ NeedsSnapshot(cadence) /\ ~Due(c) /\ cadence' = c /\ UNCHANGED <<snaps, request, current>>
           \/ /\ NeedsSnapshot(cadence) /\ Due(c)
              /\ snaps' = [snaps EXCEPT !.attempted = Snapshot]
              /\ \/ cadence' = Attempted(c) /\ request' = NewRequest /\ current' = TRUE
                 \/ ~calm /\ cadence' = Failed(Attempted(c)) /\ UNCHANGED <<request, current>>
    /\ main' = "idle"
    /\ UNCHANGED <<count, leaving, listed, late, calm>>

\* The server is started again.
Restart ==
    /\ leaving /\ main = "idle" /\ ~current
    /\ count' = 0 /\ main' = "idle" /\ leaving' = FALSE
    /\ cadence' = InitCadence
    /\ snaps' = [published |-> Nothing, attempted |-> Nothing, blocked |-> Nothing]
    /\ UNCHANGED <<request, current, listed, late, calm>>

-----------------------------------------------------------------------------
(* Time. *)

Elapse(which) ==
    /\ cadence[which] = "wait" /\ cadence' = [cadence EXCEPT ![which] = "due"]
    /\ UNCHANGED <<count, main, leaving, request, current, snaps, listed, late, calm>>

RefillPublisher ==
    /\ cadence.tokens < PublishTokens /\ cadence' = [cadence EXCEPT !.tokens = @ + 1]
    /\ UNCHANGED <<count, main, leaving, request, current, snaps, listed, late, calm>>

-----------------------------------------------------------------------------
(* The request, its worker and the metaserver. *)

\* The metaserver takes the request, and no older one after it.
Apply ==
    /\ request.worker = "flight" /\ ~request.applied
    /\ listed' = snaps.attempted /\ late' = <<>>
    /\ request' = [request EXCEPT !.applied = TRUE]
    /\ UNCHANGED <<count, main, leaving, current, cadence, snaps, calm>>

\* A request that was given up arrives after all.
ApplyLate(i) ==
    /\ listed' = late[i] /\ late' = SubSeq(late, i + 1, Len(late))
    /\ UNCHANGED <<server, calm>>

\* What an answer, or the lack of one, amounts to: metaserver_publish_failure_action()
Outcomes ==
    IF calm THEN IF request.applied THEN {"ok"} ELSE {}
    ELSE IF request.applied THEN {"ok", "retry", "reject"} ELSE {"retry", "replay", "reject"}

\* The worker sets the state of the request.
Respond(outcome) ==
    /\ request.worker = "flight"
    /\ outcome \in Outcomes \/ (request.cancelled /\ outcome = "retry")
    /\ request' = [request EXCEPT !.worker = "ended", !.outcome = outcome]
    /\ late' \in IF outcome = "retry" /\ ~request.applied /\ Len(late) < MaxLate
                 THEN {late, Append(late, snaps.attempted)} ELSE {late}
    /\ UNCHANGED <<count, main, leaving, current, cadence, snaps, listed, calm>>

\* curl_request_notify()
Notify ==
    /\ request.worker = "ended"
    /\ request' = [request EXCEPT !.worker = IF request.cancelled THEN "over" ELSE "admitted"]
    /\ UNCHANGED <<count, main, leaving, current, cadence, snaps, listed, late, calm>>

\* metaserver_update_request()
Callback ==
    /\ request.worker = "admitted"
    /\ Handle
    /\ request' = [request EXCEPT !.worker = "over", !.handled = Counted]
    /\ UNCHANGED <<count, main, leaving, current, listed, late, calm>>

\* From now on nothing changes and nothing fails.
Calm == ~calm /\ ~leaving /\ calm' = TRUE /\ UNCHANGED <<server, listed, late>>

-----------------------------------------------------------------------------
Worker == Respond("ok") \/ Respond("retry") \/ Respond("replay") \/ Respond("reject") \/ Notify \/ Callback
Main == ServiceDone \/ Cancel \/ Join \/ Service

Next ==
    \/ Play \/ Deinit \/ Restart \/ Main \/ Worker \/ Apply \/ Calm \/ RefillPublisher
    \/ \E which \in {"dirty", "retry", "beat"} : Elapse(which)
    \/ \E i \in DOMAIN late : ApplyLate(i)

Spec == Init /\ [][Next]_vars

\* The main loop runs metaserver_service() on every pass, a request has a time
\* limit and gets an answer, and time passes.
Fairness ==
    /\ WF_vars(ServiceDone) /\ WF_vars(Cancel) /\ WF_vars(Join) /\ WF_vars(Service)
    /\ WF_vars(Worker) /\ WF_vars(Apply) /\ WF_vars(RefillPublisher)
    /\ \A which \in {"dirty", "retry", "beat"} : WF_vars(Elapse(which))

FairSpec == Spec /\ Fairness

-----------------------------------------------------------------------------
(* Properties. *)

Times == {"no", "wait", "due"}

\* Types and limits.
MPTypeOK ==
    /\ count \in Counts /\ main \in {"idle", "free", "join", "cadence"}
    /\ leaving \in BOOLEAN /\ current \in BOOLEAN /\ calm \in BOOLEAN
    /\ cadence \in [dirty : Times, retry : Times, beat : Times, tokens : 0..PublishTokens,
                    published : BOOLEAN, suspended : BOOLEAN, replayed : BOOLEAN]
    /\ snaps \in [{"published", "attempted", "blocked"} -> Snapshots]
    /\ listed \in Snapshots
    /\ late \in Seq(Snapshots) /\ Len(late) <= MaxLate

\* HARD_ASSERT(current_request == request) in metaserver_update_request(): a
\* callback under way finds its request still current.
CallbackOwns == request.worker = "admitted" => current

\* A result is handled at most once, and once before the request is freed,
\* unless the server leaves.
HandledOnce ==
    /\ request # NoRequest => request.handled <= 1
    /\ main = "join" /\ ~leaving => request.handled = 1

\* The publisher stays suspended only for the state that was rejected: a change
\* while the request was under way, or later, is noticed.
SuspendedForCause ==
    cadence.suspended => snaps.blocked # Nothing /\ (cadence.dirty = "no" => snaps.blocked = Snapshot)

\* No change of the players is lost to the publisher: if nothing is dirty, under
\* way or suspended, and the server stays, the state it last had accepted is that
\* of the players that are on.  That is its own idea of what is published.
NothingForgotten ==
    cadence.dirty = "no" /\ ~cadence.suspended /\ ~current /\ ~leaving /\ Public => snaps.published = Snapshot

\* And that idea is what the metaserver lists, whatever arrives late, until the
\* heartbeat is due or an attempt with another state has been made.  Such an
\* attempt may be given up and applied after all: if the players are then back at
\* what was published, Settled() is content, and the listing stays wrong until
\* the heartbeat, which is left to CatchesUp.
ListedAsPublished ==
    cadence.published /\ cadence.beat # "due" /\ snaps.attempted = snaps.published => listed = snaps.published

\* At every interleaving of the poll, the callback and what the metaserver does,
\* each result is taken once, no change is forgotten, and the listing is what was
\* published as long as no other attempt leaves it in doubt.
PublisherSound ==
    MPTypeOK /\ CallbackOwns /\ HandledOnce /\ SuspendedForCause /\ NothingForgotten /\ ListedAsPublished

\* Once nothing changes any more and the metaserver takes what it is sent, it
\* lists the players that are on, whatever was lost, refused or late before,
\* unless just that state was rejected.
CatchesUp == <>[]calm => <>[](listed = Snapshot \/ (cadence.suspended /\ snaps.blocked = Snapshot))

=============================================================================
