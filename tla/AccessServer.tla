---------------------------- MODULE AccessServer ----------------------------
(***************************************************************************)
(* The access server of server/src/server/access_server.c and the use the  *)
(* main loop makes of it (socket/server.c, socket/request.c): job slots    *)
(* filled and polled by the main thread, a worker thread that alternates   *)
(* jobs and maintenance, an expiry thread, and shutdown.                   *)
(*                                                                         *)
(* The token store appears as what its callers can tell of it: the state   *)
(* of each token, the revocations not yet confirmed by the remote side and *)
(* whether the handle is poisoned.  AccessStore models it in full.  Time   *)
(* is the set of tokens whose deadline access_clock_now() has reached; the *)
(* clock the server uses never goes back, so the set only grows.           *)
(*                                                                         *)
(* Job IDs come from a 64-bit counter that submit() never lets wrap: here  *)
(* an ID is fresh if nobody refers to it, and the order of submission is   *)
(* kept in the queue.                                                      *)
(***************************************************************************)
EXTENDS Naturals, FiniteSets, SequencesExt

CONSTANTS
    Conns,     \* connections
    NTokens,   \* tokens there may ever be, ordered by their IDs
    Mortal,    \* the tokens with an expiry
    NSlots,    \* ACCESS_OUTBOX_LIMIT
    Issued,    \* the tokens that exist at the start
    Codes,     \* the tokens whose codes the clients present
    Kinds,     \* the kinds of administrative request players make
    RootKinds, \* and those made on the local administration socket
    NoConn     \* nobody

Tokens == 1..NTokens
Slots  == 1..NSlots
\* Every owner has at most two jobs and one more may be cancelled and running.
Ids    == 1..(2 * Cardinality(Conns) + 3)
AdminKinds == {"issue", "revoke"}

ASSUME SlotsAssumption  == NSlots \in Nat \ {0} /\ NTokens \in Nat
ASSUME TokensAssumption == Mortal \cup Issued \cup Codes \subseteq Tokens
ASSUME AdminAssumption  == Kinds \cup RootKinds \subseteq AdminKinds
ASSUME OwnerAssumption  == NoConn \notin Conns /\ IsFiniteSet(Conns)

\* access_job; a cleared one is zero.
Job == [id : Ids, state : {"QUEUED", "RUNNING", "DONE"}, kind : AdminKinds \cup {"auth"},
        permitted : BOOLEAN, cancelled : BOOLEAN, token : 0..NTokens,
        granted : BOOLEAN, code : 0..NTokens]
Free == [id |-> 0, state |-> "FREE", kind |-> "none", permitted |-> FALSE, cancelled |-> FALSE,
         token |-> 0, granted |-> FALSE, code |-> 0]

\* The fields of socket_struct that access control uses, and the player's
\* permission to use the access command.
Conn == [state : {"free", "login", "playing", "zombie", "dead"}, attempted : BOOLEAN,
         auth : Ids \cup {0}, admin : Ids \cup {0}, token : 0..NTokens, permitted : BOOLEAN]
NoConnection == [state |-> "free", attempted |-> FALSE, auth |-> 0, admin |-> 0, token |-> 0,
                 permitted |-> FALSE]

VARIABLES
    jobs,         \* worker.jobs
    queue,        \* the slots that are queued, oldest first
    maintenance,  \* worker.maintenance
    served,       \* maintenance_served of the worker thread
    stopping,     \* worker.stopping
    failed,       \* worker.failed
    wpc,          \* where the worker thread is
    slot,         \* the slot the worker runs
    row,          \* the revocation the worker takes to the remote side
    after,        \* worker.retry_after
    epc,          \* where the expiry thread is
    token,        \* the state of each token in the store
    rows,         \* the revocations the remote side has not confirmed
    due,          \* the tokens whose deadline has been reached
    poisoned,     \* the store refuses everything
    mpc,          \* where the main thread is
    at,           \* the connection whose poll is under way
    conns,        \* the connections
    root,         \* the job of the local administration socket
    asker,        \* history: the connection, in its present life, that asked for each token
    told          \* history: who was given the code of each token

store   == <<token, rows, poisoned>>
worker  == <<wpc, slot, row, after, served>>
history == <<asker, told>>
vars == <<jobs, queue, maintenance, served, stopping, failed, wpc, slot, row, after, epc,
          token, rows, due, poisoned, mpc, at, conns, root, asker, told>>

Init ==
    /\ jobs = [s \in Slots |-> Free] /\ queue = <<>>
    /\ maintenance = FALSE /\ served = FALSE /\ stopping = FALSE /\ failed = FALSE
    /\ wpc = "none" /\ slot = 0 /\ row = 0 /\ after = 0 /\ epc = "none"
    /\ token = [t \in Tokens |-> IF t \in Issued THEN "active" ELSE "unissued"]
    /\ rows = {} /\ due = {} /\ poisoned = FALSE
    /\ mpc = "init" /\ at = NoConn
    /\ conns = [c \in Conns |-> NoConnection]
    /\ root = 0
    /\ asker = [t \in Tokens |-> NoConn] /\ told = [t \in Tokens |-> {}]

-----------------------------------------------------------------------------
(* Start. *)

StartWorker ==
    /\ mpc = "init"
    /\ mpc' = "init2" /\ wpc' = "loop"
    /\ UNCHANGED <<jobs, queue, maintenance, served, stopping, failed, slot, row, after, epc,
                   store, due, at, conns, root, history>>

StartExpiry ==
    /\ mpc = "init2"
    /\ mpc' = "loop" /\ epc' = "loop"
    /\ UNCHANGED <<jobs, queue, maintenance, stopping, failed, worker, store, due, at, conns,
                   root, history>>

\* pthread_cond_signal() on worker.ready.
Signal == wpc' = IF wpc = "waiting" THEN "loop" ELSE wpc

\* The expiry thread cannot be created: the worker is told to stop.
StartFails ==
    /\ mpc = "init2"
    /\ mpc' = "joining" /\ epc' = "exited"
    /\ stopping' = TRUE /\ Signal
    /\ UNCHANGED <<jobs, queue, maintenance, served, failed, slot, row, after, store, due, at,
                   conns, root, history>>

-----------------------------------------------------------------------------
(* What the worker and the expiry thread do to the store.  Every commit may *)
(* fail and leave things as they were, or leave them unknown.               *)

Expiring == {t \in Tokens : token[t] = "active" /\ t \in due}

\* access_store_expire(); a failure poisons the store, and
\* ends the server unless there was no memory for a new snapshot.
Expire ==
    \/ poisoned /\ UNCHANGED <<store, failed>>
    \/ /\ ~poisoned
       /\ token' = [t \in Tokens |-> IF t \in Expiring THEN "expired" ELSE token[t]]
       /\ UNCHANGED <<rows, poisoned, failed>>
    \/ /\ ~poisoned /\ Expiring # {}
       /\ poisoned' = TRUE /\ failed' \in {failed, TRUE}
       /\ UNCHANGED <<token, rows>>

ExpiryThread ==
    /\ epc = "loop"
    /\ \/ stopping /\ epc' = "exited" /\ UNCHANGED <<store, failed>>
       \/ ~stopping /\ Expiring # {} /\ Expire /\ UNCHANGED epc
    /\ UNCHANGED <<jobs, queue, maintenance, stopping, worker, due, mpc, at, conns, root, history>>

\* Mistake: always the first row.
NextRow_First(a) == CHOOSE t \in rows : \A u \in rows : t <= u

\* access_store_revoke_next(): the next row after a in a cycle.
NextRow(a) ==
    LET later == {t \in rows : t > a}
    IN  CHOOSE t \in IF later # {} THEN later ELSE rows :
            \A u \in IF later # {} THEN later ELSE rows : t <= u

-----------------------------------------------------------------------------
(* The worker thread. *)

Queued == queue # <<>>

MaintenanceDue == maintenance /\ (~Queued \/ ~served)

WorkerExits ==
    /\ wpc = "loop" /\ stopping
    /\ wpc' = "exited"
    /\ UNCHANGED <<jobs, queue, maintenance, served, stopping, failed, slot, row, after, epc, store,
                   due, mpc, at, conns, root, history>>

WorkerMaintains ==
    /\ wpc = "loop" /\ ~stopping /\ MaintenanceDue
    /\ maintenance' = FALSE /\ served' = TRUE
    /\ wpc' = "maintain"
    /\ UNCHANGED <<jobs, queue, stopping, failed, slot, row, after, epc, store, due, mpc, at,
                   conns, root, history>>

WorkerPicks ==
    /\ wpc = "loop" /\ ~stopping /\ ~MaintenanceDue /\ Queued
    /\ slot' = Head(queue) /\ queue' = Tail(queue)
    /\ jobs' = [jobs EXCEPT ![Head(queue)].state = "RUNNING"]
    /\ served' = FALSE
    /\ wpc' = "run"
    /\ UNCHANGED <<maintenance, stopping, failed, row, after, epc, store, due, mpc, at, conns,
                   root, history>>

WorkerWaits ==
    /\ wpc = "loop" /\ ~stopping /\ ~MaintenanceDue /\ ~Queued
    /\ wpc' = "waiting"
    /\ UNCHANGED <<jobs, queue, maintenance, served, stopping, failed, slot, row, after, epc, store,
                   due, mpc, at, conns, root, history>>

\* maintain_store(): expiry, then the choice of a revocation.
Maintain ==
    /\ wpc = "maintain"
    /\ Expire
    /\ IF poisoned' \/ rows = {}
       THEN wpc' = "loop" /\ UNCHANGED <<row, after>>
       ELSE wpc' = "route" /\ row' = NextRow(after) /\ after' = NextRow(after)
    /\ UNCHANGED <<jobs, queue, maintenance, served, stopping, slot, epc, due, mpc, at, conns,
                   root, history>>

\* The remote side does not confirm, or confirms and the acknowledgement is
\* saved, not saved, or perhaps saved.
Route ==
    /\ wpc = "route"
    /\ wpc' = "loop" /\ row' = 0
    /\ \/ UNCHANGED <<store, failed>>
       \/ ~poisoned /\ rows' = rows \ {row} /\ UNCHANGED <<token, poisoned, failed>>
       \/ ~poisoned /\ failed' = TRUE /\ UNCHANGED store
       \/ ~poisoned /\ failed' = TRUE /\ poisoned' = TRUE /\ UNCHANGED <<token, rows>>
    /\ UNCHANGED <<jobs, queue, maintenance, served, stopping, slot, after, epc, due, mpc, at,
                   conns, root, history>>

\* access_store_authorize() for the token of the code.
Authorize(j) ==
    /\ UNCHANGED <<token, rows, failed>>
    /\ \/ UNCHANGED poisoned /\ jobs' = [jobs EXCEPT ![slot].granted = FALSE]
       \/ /\ ~poisoned /\ token[j.token] = "active" /\ j.token \notin due
          /\ jobs' = [jobs EXCEPT ![slot].granted = TRUE] /\ UNCHANGED poisoned
       \/ ~poisoned /\ poisoned' = TRUE /\ UNCHANGED jobs

\* access_store_issue(): the token is active and its code in the response, or
\* its route failed and it is revoked, or nothing happened, or the store is
\* poisoned.
IssueToken(j) ==
    /\ UNCHANGED failed
    /\ \/ UNCHANGED <<token, rows, poisoned, jobs>>
       \/ /\ ~poisoned /\ token[j.token] = "unissued"
          /\ token' = [token EXCEPT ![j.token] = "active"]
          /\ jobs' = [jobs EXCEPT ![slot].code = j.token]
          /\ UNCHANGED <<rows, poisoned>>
       \/ /\ ~poisoned /\ token[j.token] = "unissued"
          /\ token' = [token EXCEPT ![j.token] = "revoked"] /\ rows' = rows \cup {j.token}
          /\ UNCHANGED <<poisoned, jobs>>
       \/ ~poisoned /\ poisoned' = TRUE /\ UNCHANGED <<token, rows, jobs>>

\* access_store_revoke()
RevokeToken(j) ==
    /\ UNCHANGED <<failed, jobs>>
    /\ \/ UNCHANGED <<token, rows, poisoned>>
       \/ /\ ~poisoned /\ token[j.token] = "active"
          /\ token' = [token EXCEPT ![j.token] = "revoked"] /\ rows' = rows \cup {j.token}
          /\ UNCHANGED poisoned
       \/ ~poisoned /\ poisoned' = TRUE /\ UNCHANGED <<token, rows>>

\* A response that does not fit ends the server.
Unanswerable ==
    /\ failed' = TRUE
    /\ UNCHANGED <<store, jobs>>

WorkerRuns ==
    /\ wpc = "run"
    /\ wpc' = "ran"
    /\ LET j == jobs[slot]
       IN  \/ j.kind = "auth" /\ Authorize(j)
           \/ j.kind # "auth" /\ ~j.permitted /\ UNCHANGED <<store, failed, jobs>>
           \/ j.kind = "issue" /\ j.permitted /\ IssueToken(j)
           \/ j.kind = "revoke" /\ j.permitted /\ RevokeToken(j)
           \/ j.kind # "auth" /\ j.permitted /\ Unanswerable
    /\ UNCHANGED <<queue, maintenance, served, stopping, slot, row, after, epc, due, mpc, at, conns,
                   root, history>>

WorkerEnds ==
    /\ wpc = "ran"
    /\ wpc' = "loop"
    /\ jobs' = [jobs EXCEPT ![slot] = IF @.cancelled THEN Free ELSE [@ EXCEPT !.state = "DONE"]]
    /\ slot' = 0
    /\ UNCHANGED <<queue, maintenance, served, stopping, failed, row, after, epc, store, due,
                   mpc, at, conns, root, history>>

-----------------------------------------------------------------------------
(* Jobs as the main thread sees them. *)

InUse(s) == jobs[s].state # "FREE"
Refs == {conns[c].auth : c \in Conns} \cup {conns[c].admin : c \in Conns} \cup {root}
FreshIds == Ids \ (Refs \cup {jobs[s].id : s \in {x \in Slots : InUse(x)}})
SlotOf(id) == {s \in Slots : InUse(s) /\ jobs[s].id = id}

FreeSlots == {s \in Slots : ~InUse(s)}
Accepts == ~stopping /\ ~failed /\ FreeSlots # {}

\* submit() into the first free slot.
Submit(id, kind, t, permitted) ==
    LET s == CHOOSE x \in FreeSlots : \A y \in FreeSlots : x <= y
    IN  /\ jobs' = [jobs EXCEPT ![s] = [id |-> id, state |-> "QUEUED", kind |-> kind,
                                        permitted |-> permitted, cancelled |-> FALSE, token |-> t,
                                        granted |-> FALSE, code |-> 0]]
        /\ queue' = Append(queue, s)
        /\ Signal

NewId == CHOOSE i \in FreshIds : \A k \in FreshIds : i <= k

\* Mistake: a running job is not marked.
Cancelled_Forget(js, id) ==
    [s \in Slots |-> IF js[s].state \in {"QUEUED", "DONE"} /\ js[s].id = id THEN Free ELSE js[s]]

\* access_server_cancel(): the slots afterwards.
Cancelled(js, id) ==
    [s \in Slots |->
        IF js[s].state = "FREE" \/ id = 0 THEN js[s]
        ELSE IF js[s].id # id THEN js[s]
        ELSE IF js[s].state = "RUNNING" THEN [js[s] EXCEPT !.cancelled = TRUE] ELSE Free]

\* A job that is cancelled waits no longer.
Unqueued(q, js, id) ==
    LET gone == {i \in DOMAIN q : js[q[i]].id = id}
    IN  IF gone = {} THEN q ELSE RemoveAt(q, CHOOSE i \in gone : TRUE)

Cancel(id) == jobs' = Cancelled(jobs, id) /\ queue' = Unqueued(queue, jobs, id)

-----------------------------------------------------------------------------
(* access_server_session_check() *)

\* Mistake: only expiry ends what a token allows.
CheckResults_Expiry(t) ==
    IF failed THEN {"DENIED"}
    ELSE {"BUSY"} \cup (IF poisoned \/ token[t] = "expired" THEN {"DENIED"}
                        ELSE IF t \in due THEN {} ELSE {"VALID"})

\* The store's mutex may be taken at any time; an expiry that is not durable
\* yet is waited for.
CheckResults(t) ==
    IF failed THEN {"DENIED"}
    ELSE {"BUSY"} \cup (IF poisoned THEN {"DENIED"}
                        ELSE IF token[t] # "active" THEN {"DENIED"}
                        ELSE IF t \in due THEN {} ELSE {"VALID"})

-----------------------------------------------------------------------------
(* The main loop: commands of the clients. *)

Main == mpc = "loop"

Connect(c) ==
    /\ Main /\ conns[c].state = "free"
    /\ conns' = [conns EXCEPT ![c] = [NoConnection EXCEPT !.state = "login"]]
    /\ UNCHANGED <<jobs, queue, maintenance, stopping, failed, worker, epc, store, due, mpc, at,
                   root, history>>

\* socket_command_access_auth(), which a connection may send once.
AccessAuth(c, t) ==
    /\ Main /\ conns[c].state = "login" /\ ~conns[c].attempted
    /\ \/ /\ Accepts
          /\ Submit(NewId, "auth", t, FALSE)
          /\ conns' = [conns EXCEPT ![c].attempted = TRUE, ![c].auth = NewId]
       \/ /\ ~Accepts
          /\ conns' = [conns EXCEPT ![c].attempted = TRUE, ![c].state = "zombie"]
          /\ UNCHANGED <<jobs, queue, wpc>>
    /\ UNCHANGED <<maintenance, served, stopping, failed, slot, row, after, epc, store, due, mpc,
                   at, root, history>>

\* The character enters the game; it may use the access command or not.
EnterGame(c) ==
    /\ Main /\ conns[c].state = "login" /\ conns[c].token # 0
    /\ "VALID" \in CheckResults(conns[c].token)
    /\ \E p \in BOOLEAN : conns' = [conns EXCEPT ![c].state = "playing", ![c].permitted = p]
    /\ UNCHANGED <<jobs, queue, maintenance, stopping, failed, worker, epc, store, due, mpc, at,
                   root, history>>

ChangePermission(c) ==
    /\ Main /\ conns[c].state = "playing"
    /\ conns' = [conns EXCEPT ![c].permitted = ~@]
    /\ UNCHANGED <<jobs, queue, maintenance, stopping, failed, worker, epc, store, due, mpc, at,
                   root, history>>

\* socket_command_access_admin(), behind the session check of every command.
AccessAdmin(c, kind, t) ==
    /\ Main /\ conns[c].state = "playing"
    /\ "VALID" \in CheckResults(conns[c].token)
    /\ kind = "issue" => asker[t] = NoConn /\ token[t] = "unissued"
    /\ \/ /\ conns[c].admin = 0 /\ Accepts
          /\ Submit(NewId, kind, t, conns[c].permitted)
          /\ conns' = [conns EXCEPT ![c].admin = NewId]
          /\ asker' = IF kind = "issue" THEN [asker EXCEPT ![t] = c] ELSE asker
       \/ /\ conns[c].admin # 0 \/ ~Accepts
          /\ conns' = [conns EXCEPT ![c].state = "zombie"]
          /\ UNCHANGED <<jobs, queue, wpc, asker>>
    /\ UNCHANGED <<maintenance, served, stopping, failed, slot, row, after, epc, store, due, mpc,
                   at, root, told>>

\* The transport of a connection breaks, or its client is rejected.
Drop(c) ==
    /\ Main /\ conns[c].state \in {"login", "playing"}
    /\ \E s \in {"dead", "zombie"} : conns' = [conns EXCEPT ![c].state = s]
    /\ UNCHANGED <<jobs, queue, maintenance, stopping, failed, worker, epc, store, due, mpc, at,
                   root, history>>

\* free_newsocket(); saving the player may fail, which ends the server.
FreeSocket(c) ==
    /\ Main /\ conns[c].state \in {"dead", "zombie"}
    /\ LET js == Cancelled(jobs, conns[c].auth)
       IN  /\ jobs' = Cancelled(js, conns[c].admin)
           /\ queue' = Unqueued(Unqueued(queue, jobs, conns[c].auth), js, conns[c].admin)
    /\ conns' = [conns EXCEPT ![c] = NoConnection]
    /\ failed' \in {failed, TRUE}
    /\ asker' = [t \in Tokens |-> IF asker[t] = c THEN NoConn ELSE asker[t]]
    /\ UNCHANGED <<maintenance, stopping, worker, epc, store, due, mpc, at, root, told>>

-----------------------------------------------------------------------------
(* socket_access_poll_one(): authentication, administration, session.  *)

PollStart(c) ==
    /\ Main /\ conns[c].state # "free"
    /\ mpc' = "pollAuth" /\ at' = c
    /\ UNCHANGED <<jobs, queue, maintenance, stopping, failed, worker, epc, store, due, conns,
                   root, history>>

\* Mistake: the authorisation is not checked again when it is delivered.
Admits_Stale(j) == {j.granted}

\* access_server_auth_poll(): whether a finished authorisation is granted;
\* while the check is busy there is no answer.
Admits(j) ==
    IF ~j.granted THEN {FALSE} ELSE {r = "VALID" : r \in CheckResults(j.token) \ {"BUSY"}}

PollAuth ==
    LET c == conns[at]
        done == {s \in SlotOf(c.auth) : jobs[s].state = "DONE"}
    IN  /\ mpc = "pollAuth"
        /\ mpc' = "pollAdmin"
        /\ \/ /\ c.auth = 0
              /\ UNCHANGED <<jobs, queue, conns>>
           \* The deadline of a login may have passed at any time.
           \/ /\ c.auth # 0
              /\ Cancel(c.auth)
              /\ conns' = [conns EXCEPT ![at].auth = 0,
                                        ![at].state = IF @ = "login" THEN "dead" ELSE @]
           \/ /\ c.auth # 0 /\ c.state = "login"
              /\ \/ done = {} \/ \E s \in done : jobs[s].granted /\ "BUSY" \in CheckResults(jobs[s].token)
              /\ UNCHANGED <<jobs, queue, conns>>
           \/ /\ c.auth # 0 /\ c.state = "login"
              /\ \E s \in done : \E yes \in Admits(jobs[s]) :
                    /\ jobs' = [jobs EXCEPT ![s] = Free]
                    /\ conns' = [conns EXCEPT ![at].auth = 0,
                                              ![at].token = IF yes THEN jobs[s].token ELSE @,
                                              ![at].state = IF yes THEN @ ELSE "zombie"]
              /\ UNCHANGED queue
        /\ UNCHANGED <<maintenance, stopping, failed, worker, epc, store, due, at, root, history>>

\* Mistake: the permission is only checked when the request is made.
Discloses_Early(c, j) == j.permitted

\* access_server_admin_poll_permitted(): the response itself, or only "unavailable".
Discloses(c, j) == j.permitted /\ conns[c].permitted

PollAdmin ==
    LET c == conns[at]
        done == {s \in SlotOf(c.admin) : jobs[s].state = "DONE"}
    IN  /\ mpc = "pollAdmin"
        /\ mpc' = "pollSession"
        /\ \/ /\ c.admin = 0 \/ (c.state = "playing" /\ done = {})
              /\ UNCHANGED <<jobs, queue, conns, told>>
           \/ /\ c.admin # 0 /\ c.state # "playing"
              /\ Cancel(c.admin)
              /\ conns' = [conns EXCEPT ![at].admin = 0]
              /\ UNCHANGED told
           \/ /\ c.admin # 0 /\ c.state = "playing"
              /\ \E s \in done :
                    /\ jobs' = [jobs EXCEPT ![s] = Free]
                    /\ told' = IF jobs[s].code # 0 /\ Discloses(at, jobs[s])
                               THEN [told EXCEPT ![jobs[s].code] = @ \cup {at}] ELSE told
              /\ conns' = [conns EXCEPT ![at].admin = 0]
              /\ UNCHANGED queue
        /\ UNCHANGED <<maintenance, stopping, failed, worker, epc, store, due, at, root, asker>>

PollSession ==
    /\ mpc = "pollSession"
    /\ mpc' = "loop" /\ at' = NoConn
    /\ \E r \in IF conns[at].token = 0 THEN {"BUSY"} ELSE CheckResults(conns[at].token) :
          conns' = IF r = "DENIED" THEN [conns EXCEPT ![at].state = "dead"] ELSE conns
    /\ UNCHANGED <<jobs, queue, maintenance, stopping, failed, worker, epc, store, due, root, history>>

-----------------------------------------------------------------------------
(* The local administration socket: one request at a time. *)

RootSubmit(kind, t) ==
    /\ Main /\ root = 0 /\ Accepts
    /\ kind = "issue" => asker[t] = NoConn /\ token[t] = "unissued"
    /\ Submit(NewId, kind, t, TRUE)
    /\ root' = NewId
    /\ UNCHANGED <<maintenance, served, stopping, failed, slot, row, after, epc, store, due, mpc,
                   at, conns, history>>

RootPoll ==
    /\ Main /\ root # 0
    /\ \E s \in SlotOf(root) : jobs[s].state = "DONE" /\ jobs' = [jobs EXCEPT ![s] = Free]
    /\ root' = 0
    /\ UNCHANGED <<queue, maintenance, stopping, failed, worker, epc, store, due, mpc, at, conns,
                   history>>

\* The client takes too long or is gone.
RootClose ==
    /\ Main /\ root # 0
    /\ Cancel(root)
    /\ root' = 0
    /\ UNCHANGED <<maintenance, stopping, failed, worker, epc, store, due, mpc, at, conns, history>>

-----------------------------------------------------------------------------
(* Time and shutdown. *)

\* access_server_tick(), once a second.
Tick ==
    /\ Main
    /\ maintenance' = TRUE /\ Signal
    /\ UNCHANGED <<jobs, queue, served, stopping, failed, slot, row, after, epc, store, due, mpc,
                   at, conns, root, history>>

DeadlinePasses(t) ==
    /\ t \in Mortal \ due
    /\ due' = due \cup {t}
    /\ UNCHANGED <<jobs, queue, maintenance, stopping, failed, worker, epc, store, mpc, at, conns,
                   root, history>>

Stop == stopping' = TRUE /\ Signal

\* access_server_shutdown(), on request or because the server is not healthy.
Shutdown ==
    /\ Main
    /\ Stop
    /\ mpc' = "joining"
    /\ UNCHANGED <<jobs, queue, maintenance, served, failed, slot, row, after, epc, store, due, at,
                   conns, root, history>>

\* Both threads are joined and every slot is cleared; then the store is
\* fenced, so nothing of it changes any more.
Joined ==
    /\ mpc = "joining" /\ wpc = "exited" /\ epc = "exited"
    /\ mpc' = "stopped"
    /\ jobs' = [s \in Slots |-> Free] /\ queue' = <<>>
    /\ UNCHANGED <<maintenance, stopping, failed, worker, epc, store, due, at, conns, root, history>>

Stopped == mpc = "stopped" /\ UNCHANGED vars

-----------------------------------------------------------------------------
Worker == WorkerExits \/ WorkerMaintains \/ WorkerPicks \/ WorkerWaits \/ Maintain \/ Route
          \/ WorkerRuns \/ WorkerEnds

Poll == PollAuth \/ PollAdmin \/ PollSession

Next ==
    \/ StartWorker \/ StartExpiry \/ StartFails
    \/ Worker \/ ExpiryThread
    \/ \E c \in Conns : Connect(c) \/ EnterGame(c) \/ ChangePermission(c) \/ Drop(c) \/ FreeSocket(c)
                        \/ PollStart(c)
    \/ \E c \in Conns, t \in Codes : AccessAuth(c, t)
    \/ \E c \in Conns, t \in Tokens, k \in Kinds : AccessAdmin(c, k, t)
    \/ \E k \in RootKinds, t \in Tokens : RootSubmit(k, t)
    \/ Poll \/ RootPoll \/ RootClose
    \/ Tick \/ \E t \in Tokens : DeadlinePasses(t)
    \/ Shutdown \/ Joined \/ Stopped

Spec == Init /\ [][Next]_vars

\* The threads run, the main loop polls every connection and ticks, and the
\* check of a session is not busy for ever: the mutex is only held while a
\* snapshot is written.  Clients, administrators, the remote side and the
\* commits may do what they want.
Fairness ==
    /\ WF_vars(Worker) /\ WF_vars(ExpiryThread)
    /\ WF_vars(StartWorker) /\ WF_vars(StartExpiry \/ StartFails) /\ WF_vars(Joined)
    /\ WF_vars(Poll) /\ SF_vars(Tick)
    /\ \A c \in Conns :
          /\ SF_vars(PollStart(c))
          /\ SF_vars(PollSession /\ at = c /\ conns'[c].state = "dead")

FairSpec == Spec /\ Fairness

-----------------------------------------------------------------------------
(* Properties. *)

ASVTypeOK ==
    /\ jobs \in [Slots -> Job \cup {Free}]
    /\ queue \in Seq(Slots)
    /\ {maintenance, served, stopping, failed, poisoned} \subseteq BOOLEAN
    /\ wpc \in {"none", "loop", "waiting", "maintain", "route", "run", "ran", "exited"}
    /\ epc \in {"none", "loop", "exited"}
    /\ slot \in Slots \cup {0} /\ row \in 0..NTokens /\ after \in 0..NTokens
    /\ token \in [Tokens -> {"unissued", "active", "revoked", "expired"}]
    /\ rows \subseteq {t \in Tokens : token[t] = "revoked"}
    /\ due \subseteq Mortal
    /\ mpc \in {"init", "init2", "loop", "pollAuth", "pollAdmin", "pollSession", "joining", "stopped"}
    /\ conns \in [Conns -> Conn]
    /\ root \in Ids \cup {0}

\* No slot is lost and none is shared: outside a shutdown every slot in use
\* belongs to exactly one requester, or is cancelled and about to be freed by
\* the worker that runs it, whatever the order of disconnects, timeouts and
\* completions.
JobsAreOwned ==
    /\ \A s \in Slots : (\E i \in DOMAIN queue : queue[i] = s) <=> jobs[s].state = "QUEUED"
    /\ \A s \in Slots : jobs[s].state = "RUNNING" <=> wpc \in {"run", "ran"} /\ slot = s
    /\ \A s \in Slots : InUse(s) =>
          /\ jobs[s].cancelled => jobs[s].state = "RUNNING"
          /\ ~jobs[s].cancelled => jobs[s].id \in Refs
          /\ \A r \in Slots : InUse(r) /\ jobs[r].id = jobs[s].id => r = s
    /\ mpc # "stopped" => \A i \in Refs \ {0} : \E s \in Slots : InUse(s) /\ jobs[s].id = i /\ ~jobs[s].cancelled

\* The worker never sleeps over queued work, maintenance or a shutdown.
WorkerAwake == wpc = "waiting" => ~Queued /\ ~maintenance /\ ~stopping

\* Slots, queue and requesters agree, and the worker is awake to serve them.
JobsAgree == ASVTypeOK /\ JobsAreOwned /\ WorkerAwake

\* A connection is admitted by a token only while the token is active and its
\* deadline has not been reached, however long ago it was authorised.
AdmissionsAreCurrent ==
    [][\A c \in Conns : conns'[c].token # 0 /\ conns'[c].token # conns[c].token =>
          token[conns'[c].token] = "active" /\ conns'[c].token \notin due /\ ~poisoned]_vars

\* "never the already-computed response or one-time issuance code": the code
\* of a token is given to nobody but the connection that asked for it, and
\* only if its character may still use the command at that moment.
CodesStayWithAsker ==
    [][\A t \in Tokens, c \in Conns : c \in told'[t] \ told[t] =>
          c = asker[t] /\ conns[c].permitted /\ conns[c].state = "playing"]_vars

\* Every revocation is taken to the remote side, although others fail, come
\* and go.
EveryRowIsTried ==
    \A t \in Tokens : t \in rows ~> (wpc = "route" /\ row = t) \/ t \notin rows \/ poisoned \/ stopping

\* A session whose token is revoked or expired ends.
RevokedSessionsEnd ==
    \A c \in Conns : (conns[c].token # 0 /\ token[conns[c].token] # "active") ~>
                     (conns[c].state \in {"dead", "free"} \/ stopping)

=============================================================================
