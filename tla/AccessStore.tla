----------------------------- MODULE AccessStore -----------------------------
(***************************************************************************)
(* The access-token store of server/src/server/access_tokens.c: one open   *)
(* handle, the snapshot file under it, and what a crash or a power failure *)
(* leaves of both.                                                         *)
(*                                                                         *)
(* The store's mutex makes every call one step, except the issue of a      *)
(* token, which lets go of it while the remote route is asked for.  A call *)
(* that answers without changing anything is no step.  Callers pass the    *)
(* time they read from a wall clock, which may go back.                    *)
(***************************************************************************)
EXTENDS AccessSnapshot

CONSTANTS
    Generations,   \* how often one issue may draw an identity: 3 in the code
    InitialStores  \* the snapshot files there may be at the start

ASSUME GenerationAssumption == Generations \in Nat \ {0}
\* The files an earlier process of the server may have written.
ASSUME InitialAssumption ==
    /\ InitialStores \subseteq Snapshot
    /\ \A s \in InitialStores : Valid(s) /\ IssuedOnce(s) /\ \A q \in Receipted(s) : TrueReceipt(s, q)

Times == 1..MaxClock

VARIABLES
    up,        \* the store is open
    state,     \* the handle's snapshot
    poisoned,  \* the handle refuses everything
    fenced,    \* a shutdown has begun
    observed,  \* observed_clock
    disk,      \* the snapshot file
    durable,   \* the snapshots a power failure may leave
    calls,     \* the issues that wait for their route
    rows,      \* the revocations that were handed to the remote route
    minted,    \* history: the identities generated so far
    ended,     \* history: the tokens whose end was committed
    acked,     \* history: the changes that were reported as committed
    admitted,  \* history: the admissions that were granted
    latest     \* history: the latest time a session check or expiry saw

handle == <<up, fenced>>
history == <<minted, ended, acked, admitted, latest>>
vars == <<up, state, poisoned, fenced, observed, disk, durable, calls, rows,
          minted, ended, acked, admitted, latest>>

NoCall == [token |-> "none"]

\* The store exists and is not open yet.
Init ==
    /\ up = FALSE /\ poisoned = FALSE /\ fenced = FALSE /\ observed = 0
    /\ state = EmptySnapshot
    /\ \E s \in InitialStores : disk = s /\ durable = {s} /\ minted = Known(s)
    /\ calls = [q \in Requests |-> NoCall]
    /\ rows = {}
    /\ ended = {} /\ acked = {} /\ admitted = {} /\ latest = 0

Ready == up /\ ~poisoned /\ ~fenced

Next_(now) == Candidate(state, now, observed)

-----------------------------------------------------------------------------
(* commit() *)

\* Mistake: success is reported before the directory is synchronised.
Saved_NoSync(n) ==
    /\ state' = n /\ disk' = n /\ durable' = durable \cup {n}
    /\ observed' = Later(observed, n.clock)
    /\ UNCHANGED poisoned

\* Written, replaced, synchronised and read back.  commit() refuses what
\* validate() rejects; SnapshotsAreValid shows that nothing is rejected.
Saved(n) ==
    /\ state' = n /\ disk' = n /\ durable' = {n}
    /\ observed' = Later(observed, n.clock)
    /\ UNCHANGED poisoned

\* Nothing was replaced.
SaveFailed == UNCHANGED <<state, poisoned, disk, durable>>

\* The file was replaced, and then the directory could not be synchronised or
\* the file not be read back.
Indeterminate(n) ==
    /\ poisoned' = TRUE /\ disk' = n /\ durable' = durable \cup {n}
    /\ UNCHANGED state

NotSaved(n) == SaveFailed \/ Indeterminate(n)

\* A failed expiry poisons the handle even if nothing was replaced.
Poison == poisoned' = TRUE /\ UNCHANGED <<state, disk, durable>>

\* A change that is reported to its caller as committed.
Change(q, expected, n) == [request |-> q, expected |-> expected, revision |-> n.revision]

-----------------------------------------------------------------------------
(* Issue. *)

Fresh == TokenIds \ minted

\* The token is staged; the route is asked for without the mutex.
Issue(q, expires, now) ==
    LET n == Prune(Next_(now), now)
    IN  /\ Ready /\ q \notin Receipted(state)
        /\ expires # 0 => expires > now
        /\ now >= state.clock
        /\ HasCandidate(state)
        /\ Cardinality(Retained(n)) < TokenLimit
        /\ Cardinality(Receipted(n)) < ReceiptLimit
        /\ Cardinality(RoutePending(n)) < OutboxLimit
        /\ \E t \in Fresh :
              LET staged == Staged(n, q, t, expires, now)
              IN  /\ minted' = minted \cup {t}
                  /\ \/ /\ Saved(staged)
                        /\ calls' = [calls EXCEPT ![q] =
                               [token |-> t, generated |-> 1, now |-> now, expected |-> state.revision]]
                     \/ NotSaved(staged) /\ UNCHANGED <<observed, calls>>
        /\ UNCHANGED <<handle, rows, ended, acked, admitted, latest>>

\* Mistake: the token is activated whatever happened to it meanwhile.
StillPending_Unchecked(t) == t \in Retained(state)

\* The recheck after the mutex is taken again; a pending token still has the
\* revision it was issued with.
StillPending(t) == t \in Retained(state) /\ StateOf(state, t) = "PENDING"

\* The route collided: the token gets a new identity and the route is asked
\* again.
IssueCollides(q) ==
    LET c == calls[q]
    IN  /\ c # NoCall /\ Ready
        /\ c.generated < Generations
        /\ StillPending(c.token) /\ HasCandidate(state)
        /\ \E t \in Fresh :
              LET n == Restaged(Next_(c.now), q, c.token, t, c.generated + 1)
              IN  /\ minted' = minted \cup {t}
                  /\ \/ Saved(n) /\ calls' = [calls EXCEPT ![q].token = t, ![q].generated = @ + 1]
                     \/ NotSaved(n) /\ calls' = [calls EXCEPT ![q] = NoCall] /\ UNCHANGED observed
        /\ UNCHANGED <<handle, rows, ended, acked, admitted, latest>>

\* The route is active: so is the token, and the caller gets its code.
IssueActivates(q) ==
    LET c == calls[q]
        n == Activated(Next_(c.now), q, c.token)
    IN  /\ c # NoCall /\ Ready
        /\ StillPending(c.token) /\ HasCandidate(state)
        /\ \/ /\ Saved(n)
              /\ acked' = acked \cup {Change(q, c.expected, n)}
           \/ NotSaved(n) /\ UNCHANGED <<observed, acked>>
        /\ calls' = [calls EXCEPT ![q] = NoCall]
        /\ UNCHANGED <<handle, rows, minted, ended, admitted, latest>>

\* No route, a late answer, or a token that is no longer pending.
IssueGivesUp(q) ==
    /\ up /\ calls[q] # NoCall
    /\ calls' = [calls EXCEPT ![q] = NoCall]
    /\ UNCHANGED <<handle, state, poisoned, observed, disk, durable, rows, history>>

-----------------------------------------------------------------------------
(* Revocation and removal. *)

\* A change to the end of token t for a new request q.
Mutate(q, t, now, n) ==
    /\ Ready /\ q \notin Receipted(state) /\ t \in Retained(state)
    /\ now >= state.clock
    /\ HasCandidate(state)
    /\ \/ /\ Saved(n)
          /\ ended' = ended \cup {t}
          /\ acked' = acked \cup {Change(q, state.revision, n)}
       \/ NotSaved(n) /\ UNCHANGED <<observed, ended, acked>>
    /\ UNCHANGED <<handle, calls, rows, minted, admitted, latest>>

RoomForReceipt(n) == Cardinality(Receipted(n)) < ReceiptLimit

Revoke(q, t, now) ==
    LET n == Prune(Next_(now), now)
    IN  RoomForReceipt(n) /\ t \in Retained(n) /\ Mutate(q, t, now, Revoked(n, q, t, now))

\* A token whose remote revocation is confirmed is erased at once.
Remove(q, t, now) ==
    LET n == Prune(Next_(now), now)
    IN  /\ RoomForReceipt(n) /\ t \in Retained(n)
        /\ \/ StateOf(n, t) # "REVOKED" \/ n.tokens[t].route_pending
           \/ Cardinality(Tombstoned(n)) < TombstoneLimit
        /\ Mutate(q, t, now, Removed(n, q, t, now))

\* The same removal is requested again after tombstones were full.
ResumeRemove(q, now) ==
    LET t == state.receipts[q].token
        n == Prune(Next_(now), now)
        e == Erase(n, t, now)
    IN  /\ Ready /\ q \in Receipted(state)
        /\ state.receipts[q].op = "REMOVE" /\ state.receipts[q].outcome = "PENDING"
        /\ t \in Retained(state) /\ StateOf(state, t) = "REVOKED" /\ ~state.tokens[t].route_pending
        /\ now >= state.clock /\ HasCandidate(state)
        /\ Cardinality(Tombstoned(n)) < TombstoneLimit
        /\ Saved(e) \/ (NotSaved(e) /\ UNCHANGED observed)
        /\ UNCHANGED <<handle, calls, rows, history>>

\* access_store_revoke_next() hands out one revocation for the remote route;
\* which one comes next in its rotation is left open.
RevokeNext(t) ==
    /\ up /\ ~poisoned
    /\ t \in RoutePending(state) /\ StateOf(state, t) # "PENDING"
    /\ rows' = rows \cup {[token |-> t, revision |-> state.tokens[t].revision,
                           route |-> state.tokens[t].route]}
    /\ UNCHANGED <<handle, state, poisoned, observed, disk, durable, calls, history>>

\* access_store_route_ack(): the remote side confirmed a revocation, maybe
\* not for the first time.
RouteAck(row, now) ==
    LET t == row.token
        n == Acknowledged(Next_(now), t, now)
    IN  /\ Ready /\ row \in rows /\ t \in Retained(state)
        /\ StateOf(state, t) = "REVOKED"
        /\ state.tokens[t].revision = row.revision /\ state.tokens[t].route = row.route
        /\ state.tokens[t].route_pending
        /\ HasCandidate(state)
        /\ Saved(n) \/ (NotSaved(n) /\ UNCHANGED observed)
        /\ UNCHANGED <<handle, calls, rows, history>>

-----------------------------------------------------------------------------
(* Admission and expiry. *)

DueAt(s, t, seen) == /\ StateOf(s, t) = "ACTIVE" /\ s.tokens[t].expires # 0
                     /\ seen >= s.tokens[t].expires \/ s.clock >= s.tokens[t].expires

\* Tokens whose time has come are expired for good, or the handle is poisoned.
ExpireAll(T, now) ==
    LET seen == Later(observed, now)
        n    == Expired(Candidate(state, now, seen), T)
    IN  \/ HasCandidate(state) /\ Saved(n) /\ ended' = ended \cup T
        \/ HasCandidate(state) /\ Indeterminate(n) /\ observed' = seen /\ UNCHANGED ended
        \/ Poison /\ observed' = seen /\ UNCHANGED ended

\* access_store_authorize() with the code of token t.
Authorize(t, now) ==
    LET seen == Later(observed, now)
        n    == Admitted(Candidate(state, now, seen), t, now)
    IN  /\ Ready /\ now >= state.clock /\ now >= observed
        /\ t \in Retained(state) /\ StateOf(state, t) = "ACTIVE"
        /\ \/ DueAt(state, t, seen) /\ ExpireAll({t}, now) /\ UNCHANGED admitted
           \/ /\ ~DueAt(state, t, seen)
              /\ \/ /\ HasCandidate(state) /\ Saved(n)
                    /\ admitted' = admitted \cup {[token |-> t, at |-> now]}
                 \/ /\ HasCandidate(state) /\ Indeterminate(n)
                    /\ observed' = seen /\ UNCHANGED admitted
                 \/ SaveFailed /\ observed' = seen /\ UNCHANGED admitted
              /\ UNCHANGED ended
        /\ UNCHANGED <<handle, calls, rows, minted, acked, latest>>

\* session_valid_locked() after session_check() has noted the time.
SessionValid(t, revision, now) ==
    /\ Ready /\ t \in Retained(state) /\ StateOf(state, t) = "ACTIVE"
    /\ state.tokens[t].revision = revision
    /\ state.tokens[t].expires # 0 => /\ now >= state.clock /\ now >= observed
                                      /\ now < state.tokens[t].expires

\* Mistake: a check does not keep the time it saw.
SessionCheck_Forget(now) ==
    /\ up
    /\ latest' = Later(latest, now)
    /\ UNCHANGED <<handle, state, poisoned, observed, disk, durable, calls, rows,
                   minted, ended, acked, admitted>>

\* access_store_session_check() keeps the latest time it saw.
SessionCheck(now) ==
    /\ up
    /\ observed' = Later(observed, now)
    /\ latest' = Later(latest, now)
    /\ UNCHANGED <<handle, state, poisoned, disk, durable, calls, rows, minted, ended, acked, admitted>>

\* access_store_expire()
Expire(now) ==
    LET seen == Later(observed, now)
        due  == {t \in Retained(state) : DueAt(state, t, seen)}
    IN  /\ Ready
        /\ latest' = Later(latest, now)
        /\ \/ due = {} /\ observed' = seen /\ UNCHANGED <<state, poisoned, disk, durable, ended>>
           \/ due # {} /\ ExpireAll(due, now)
        /\ UNCHANGED <<handle, calls, rows, minted, acked, admitted>>

-----------------------------------------------------------------------------
(* Opening, shutting down, and failing. *)

\* access_store_flush_for_shutdown()
Flush ==
    /\ up
    /\ fenced' = TRUE
    /\ \/ ~poisoned /\ durable' = {disk} /\ UNCHANGED poisoned
       \/ poisoned' = TRUE /\ UNCHANGED durable
    /\ UNCHANGED <<up, state, observed, disk, calls, rows, history>>

Down ==
    /\ up' = FALSE /\ poisoned' = FALSE /\ fenced' = FALSE /\ observed' = 0
    /\ calls' = [q \in Requests |-> NoCall]
    /\ rows' = {}
    /\ latest' = 0
    /\ UNCHANGED <<minted, ended, acked, admitted>>

\* access_store_close(), or the process dies; the file stays as it is.
Crash ==
    /\ up
    /\ Down
    /\ state' = EmptySnapshot
    /\ UNCHANGED <<disk, durable>>

\* The machine loses power and comes back with what was durable.
PowerFails ==
    /\ \E s \in durable : disk' = s /\ durable' = {s}
    /\ Down
    /\ state' = EmptySnapshot

\* store_open_descriptor(): the file is read as it is, and the issues the
\* last process did not finish are revoked before the store is used.
Open ==
    LET n == Recovered(Candidate(disk, disk.clock, 0))
    IN  /\ ~up
        /\ \/ /\ Interrupted(disk) = {}
              /\ state' = disk /\ up' = TRUE /\ observed' = disk.clock
              /\ UNCHANGED <<disk, durable, ended>>
           \/ /\ Interrupted(disk) # {} /\ HasCandidate(disk)
              /\ state' = n /\ disk' = n /\ durable' = {n} /\ up' = TRUE /\ observed' = n.clock
              /\ ended' = ended \cup Interrupted(disk)
           \/ /\ Interrupted(disk) # {} /\ HasCandidate(disk)
              /\ disk' = n /\ durable' = durable \cup {n}
              /\ UNCHANGED <<state, up, observed, ended>>
        /\ UNCHANGED <<fenced, poisoned, calls, rows, minted, acked, admitted, latest>>

-----------------------------------------------------------------------------
Next ==
    \/ \E q \in Requests :
          \/ \E e \in 0..MaxClock, now \in Times : Issue(q, e, now)
          \/ IssueCollides(q) \/ IssueActivates(q) \/ IssueGivesUp(q)
          \/ \E t \in TokenIds, now \in Times : Revoke(q, t, now) \/ Remove(q, t, now)
          \/ \E now \in Times : ResumeRemove(q, now)
    \/ \E t \in TokenIds : RevokeNext(t)
    \/ \E row \in rows, now \in Times : RouteAck(row, now)
    \/ \E t \in TokenIds, now \in Times : Authorize(t, now)
    \/ \E now \in Times : SessionCheck(now) \/ Expire(now)
    \/ Flush \/ Crash \/ PowerFails \/ Open

Spec == Init /\ [][Next]_vars

-----------------------------------------------------------------------------
(* Properties. *)

\* What may be read now or after a failure.
Images == {disk} \cup durable \cup (IF up THEN {state} ELSE {})

\* Types of the store's variables.
ASTypeOK ==
    /\ up \in BOOLEAN /\ poisoned \in BOOLEAN /\ fenced \in BOOLEAN
    /\ observed \in 0..MaxClock /\ latest \in 0..MaxClock
    /\ Images \subseteq Snapshot
    /\ minted \cup ended \subseteq TokenIds
    /\ \A q \in Requests : calls[q] # NoCall => calls[q].generated \in 1..Generations

\* Every snapshot the store installs passes its own validation, so the store
\* can always be opened again.
SnapshotsAreValid == \A s \in Images : Valid(s)

\* A token whose revocation, removal or expiry was committed is never usable
\* again, neither in this process nor after any crash or power failure.
NoResurrection ==
    \A t \in ended : \A s \in Images : t \in Retained(s) => StateOf(s, t) \in {"REVOKED", "EXPIRED"}

\* Receipts tell the truth about their tokens, in every image: what waits is
\* really unfinished, and what is committed has really happened.
ReceiptsAreTrue == \A s \in Images : \A q \in Receipted(s) : TrueReceipt(s, q)

\* Management is compare-and-swap: of the changes asked for against one
\* revision at most one is ever reported as committed, whatever failed.
NoLostUpdate == \A a, b \in acked : a.expected = b.expected => a = b

\* An admission is granted only once it is recorded for good: every image
\* that still knows the token has an admission at least as late.
AdmissionsAreRecorded ==
    \A a \in admitted : \A s \in Images :
        a.token \in Retained(s) => /\ s.tokens[a.token].history # <<>>
                                   /\ s.tokens[a.token].history[Len(s.tokens[a.token].history)] >= a.at

\* A change that was reported as committed is in every image a failure may
\* leave: the store is never taken back behind it.
ReportedChangesSurvive == \A a \in acked : \A s \in Images : s.revision >= a.revision

\* Every snapshot a start of the server may read is sound: it can be opened,
\* and nothing it says of a request is contradicted by its tokens.
ImagesAreSound == ASTypeOK /\ SnapshotsAreValid /\ ReceiptsAreTrue

\* What the store reported to somebody holds from then on in every image:
\* changes, admissions, and that nobody else changed the same revision.
RepliesHold == ReportedChangesSurvive /\ AdmissionsAreRecorded /\ NoLostUpdate

\* Once a session check or an expiry pass saw the end of a token, no session
\* of it is valid at any time a caller may read from a clock that went back.
ObservedExpirySticks ==
    \A t \in TokenIds, now \in Times :
        \A revision \in 1..MaxRevision :
            SessionValid(t, revision, now) /\ state.tokens[t].expires # 0 => latest < state.tokens[t].expires

\* "Only installed, fsynced, read-back state becomes authoritative RAM"
AuthoritativeIsDurable == up /\ ~poisoned => durable = {state}

=============================================================================
