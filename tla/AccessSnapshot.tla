---------------------------- MODULE AccessSnapshot ----------------------------
(***************************************************************************)
(* The snapshot of the access-token store and what each operation makes of *)
(* it: the pure part of server/src/server/access_tokens.c.                 *)
(*                                                                         *)
(* The arrays of the snapshot are functions from identities; the secret    *)
(* code, verifier and index of a token are generated together with its     *)
(* identity and stand for one another, and labels are left out.            *)
(***************************************************************************)
EXTENDS Integers, Sequences, FiniteSets

CONSTANTS
    TokenIds, Requests,
    TokenLimit,      \* ACCESS_TOKEN_LIMIT
    ReceiptLimit,    \* ACCESS_RECEIPT_LIMIT
    TombstoneLimit,  \* ACCESS_TOMBSTONE_LIMIT
    OutboxLimit,     \* ACCESS_OUTBOX_LIMIT
    HistoryLimit,    \* ACCESS_HISTORY_LIMIT
    ReceiptTime,     \* RECEIPT_DAYS
    TombstoneTime,   \* TOMBSTONE_DAYS
    MaxRevision,     \* UINT64_MAX
    MaxClock         \* bound on the wall clock

ASSUME LimitAssumption ==
    /\ TokenLimit \in Nat \ {0} /\ ReceiptLimit \in Nat \ {0} /\ TombstoneLimit \in Nat \ {0}
    /\ OutboxLimit \in Nat \ {0} /\ HistoryLimit \in Nat \ {0}
    /\ ReceiptTime \in Nat /\ TombstoneTime \in Nat
    /\ MaxRevision \in Nat \ {0} /\ MaxClock \in Nat \ {0}

\* Identities and requests are numbers of 128 bits.
ASSUME FiniteAssumption == IsFiniteSet(TokenIds) /\ IsFiniteSet(Requests)

TokenStates == {"PENDING", "ACTIVE", "REVOKED", "EXPIRED"}
Operations  == {"ISSUE", "REVOKE", "REMOVE"}
Outcomes    == {"PENDING", "COMMITTED", "LOCALLY_REVOKED"}

\* A remote route is asked for under the request that caused it; a repeated
\* issue attempt draws an identity of its own.
RouteId == [request : Requests, attempt : Nat]

\* expires is 0 for a token without expiry.
Token == [state : TokenStates, revision : 1..MaxRevision, created : 1..MaxClock,
          expires : 0..MaxClock, route_pending : BOOLEAN, route : RouteId,
          history : Seq(1..MaxClock)]
NoToken == [state |-> "none"]

Receipt == [op : Operations, token : TokenIds, outcome : Outcomes, revision : 1..MaxRevision,
            token_revision : 1..MaxRevision, created : 1..MaxClock]
NoReceipt == [op |-> "none"]

Tombstone == [removed : 1..MaxClock, revision : 1..MaxRevision]
NoTombstone == [removed |-> 0]

Snapshot == [revision : 1..MaxRevision, sequence : 1..MaxRevision, clock : 0..MaxClock,
             tokens : [TokenIds -> Token \cup {NoToken}],
             receipts : [Requests -> Receipt \cup {NoReceipt}],
             tombstones : [TokenIds -> Tombstone \cup {NoTombstone}]]

\* What an explicit bootstrap writes.
EmptySnapshot ==
    [revision |-> 1, sequence |-> 1, clock |-> 0,
     tokens |-> [t \in TokenIds |-> NoToken],
     receipts |-> [q \in Requests |-> NoReceipt],
     tombstones |-> [t \in TokenIds |-> NoTombstone]]

Retained(s)   == {t \in TokenIds : s.tokens[t] # NoToken}
Receipted(s)  == {q \in Requests : s.receipts[q] # NoReceipt}
Tombstoned(s) == {t \in TokenIds : s.tombstones[t] # NoTombstone}
StateOf(s, t) == s.tokens[t].state
RoutePending(s) == {t \in Retained(s) : s.tokens[t].route_pending}

Later(a, b) == IF a > b THEN a ELSE b

-----------------------------------------------------------------------------
(* The parts of an operation. *)

\* candidate() gives nothing once a counter is used up.
HasCandidate(s) == s.revision < MaxRevision /\ s.sequence < MaxRevision

\* The copy an operation works on.
Candidate(s, now, observed) ==
    [s EXCEPT !.revision = @ + 1, !.sequence = @ + 1,
              !.clock = Later(Later(s.clock, now), observed)]

\* Old receipts and tombstones go; a receipt that is pending stays.
Prune(s, now) ==
    [s EXCEPT !.receipts = [q \in Requests |->
                               IF /\ q \in Receipted(s) /\ s.receipts[q].outcome # "PENDING"
                                  /\ now - s.receipts[q].created > ReceiptTime
                               THEN NoReceipt ELSE s.receipts[q]],
              !.tombstones = [t \in TokenIds |->
                                 IF t \in Tombstoned(s) /\ now - s.tombstones[t].removed > TombstoneTime
                                 THEN NoTombstone ELSE s.tombstones[t]]]

NewReceipt(s, q, t, op, outcome, now) ==
    [s EXCEPT !.receipts[q] = [op |-> op, token |-> t, outcome |-> outcome, revision |-> s.revision,
                               token_revision |-> s.tokens[t].revision, created |-> now]]

\* The receipts of a token's operations ops move from one outcome to another.
Settle(s, t, ops, from, to, token_revision) ==
    [s EXCEPT !.receipts = [q \in Requests |->
        LET r == s.receipts[q]
        IN  IF q \in Receipted(s) /\ r.token = t /\ r.op \in ops /\ r.outcome = from
            THEN [r EXCEPT !.outcome = to, !.revision = s.revision,
                           !.token_revision = IF token_revision = 0 THEN @ ELSE token_revision]
            ELSE r]]

\* A token leaves its state and every reference to it becomes stale.
EndToken(s, t, to) ==
    [s EXCEPT !.tokens[t].state = to, !.tokens[t].revision = @ + 1]

\* Mistake: the receipt of the issue that the revocation stops stays pending.
Deny_KeepIssue(s, t, q, ops) ==
    [EndToken(s, t, "REVOKED") EXCEPT !.tokens[t].route_pending = TRUE,
                                      !.tokens[t].route = [request |-> q, attempt |-> 0]]

\* The local denial, on behalf of request q; a pending issue is stopped.
Deny(s, t, q, ops) ==
    LET n == [EndToken(s, t, "REVOKED") EXCEPT !.tokens[t].route_pending = TRUE,
                                               !.tokens[t].route = [request |-> q, attempt |-> 0]]
    IN  Settle(n, t, ops, "PENDING", "LOCALLY_REVOKED", n.tokens[t].revision)

\* A tombstone replaces the token and every removal that waited is done.
Erase(s, t, now) ==
    [Settle(s, t, {"REMOVE"}, "PENDING", "COMMITTED", 0) EXCEPT
        !.tombstones[t] = [removed |-> now, revision |-> s.revision],
        !.tokens[t] = NoToken]

-----------------------------------------------------------------------------
(* The operations, each on a candidate n. *)

\* access_store_issue(): a pending token and its receipt.
Staged(n, q, t, expires, now) ==
    NewReceipt([n EXCEPT !.tokens[t] = [state |-> "PENDING", revision |-> 1, created |-> now,
                                        expires |-> expires, route_pending |-> TRUE,
                                        route |-> [request |-> q, attempt |-> 1], history |-> <<>>]],
               q, t, "ISSUE", "PENDING", now)

\* After a collision the token gets a new identity, and the receipt follows.
Restaged(n, q, t, new, attempt) ==
    [n EXCEPT !.tokens[t] = NoToken,
              !.tokens[new] = [n.tokens[t] EXCEPT !.route = [request |-> q, attempt |-> attempt]],
              !.receipts[q] = [n.receipts[q] EXCEPT !.token = new, !.revision = n.revision,
                                                    !.token_revision = n.tokens[t].revision]]

Activated(n, q, t) ==
    [n EXCEPT !.tokens[t].state = "ACTIVE", !.tokens[t].route_pending = FALSE,
              !.receipts[q].outcome = "COMMITTED", !.receipts[q].revision = n.revision]

\* mutate() without remove_token
Revoked(n, q, t, now) ==
    LET d == IF StateOf(n, t) = "REVOKED" THEN n ELSE Deny(n, t, q, Operations)
    IN  NewReceipt(d, q, t, "REVOKE",
                   IF d.tokens[t].route_pending THEN "LOCALLY_REVOKED" ELSE "COMMITTED", now)

\* mutate() with remove_token; the caller sees to the limit of tombstones.
Removed(n, q, t, now) ==
    LET d == IF StateOf(n, t) = "REVOKED" THEN n ELSE Deny(n, t, q, {"ISSUE"})
    IN  IF d.tokens[t].route_pending
        THEN NewReceipt(d, q, t, "REMOVE", "PENDING", now)
        ELSE Erase(NewReceipt(d, q, t, "REMOVE", "COMMITTED", now), t, now)

Waiting(n, t) ==
    \E q \in Receipted(n) : /\ n.receipts[q].token = t /\ n.receipts[q].op = "REMOVE"
                            /\ n.receipts[q].outcome = "PENDING"

\* access_store_route_ack(): the remote revocation is confirmed, and removals
\* that waited for it are done if a tombstone is free.
Acknowledged(n, t, now) ==
    LET d == [n EXCEPT !.tokens[t].route_pending = FALSE]
        e == Settle(Settle(d, t, {"REVOKE"}, "LOCALLY_REVOKED", "COMMITTED", 0),
                    t, {"ISSUE", "REMOVE"}, "LOCALLY_REVOKED", "LOCALLY_REVOKED", 0)
        p == Prune(e, now)
    IN  IF ~Waiting(e, t) THEN e
        ELSE IF Cardinality(Tombstoned(p)) < TombstoneLimit THEN Erase(p, t, now) ELSE p

\* access_store_authorize(): an admission is recorded without a management
\* revision of its own.
Admitted(n, t, now) ==
    [n EXCEPT !.revision = @ - 1,
              !.tokens[t].history = Append(IF Len(@) = HistoryLimit THEN Tail(@) ELSE @, now)]

\* access_store_expire()
Expired(n, T) ==
    [n EXCEPT !.tokens = [t \in TokenIds |-> IF t \in T THEN EndToken(n, t, "EXPIRED").tokens[t]
                                             ELSE n.tokens[t]]]

\* store_open_descriptor(): the issues a stopped process left are revoked.
Interrupted(s) == {t \in Retained(s) : StateOf(s, t) = "PENDING"}
Recovered(n) ==
    LET T == Interrupted(n)
    IN  [n EXCEPT
            !.tokens = [t \in TokenIds |-> IF t \in T THEN EndToken(n, t, "REVOKED").tokens[t]
                                           ELSE n.tokens[t]],
            !.receipts = [q \in Requests |->
                LET r == n.receipts[q]
                IN  IF /\ q \in Receipted(n) /\ r.token \in T
                       /\ r.op = "ISSUE" /\ r.outcome = "PENDING"
                    THEN [r EXCEPT !.outcome = "LOCALLY_REVOKED", !.revision = n.revision,
                                   !.token_revision = n.tokens[r.token].revision + 1]
                    ELSE r]]

-----------------------------------------------------------------------------
(* validate(), which every snapshot that is read must pass. *)

ValidToken(s, t) ==
    LET a == s.tokens[t]
    IN  /\ a.revision \in 1..s.revision
        /\ a.created \in 1..s.clock
        /\ a.expires # 0 => a.expires > a.created
        /\ a.state = "PENDING" => a.route_pending
        /\ Len(a.history) <= HistoryLimit
        /\ \A i \in 1..Len(a.history) : /\ a.history[i] \in a.created..s.clock
                                        /\ i > 1 => a.history[i] >= a.history[i - 1]
        /\ t \notin Tombstoned(s)

ValidReceipt(s, q) ==
    LET r == s.receipts[q]
    IN  /\ r.revision \in 1..s.revision
        /\ r.token_revision \in 1..r.revision
        /\ r.created \in 1..s.clock

Valid(s) ==
    /\ s.revision >= 1 /\ s.sequence >= s.revision /\ s.clock >= 0
    /\ Cardinality(Retained(s)) <= TokenLimit
    /\ Cardinality(Receipted(s)) <= ReceiptLimit
    /\ Cardinality(Tombstoned(s)) <= TombstoneLimit
    /\ \A t \in Retained(s) : ValidToken(s, t)
    /\ \A q \in Receipted(s) : ValidReceipt(s, q)
    /\ \A t \in Tombstoned(s) : /\ s.tombstones[t].removed \in 1..s.clock
                                /\ s.tombstones[t].revision \in 1..s.revision

-----------------------------------------------------------------------------
(* What a snapshot that the store wrote says of its requests. *)

\* A receipt tells the truth about its token: what waits is really unfinished,
\* and what is committed has really happened.
TrueReceipt(s, q) ==
    LET r    == s.receipts[q]
        kept == r.token \in Retained(s)
        st   == StateOf(s, r.token)
    IN  /\ r.op = "ISSUE" =>
               /\ r.outcome = "PENDING" <=> kept /\ st = "PENDING"
               /\ r.outcome = "LOCALLY_REVOKED" => ~kept \/ st = "REVOKED"
        /\ r.op = "REVOKE" =>
               /\ kept => st = "REVOKED"
               /\ r.outcome = "LOCALLY_REVOKED" <=> kept /\ s.tokens[r.token].route_pending
        /\ r.op = "REMOVE" =>
               /\ r.outcome = "PENDING" => kept /\ st = "REVOKED"
               /\ r.outcome = "COMMITTED" => ~kept

\* No token was issued to two requests.
IssuedOnce(s) ==
    \A p, q \in Receipted(s) :
        s.receipts[p].op = "ISSUE" /\ s.receipts[q].op = "ISSUE" /\ s.receipts[p].token = s.receipts[q].token
            => p = q

\* The identities a snapshot knows.
Known(s) == Retained(s) \cup Tombstoned(s) \cup {s.receipts[q].token : q \in Receipted(s)}

=============================================================================
