---------------------------- MODULE MCAccessStore ----------------------------
(* Model values and symmetry for checking AccessStore with TLC. *)
EXTENDS AccessStore, TLC

CONSTANTS t1, t2, q1, q2

MCTokens == {t1, t2}
TwoRequests == {q1, q2}

\* Identities are random: nothing depends on which one is which.
Symmetry == Permutations(MCTokens) \cup Permutations(TwoRequests)

\* A store right after its bootstrap.
Bootstrapped == {EmptySnapshot}

\* A store whose one tombstone is taken, with a token that is in use.
Full(t, u, q) ==
    [EmptySnapshot EXCEPT
        !.revision = 3, !.sequence = 3, !.clock = 1,
        !.tombstones[u] = [removed |-> 1, revision |-> 2],
        !.tokens[t] = [state |-> "ACTIVE", revision |-> 1, created |-> 1, expires |-> 2,
                       route_pending |-> FALSE, route |-> [request |-> q, attempt |-> 1],
                       history |-> <<1>>]]
FullStores == {Full(tu[1], tu[2], q) : tu \in {<<t1, t2>>, <<t2, t1>>}, q \in TwoRequests}

Stores == Bootstrapped \cup FullStores

=============================================================================
