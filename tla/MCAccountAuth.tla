---------------------------- MODULE MCAccountAuth ----------------------------
(***************************************************************************)
(* Model values and bounds for checking AccountAuth and AuthBudget with    *)
(* TLC.  The two share no state - AccountAuth lets a submission be refused *)
(* at any time - so a behaviour runs one of them, chosen at the start, and *)
(* the other one stays as it was.                                          *)
(***************************************************************************)
EXTENDS AccountAuth, AuthBudget, TLC

CONSTANTS p1, p2, nOld, nNew, c1, c2

MCConns == {c1, c2}
\* One of the two is closed and used again.
MCLives == [c \in MCConns |-> IF c = c1 THEN 2 ELSE 1]
MCPasswords == {p1, p2}
MCNames == {nOld, nNew}

\* An account with a record of an outdated cost, which a login replaces, and a
\* name nobody has registered.
OldFile == {[n \in MCNames |-> IF n = nOld THEN [form |-> "outdated", password |-> p1, salt |-> 0]
                               ELSE NoCredential]}

VARIABLE part   \* the component that runs

MCInit ==
    /\ part \in {"requests", "budget"} /\ Init /\ BudgetInit
    /\ part = "requests" => now = 1

MCNext ==
    /\ UNCHANGED part
    /\ \/ part = "requests" /\ Next /\ UNCHANGED budget_vars
       \/ part = "budget" /\ BudgetNext /\ UNCHANGED vars

MCSpec == MCInit /\ [][MCNext]_<<vars, budget_vars, part>> /\ Fairness

=============================================================================
