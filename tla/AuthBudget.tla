------------------------------ MODULE AuthBudget ------------------------------
(***************************************************************************)
(* The budget of password work, account_auth_work_allowed() of             *)
(* server/src/server/account.c: a token bucket on the wall clock, shared   *)
(* by all connections.  The wall clock may be stepped in either direction. *)
(***************************************************************************)
EXTENDS Integers

CONSTANTS
    Burst,       \* ACCOUNT_AUTH_WORK_BURST
    Refill,      \* ACCOUNT_AUTH_WORK_REFILL_SECONDS
    Costs,       \* the costs asked for: one or two password operations
    MaxTime,     \* bound on the wall clock
    MaxForward,  \* bound on the seconds that pass
    MaxBacks     \* bound on how often the clock is set back

ASSUME BudgetAssumption == Burst \in Nat \ {0} /\ Refill \in Nat \ {0} /\ Costs \subseteq Nat \ {0}
ASSUME TimeAssumption   == MaxTime \in Nat \ {0} /\ MaxForward \in Nat /\ MaxBacks \in Nat

VARIABLES
    now,         \* the wall clock
    refill_time, \* account_auth_work_refill_time, 0 until the first question
    tokens,      \* account_auth_work_tokens
    full,        \* history: the clock when the bucket was last filled up
    spent,       \* history: the tokens granted since then
    total,       \* history: the tokens granted since the start
    backs,       \* history: how often the clock was stepped back
    forward      \* history: the seconds the clock went forward

budget_vars == <<now, refill_time, tokens, full, spent, total, backs, forward>>

BudgetInit ==
    /\ now \in 1..MaxTime
    /\ refill_time = 0
    /\ tokens = Burst
    /\ full = 0 /\ spent = 0 /\ total = 0 /\ backs = 0 /\ forward = 0

\* Mistake: the refill is added and the time it was for is not used up.
Refilled_KeepTime ==
    LET refill == (now - refill_time) \div Refill
    IN  IF refill_time = 0 \/ now < refill_time \/ refill >= Burst
        THEN [tokens |-> Burst, time |-> now, fill |-> TRUE]
        ELSE IF refill > 0 /\ tokens + refill > Burst
        THEN [tokens |-> Burst, time |-> refill_time, fill |-> TRUE]
        ELSE [tokens |-> tokens + refill, time |-> refill_time, fill |-> FALSE]

\* The bucket after the time since the last question is credited to it, and
\* whether it was filled up: at first use, when the clock is behind, after a
\* long time, and when the sum exceeds the burst.
Refilled ==
    LET refill == (now - refill_time) \div Refill
    IN  IF refill_time = 0 \/ now < refill_time \/ refill >= Burst
        THEN [tokens |-> Burst, time |-> now, fill |-> TRUE]
        ELSE IF refill > 0 /\ tokens + refill > Burst
        THEN [tokens |-> Burst, time |-> refill_time + refill * Refill, fill |-> TRUE]
        ELSE [tokens |-> tokens + refill, time |-> refill_time + refill * Refill, fill |-> FALSE]

\* account_auth_work_allowed(cost)
Ask(cost) ==
    LET b == Refilled
        granted == IF cost > b.tokens THEN 0 ELSE cost
    IN  /\ tokens' = b.tokens - granted
        /\ refill_time' = b.time
        /\ full' = IF b.fill THEN b.time ELSE full
        /\ spent' = (IF b.fill THEN 0 ELSE spent) + granted
        /\ total' = total + granted
        /\ UNCHANGED <<now, backs, forward>>

\* Time passes, or the clock is set forward.
Forward(d) ==
    /\ now + d <= MaxTime /\ forward + d <= MaxForward
    /\ now' = now + d
    /\ forward' = forward + d
    /\ UNCHANGED <<refill_time, tokens, full, spent, total, backs>>

\* The clock is set back.
Back(d) ==
    /\ now - d >= 1 /\ backs < MaxBacks
    /\ now' = now - d
    /\ backs' = backs + 1
    /\ UNCHANGED <<refill_time, tokens, full, spent, total, forward>>

BudgetNext ==
    \/ \E cost \in Costs : Ask(cost)
    \/ \E d \in 1..MaxTime : Forward(d) \/ Back(d)

BudgetSpec == BudgetInit /\ [][BudgetNext]_budget_vars

-----------------------------------------------------------------------------
(* Properties. *)

\* Types; the bucket holds at most the burst.
ABTypeOK ==
    /\ now \in 1..MaxTime
    /\ refill_time \in 0..MaxTime
    /\ tokens \in 0..Burst
    /\ full \in 0..MaxTime
    /\ spent \in Nat /\ total \in Nat /\ backs \in 0..MaxBacks
    /\ forward \in 0..MaxForward

\* However the clock is set, the password work granted since the server
\* started is at most one burst, one more for every time the clock was set
\* back, and one token for every refill period that passed.
RateLimited == Refill * total <= Refill * (Burst * (1 + backs)) + forward

\* Since it was last full the bucket gained exactly one token for every
\* refill period: no second is counted twice, and none is lost to the
\* rounding of a question that came in the middle of a period.
ExactRefill == refill_time # 0 => Refill * (tokens + spent) = Refill * Burst + (refill_time - full)

=============================================================================
