---------------------------- MODULE AttemptBudget ----------------------------
(***************************************************************************)
(* The attempt budget of a route to the metaserver, as in                  *)
(* server/src/socket/metaserver_policy.c: a bucket of tokens with one      *)
(* deadline for the next token.  Publication and the rendezvous control    *)
(* have one each; only the control fills its bucket again after a          *)
(* connection that was stable (socket/metaserver.c).                       *)
(***************************************************************************)
EXTENDS Integers, FiniteSetsExt

CONSTANTS
    Capacity,   \* METASERVER_ATTEMPT_RATE_CAPACITY
    Refill,     \* METASERVER_ATTEMPT_RATE_REFILL_SECONDS
    Stable,     \* METASERVER_RENDEZVOUS_STABLE_MS
    Control,    \* the route is the rendezvous control
    MaxTime     \* end of time; a bound of the model

ASSUME BudgetAssumption ==
    /\ {Capacity, Refill, Stable} \subseteq Nat \ {0}
    /\ Control \in BOOLEAN /\ MaxTime \in Nat

NotConnected == MaxTime + 1
Moments == 0..(MaxTime + 1)

VARIABLES
    now,        \* the monotonic clock
    bucket, deadline,
    since,      \* when the control was connected
    attempts,   \* history: the number of attempts before each time
    forgiven    \* history: what it was when the last stable connection ended

budget_vars == <<now, bucket, deadline, since, attempts, forgiven>>

\* metaserver_attempt_budget_init()
BudgetInit ==
    /\ now = 0 /\ bucket = Capacity /\ deadline = Refill /\ since = NotConnected
    /\ attempts = [t \in Moments |-> 0] /\ forgiven = attempts

-----------------------------------------------------------------------------
Intervals == (now - deadline) \div Refill + 1

Given == Min({bucket + Intervals, Capacity})

\* Mistake: the time that was waited beyond the deadline counts once more.
NextDeadline_Early ==
    IF Intervals >= Capacity - bucket THEN now + Refill ELSE deadline

\* When a token that has been given is followed by the next.
NextDeadline ==
    IF Intervals >= Capacity - bucket THEN now + Refill ELSE deadline + Intervals * Refill

\* metaserver_attempt_budget_refill(): the bucket as an operation finds it.
Refilled ==
    IF now < deadline THEN [bucket |-> bucket, deadline |-> deadline]
    ELSE [bucket   |-> Given,
          deadline |-> NextDeadline]

\* A look at the bucket without an attempt: metaserver_publish_cadence_due().
Look ==
    /\ bucket' = Refilled.bucket /\ deadline' = Refilled.deadline
    /\ UNCHANGED <<now, since, attempts, forgiven>>

\* metaserver_attempt_budget_consume(), and an attempt if there is a token
Consume ==
    /\ since = NotConnected
    /\ deadline' = Refilled.deadline
    /\ \/ /\ Refilled.bucket > 0
          /\ bucket' = Refilled.bucket - 1
          /\ attempts' = [t \in Moments |-> IF now < t THEN attempts[t] + 1 ELSE attempts[t]]
          /\ since' \in IF Control THEN {now, NotConnected} ELSE {NotConnected}
       \/ /\ Refilled.bucket = 0
          /\ bucket' = 0 /\ UNCHANGED <<attempts, since>>
    /\ UNCHANGED <<now, forgiven>>

\* The control ends; after a stable connection the bucket is full again.
DisconnectControl ==
    /\ since # NotConnected /\ since' = NotConnected
    /\ IF now - since >= Stable
       THEN bucket' = Capacity /\ deadline' = now + Refill /\ forgiven' = attempts
       ELSE UNCHANGED <<bucket, deadline, forgiven>>
    /\ UNCHANGED <<now, attempts>>

Tick == now < MaxTime /\ now' = now + 1 /\ UNCHANGED <<bucket, deadline, since, attempts, forgiven>>

BudgetNext == Look \/ Consume \/ DisconnectControl \/ Tick

BudgetSpec == BudgetInit /\ [][BudgetNext]_budget_vars

-----------------------------------------------------------------------------
(* Properties. *)

\* Types.
BTypeOK ==
    /\ now \in 0..MaxTime /\ bucket \in 0..Capacity
    /\ deadline \in 0..MaxTime + Refill
    /\ since \in 0..NotConnected
    /\ attempts \in [Moments -> Nat]

\* A token is never further away than one refill, however long nobody looked.
SoonAgain == deadline - now <= Refill

\* Attempts from one time on and before another, without those that are forgiven.
Made(from, to) == (attempts[to] - attempts[from]) - (forgiven[to] - forgiven[from])

\* The end of a number of periods.
PeriodsEnd(from, periods) == Min({from + periods * Refill, MaxTime + 1})

\* No time has more attempts than the capacity and one for each refill, if the
\* bucket is not filled by a stable connection.
CappedBetween ==
    \A from \in 0..now : \A k \in 0..(MaxTime \div Refill) : Made(from, PeriodsEnd(from, k)) <= Capacity + k

\* The bucket limits the attempts and never holds them back for longer than
\* one refill.
BudgetSound == BTypeOK /\ SoonAgain /\ CappedBetween

=============================================================================
