--------------------------- MODULE CommandStream ---------------------------
(***************************************************************************)
(* What a connection promises a player about the commands it queues        *)
(* (protocol/README.md, v1076): they are executed in the order in which    *)
(* they were sent, each at most once, and a scoped CLEAR takes back        *)
(* exactly those commands of one type that belong to the current run of    *)
(* keyboard movement.  The connection is given up for lack of room only if *)
(* the commands still wanted exceed the limit.                             *)
(***************************************************************************)
EXTENDS Naturals, Sequences

CONSTANTS
    Limit,       \* bytes of commands that may wait
    Size(_),     \* bytes of a command of each type
    Numbers,     \* numbers of commands, in the order in which they are sent
    Runs         \* epochs of runs of keyboard movement; 0 is none

VARIABLES
    waiting,     \* the commands to execute, in order
    run,         \* the current run
    executed,    \* the number of the last command executed
    ended        \* how the connection ended

svars == <<waiting, run, executed, ended>>

Types == {"MOVE", "FIRE", "OTHER"}

Fits(t) ==
    LET w == waiting
        used[i \in 0..Len(w)] == IF i = 0 THEN Size(t) ELSE used[i - 1] + Size(w[i].type)
    IN  used[Len(w)] <= Limit

Init == waiting = <<>> /\ run = 0 /\ executed = 0 /\ ended = "no"

\* A command is accepted; the first command of a new run ends the old one.
\* A run whose commands are all gone may be forgotten.
Accept(t, n, r) ==
    LET new == r \notin {0, run}
        w   == waiting
    IN  /\ ended = "no" /\ executed < n
        /\ UNCHANGED <<executed, ended>>
        /\ \/ run' = IF r = 0 THEN run ELSE r
           \/ w = <<>> /\ run' = r
        /\ \A i \in DOMAIN w : w[i].n < n
        /\ waiting' = Append([i \in DOMAIN w |-> [w[i] EXCEPT !.current = @ /\ ~new]],
                             [n |-> n, type |-> t, current |-> r # 0])
        /\ Fits(t)

Refuse(t) == ended = "no" /\ ended' = "full" /\ ~Fits(t) /\ UNCHANGED <<waiting, run, executed>>

\* CLEAR of one type of command in the current run.
Cancel(t) ==
    /\ ended = "no" /\ run # 0
    /\ UNCHANGED <<run, executed, ended>>
    /\ waiting' = SelectSeq(waiting, LAMBDA c : c.type # t \/ ~c.current)

\* Everything is dropped on the player's wish.
Drop == ended = "no" /\ run' = 0 /\ UNCHANGED <<executed, ended>> /\ waiting' = <<>>

\* A command may lead to an arrest, which drops the rest, or to a logout.
Execute ==
    /\ ended = "no" /\ waiting # <<>>
    /\ executed' = Head(waiting).n
    /\ \/ waiting' = Tail(waiting) /\ UNCHANGED <<run, ended>>
       \/ waiting' = <<>> /\ run' = 0 /\ UNCHANGED ended
       \/ ended' = "left" /\ UNCHANGED <<waiting, run>>

Leave == ended = "no" /\ ended' = "left" /\ UNCHANGED <<waiting, run, executed>>

Next ==
    \/ Leave \/ Execute \/ Drop
    \/ \E t \in Types : Refuse(t) \/ Cancel(t)
    \/ \E t \in Types, n \in Numbers, r \in Runs : Accept(t, n, r)

Spec == Init /\ [][Next]_svars

=============================================================================
