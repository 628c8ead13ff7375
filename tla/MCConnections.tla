---------------------------- MODULE MCConnections ----------------------------
(***************************************************************************)
(* Two parts of what a connection does, for TLC: the queue of its commands *)
(* and the accounts, characters and sessions.  They share no state, so a   *)
(* behaviour runs one of them, chosen at the start, and the other one      *)
(* stays as it was.                                                        *)
(***************************************************************************)
EXTENDS CommandQueue, AccountRoster

VARIABLE part   \* "queue" or "roster"

MCInit == part \in {"queue", "roster"} /\ Init /\ RosterInit

MCNext ==
    \/ part = "queue" /\ Next /\ UNCHANGED <<roster_vars, part>>
    \/ part = "roster" /\ RosterNext /\ UNCHANGED <<vars, part>>

\* The fairness of the queue; nothing is assumed of the others.
MCSpec == MCInit /\ [][MCNext]_<<vars, roster_vars, part>> /\ Fairness

=============================================================================
