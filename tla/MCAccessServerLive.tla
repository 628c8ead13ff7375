------------------------- MODULE MCAccessServerLive -------------------------
(***************************************************************************)
(* Bounds for checking the liveness of AccessServer with TLC.  A behaviour *)
(* either has sessions and leaves the second token alone, or it has nobody *)
(* connected and revokes both tokens.                                      *)
(***************************************************************************)
EXTENDS AccessServer, TLC

CONSTANT c1

OneConn == {c1}
FirstToken == {1}
TwoTokens == {1, 2}
None == {}
RevokeOnly == {"revoke"}

VARIABLE part   \* "sessions" or "rows"

MCInit == Init /\ part \in {"sessions", "rows"}

MCNext ==
    /\ Next
    /\ UNCHANGED part
    /\ part = "sessions" => \A s \in Slots : jobs'[s].token # 2
    /\ part = "rows" => UNCHANGED conns

MCSpec == MCInit /\ [][MCNext]_<<vars, part>> /\ Fairness

=============================================================================
