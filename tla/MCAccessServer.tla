--------------------------- MODULE MCAccessServer ---------------------------
(* Model values and bounds for checking the safety of AccessServer with TLC. *)
EXTENDS AccessServer, TLC

CONSTANT c1

OneConn == {c1}
FirstToken == {1}
IssueOnly == {"issue"}
RevokeOnly == {"revoke"}

=============================================================================
