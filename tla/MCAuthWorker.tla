---------------------------- MODULE MCAuthWorker ----------------------------
(* Model values and bounds for checking AuthWorker with TLC. *)
EXTENDS AuthWorker, TLC

CONSTANTS p1, p2

MCPasswords == {p1, p2}

Stored(form) == [form |-> form, password |-> p1, salt |-> 0]

\* A login, a login with an old password format, a password change.
MCJobs ==
    { [verify |-> TRUE, create |-> FALSE, credential |-> Stored("legacy"),
       password |-> p2, replacement |-> None],
      [verify |-> TRUE, create |-> TRUE, credential |-> Stored("record"),
       password |-> p1, replacement |-> p2] }

=============================================================================
