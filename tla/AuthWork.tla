------------------------------- MODULE AuthWork -------------------------------
(***************************************************************************)
(* Credentials and the value-only work item of the password pool,          *)
(* auth_credential_t and auth_work_t, and what execute() in                *)
(* server/src/server/auth_worker.c makes of one.                           *)
(*                                                                         *)
(* Hashing is abstract: a credential is the password it was made from plus *)
(* the salt that tells two records of one password apart.                  *)
(***************************************************************************)
EXTENDS Naturals

CONSTANTS
    Passwords,   \* the plaintext passwords of the model
    None         \* an absent or cleansed value

ASSUME NoneAssumption == None \notin Passwords

\* How a password is stored: a current record, a record with outdated cost
\* parameters, or one of the two older formats execute() still verifies.
Forms == {"record", "outdated", "pbkdf2", "legacy"}
Credential   == [form     : Forms,
                 password : Passwords \cup {None},
                 salt     : Nat]
NoCredential == [form |-> "none", password |-> None, salt |-> 0]
\* A record made by password_record_create(): its salt is fresh.
RecordOf(password, request) == [form |-> "record", password |-> password, salt |-> request]

Job == [verify      : BOOLEAN,
        create      : BOOLEAN,
        credential  : Credential \cup {NoCredential},
        password    : Passwords \cup {None},
        replacement : Passwords \cup {None}]

Results == {"MATCH", "MISMATCH", "ERROR"}

Work == [request     : Nat,
         verify      : BOOLEAN,
         create      : BOOLEAN,
         credential  : Credential \cup {NoCredential},
         password    : Passwords \cup {None},
         replacement : Passwords \cup {None},
         result      : Results,
         record      : Credential \cup {NoCredential}]

\* The zeroed auth_work_t (PASSWORD_VERIFY_MATCH is the enum's first value).
NoWork == [request     |-> 0,
           verify      |-> FALSE,
           create      |-> FALSE,
           credential  |-> NoCredential,
           password    |-> None,
           replacement |-> None,
           result      |-> "MATCH",
           record      |-> NoCredential]

-----------------------------------------------------------------------------
(* execute(): the results one work item can have.  crypt() may fail and    *)
(* is then a mismatch; the other two verifiers and the record maker report *)
(* a failure of the library as an error.                                   *)

VerifyResults(w) ==
    LET equal == IF w.password = w.credential.password THEN "MATCH" ELSE "MISMATCH"
    IN  CASE ~w.verify                      -> {"MATCH"}
          [] w.verify /\ w.credential.form = "legacy" -> {equal, "MISMATCH"}
          [] OTHER                             -> {equal, "ERROR"}

Finished(w, result, record) ==
    [w EXCEPT !.result = result, !.record = record,
                 !.password = None, !.replacement = None, !.credential = NoCredential]

Executed(w) ==
    UNION { IF result = "MATCH" /\ w.create
            THEN {Finished(w, "MATCH", RecordOf(w.replacement, w.request)),
                  Finished(w, "ERROR", NoCredential)}
            ELSE {Finished(w, result, w.record)}
          : result \in VerifyResults(w) }

=============================================================================
