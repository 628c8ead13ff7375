----------------------------- MODULE AccountAuth -----------------------------
(***************************************************************************)
(* Authentication of connections against account files: the asynchronous   *)
(* half of server/src/server/account.c.                                    *)
(*                                                                         *)
(* A command of a connection (login, register, password change, password   *)
(* force) submits password work to the worker pool and leaves an entry in  *)
(* auth_pending[].  The main loop polls: it takes the results that are     *)
(* ready and then walks the entries, dropping the ones that are stale or   *)
(* late and completing the others against the account file as it is now.   *)
(* Everything here but the pool runs on the main thread; one take and one  *)
(* entry of the walk are one step, because the pool's threads run between  *)
(* them.                                                                   *)
(*                                                                         *)
(* The pool is used through its abstract specification, AuthService, which *)
(* AuthWorker implements.  An entry and its connection are matched by the  *)
(* request alone: request IDs are never reused, so the generation the code *)
(* compares too never decides.                                             *)
(***************************************************************************)
EXTENDS AuthWork, Naturals, FiniteSets

CONSTANTS
    Conns,         \* socket_struct objects; memory of a freed one is used again
    Names,         \* account names
    InitialFiles,  \* the account files there may be at the start
    Kinds,         \* the kinds of request the clients make
    AccessRequired, \* settings.access_required: connections need an access token
    Capacity,      \* AUTH_WORKER_CAPACITY
    MaxFails,      \* MAX_PASSWORD_FAILURES
    MaxRequest,    \* bound on the requests issued
    Lives          \* bound on how often each socket_struct is used

Entries == 1..Capacity
\* A file that does not exist is NoCredential.
Files   == [Names -> Credential \cup {NoCredential}]
AllKinds == {"LOGIN", "REGISTER", "CHANGE", "FORCE"}

ASSUME CapacityAssumption == Capacity \in Nat \ {0}
ASSUME FailsAssumption    == MaxFails \in Nat \ {0}
ASSUME BoundsAssumption   == MaxRequest \in Nat /\ Lives \in [Conns -> Nat]
ASSUME FilesAssumption    == InitialFiles \subseteq Files
ASSUME KindsAssumption    == Kinds \subseteq AllKinds
ASSUME AccessAssumption   == AccessRequired \in BOOLEAN
ASSUME NamesAssumption    == None \notin Names

\* account_auth_pending_t
Entry == [conn       : Conns,
          request    : 1..MaxRequest,
          name       : Names,
          session    : Names \cup {None},
          kind       : AllKinds,
          credential : Credential \cup {NoCredential},
          late       : BOOLEAN,
          ready      : BOOLEAN,
          create     : BOOLEAN,
          result     : Results,
          record     : Credential \cup {NoCredential}]
NoEntry == [request |-> 0]

\* The fields of socket_struct that authentication reads and writes.
ConnStates == {"available", "login", "playing", "dead", "zombie"}
Conn == [state     : ConnStates,
         account   : Names \cup {None},
         request   : 0..MaxRequest,
         fails     : 0..MaxFails,
         permitted : BOOLEAN,
         life      : Nat]

VARIABLES
    issued, pending, finished, dropped, delivered,   \* the pool, see AuthService
    work,      \* the work of each request the pool holds
    given,     \* history: what each entry was asked, by whom, in which life of the socket
    table,     \* auth_pending[]
    conns,     \* the connections
    files,     \* the credential in each account file
    pc,        \* where the main thread is: the loop or a phase of the poll
    cursor     \* the entry the poll walks

service == <<issued, pending, finished, dropped, delivered>>
vars == <<issued, pending, finished, dropped, delivered, work, given, table, conns, files, pc, cursor>>

Service == INSTANCE AuthService

NoQuestion == [conn |-> None, life |-> 0, kind |-> "NONE", name |-> None, work |-> NoWork]

Init ==
    /\ Service!Init
    /\ work = [r \in 1..MaxRequest |-> NoWork]
    /\ given = [r \in 1..MaxRequest |-> NoQuestion]
    /\ table = [i \in Entries |-> NoEntry]
    /\ conns = [c \in Conns |-> [state |-> "available", account |-> None, request |-> 0,
                                 fails |-> 0, permitted |-> FALSE, life |-> 0]]
    /\ files \in InitialFiles
    /\ pc = "loop"
    /\ cursor = 1

Used == {i \in Entries : table[i] # NoEntry}

-----------------------------------------------------------------------------
(* Submission. *)

\* Only records of the current format, with the current cost, are kept.
NeedsRecord(kind, credential) == kind # "LOGIN" \/ credential.form # "record"

\* The value-only work of one request.
WorkFor(kind, credential, password, replacement, request) ==
    LET create == NeedsRecord(kind, credential)
    IN  [NoWork EXCEPT !.request     = request,
                       !.verify      = kind \in {"LOGIN", "CHANGE"},
                       !.create      = create,
                       !.credential  = credential,
                       !.password    = password,
                       !.replacement = IF ~create THEN None
                                       ELSE IF replacement # None THEN replacement ELSE password]

\* The first free entry.
FreeEntry(i) == i \in Entries \ Used /\ \A j \in Entries \ Used : i <= j

EntryFor(c, kind, name, request) ==
    [conn |-> c, request |-> request, name |-> name, session |-> conns[c].account,
     kind |-> kind, credential |-> files[name], late |-> FALSE, ready |-> FALSE,
     create |-> FALSE, result |-> "MATCH", record |-> NoCredential]

\* The pool refuses the work, or it accepts and an entry is left.
Enter(c, kind, name, password, replacement) ==
    LET r == issued + 1
        w == WorkFor(kind, files[name], password, replacement, r)
    IN  \/ Service!Refuse /\ UNCHANGED <<work, given, table, conns>>
        \/ /\ Service!Accept
           /\ work' = [work EXCEPT ![r] = w]
           /\ given' = [given EXCEPT ![r] = [conn |-> c, life |-> conns[c].life, kind |-> kind,
                                             name |-> name, work |-> w]]
           /\ \E i \in Entries : /\ FreeEntry(i)
                                 /\ table' = [table EXCEPT ![i] = EntryFor(c, kind, name, r)]
           /\ conns' = [conns EXCEPT ![c].request = r]

\* account_auth_submit().  A busy answer before the work is made changes
\* nothing; the work budget (see AuthBudget) may say busy at any time.
AuthSubmit(c, kind, name, password, replacement) ==
    /\ pc = "loop"
    /\ kind \in Kinds
    /\ conns[c].request = 0
    /\ Used # Entries
    /\ Enter(c, kind, name, password, replacement)
    /\ UNCHANGED <<files, pc, cursor>>

Login(c, name, password) ==
    /\ conns[c].state = "login" /\ conns[c].account = None
    /\ files[name] # NoCredential
    /\ AuthSubmit(c, "LOGIN", name, password, None)

Register(c, name, password) ==
    /\ conns[c].state = "login" /\ conns[c].account = None
    /\ files[name] = NoCredential
    /\ AuthSubmit(c, "REGISTER", name, None, password)

PasswordChange(c, password, new) ==
    /\ conns[c].state = "login" /\ conns[c].account # None
    /\ AuthSubmit(c, "CHANGE", conns[c].account, password, new)

PasswordForce(c, name, new) ==
    /\ conns[c].state = "playing" /\ conns[c].permitted
    /\ files[name] # NoCredential
    /\ AuthSubmit(c, "FORCE", name, None, new)

-----------------------------------------------------------------------------
(* The pool and the clock. *)

\* A worker thread finishes a request.
Answer(r) ==
    /\ Service!Answer(r)
    /\ \E w \in Executed(work[r]) : work' = [work EXCEPT ![r] = w]
    /\ UNCHANGED <<given, table, conns, files, pc, cursor>>

\* The deadline of a request, or the login deadline of its connection, passes.
Expire(i) ==
    /\ i \in Used /\ ~table[i].late
    /\ table' = [table EXCEPT ![i].late = TRUE]
    /\ UNCHANGED <<service, work, given, conns, files, pc, cursor>>

-----------------------------------------------------------------------------
(* Connections. *)

CancelWork(R) ==
    /\ pending' = pending \ R
    /\ finished' = finished \ R
    /\ dropped' = dropped \cup R
    /\ UNCHANGED <<issued, delivered>>

\* Released requests leave neither work nor history behind.
Forget(R) ==
    /\ work' = [r \in 1..MaxRequest |-> IF r \in R THEN NoWork ELSE work[r]]
    /\ given' = [r \in 1..MaxRequest |-> IF r \in R THEN NoQuestion ELSE given[r]]

\* Mistake: the pool is not told that the connection is gone.
ConnectionClear_NoCancel(c, conn) ==
    LET mine == {i \in Used : table[i].conn = c}
    IN  /\ table' = [i \in Entries |-> IF i \in mine THEN NoEntry ELSE table[i]]
        /\ conns' = [conns EXCEPT ![c] = conn]
        /\ UNCHANGED <<service, work, given>>

\* account_auth_connection_clear() on a connection that becomes conn.
ConnectionClear(c, conn) ==
    LET mine == {i \in Used : table[i].conn = c}
    IN  /\ CancelWork({table[i].request : i \in mine})
        /\ Forget({table[i].request : i \in mine})
        /\ table' = [i \in Entries |-> IF i \in mine THEN NoEntry ELSE table[i]]
        /\ conns' = [conns EXCEPT ![c] = conn]

\* init_connection(): a socket_struct is used for a new connection.
Connect(c) ==
    /\ pc = "loop"
    /\ conns[c].state = "available" /\ conns[c].life < Lives[c]
    /\ ConnectionClear(c, [state |-> "login", account |-> None, request |-> 0, fails |-> 0,
                           permitted |-> FALSE, life |-> conns[c].life + 1])
    /\ UNCHANGED <<files, pc, cursor>>

\* A disconnect, a protocol error, a lost admission, or an account command
\* that does not fit the session.
Drop(c) ==
    /\ pc = "loop"
    /\ conns[c].state \in {"login", "playing"}
    /\ conns' = [conns EXCEPT ![c].state = "dead"]
    /\ UNCHANGED <<service, work, given, table, files, pc, cursor>>

\* free_newsocket()
Free(c) ==
    /\ pc = "loop"
    /\ conns[c].state \in {"dead", "zombie"}
    /\ ConnectionClear(c, [conns[c] EXCEPT !.state = "available", !.account = None, !.request = 0,
                                           !.permitted = FALSE])
    /\ UNCHANGED <<files, pc, cursor>>

\* account_login_char(): the connection gets its player, permitted or not to
\* force passwords.
LoginChar(c) ==
    /\ pc = "loop"
    /\ conns[c].state = "login" /\ conns[c].account # None
    /\ \E p \in BOOLEAN : conns' = [conns EXCEPT ![c].state = "playing", ![c].permitted = p]
    /\ UNCHANGED <<service, work, given, table, files, pc, cursor>>

\* The player's permission is given or taken away.
ChangePermission(c) ==
    /\ pc = "loop"
    /\ conns[c].state = "playing"
    /\ conns' = [conns EXCEPT ![c].permitted = ~@]
    /\ UNCHANGED <<service, work, given, table, files, pc, cursor>>

-----------------------------------------------------------------------------
(* account_auth_poll() *)

PollStart ==
    /\ pc = "loop"
    /\ pc' = "take"
    /\ UNCHANGED <<service, work, given, table, conns, files, cursor>>

\* A result is taken and kept in its entry.
PollTake(r) ==
    /\ pc = "take"
    /\ Service!Deliver(r)
    /\ table' = [i \in Entries |->
                    IF i \in Used /\ table[i].request = r
                    THEN [table[i] EXCEPT !.ready = TRUE, !.create = work[r].create,
                                          !.result = work[r].result, !.record = work[r].record]
                    ELSE table[i]]
    /\ work' = [work EXCEPT ![r] = NoWork]
    /\ UNCHANGED <<given, conns, files, pc, cursor>>

PollTaken ==
    /\ pc = "take"
    /\ finished = {}
    /\ pc' = "walk"
    /\ cursor' = 1
    /\ UNCHANGED <<service, work, given, table, conns, files>>

\* Mistake: the permission to force a password is not checked again.
SessionValid_OldPermission(e) ==
    /\ conns[e.conn].request = e.request
    /\ conns[e.conn].state \notin {"dead", "zombie", "available"}
    /\ conns[e.conn].account = e.session

SessionValid(e) ==
    /\ e.kind = "FORCE" => conns[e.conn].permitted
    /\ conns[e.conn].request = e.request
    /\ conns[e.conn].state \notin {"dead", "zombie", "available"}
    /\ conns[e.conn].account = e.session

\* Mistake: the connection keeps the request of a released entry.
Released_Keep(cs, e) == cs

\* The connections after account_auth_release() of an entry.
Released(cs, e) ==
    IF cs[e.conn].request = e.request THEN [cs EXCEPT ![e.conn].request = 0] ELSE cs

Advance ==
    IF cursor = Capacity
    THEN pc' = "loop" /\ cursor' = 1
    ELSE pc' = pc /\ cursor' = cursor + 1

WalkEmpty ==
    /\ pc = "walk" /\ cursor \notin Used
    /\ Advance
    /\ UNCHANGED <<service, work, given, table, conns, files>>

\* An entry that is no longer wanted is cancelled in the pool and released;
\* where access tokens are required, admission may be lost at any time.
WalkDrop ==
    /\ pc = "walk" /\ cursor \in Used
    /\ LET e == table[cursor]
       IN  /\ ~SessionValid(e) \/ e.late \/ AccessRequired
           /\ CancelWork({e.request})
           /\ Forget({e.request})
           /\ conns' = Released(conns, e)
    /\ table' = [table EXCEPT ![cursor] = NoEntry]
    /\ Advance
    /\ UNCHANGED files

Live(e) == SessionValid(e) /\ ~e.late

\* Not answered yet, or the access server is busy: a later poll tries again.
WalkKeep ==
    /\ pc = "walk" /\ cursor \in Used
    /\ Live(table[cursor])
    /\ ~table[cursor].ready \/ AccessRequired
    /\ Advance
    /\ UNCHANGED <<service, work, given, table, conns, files>>

\* Mistake: the file is not compared with what the worker verified.
Outcomes_NoRecheck(e) ==
    LET c       == conns[e.conn]
        current == files[e.name]
        same    == [file |-> current, conn |-> c]
        new     == IF e.create THEN e.record ELSE current
    IN  IF e.result # "MATCH" THEN {same}
        ELSE {same, [file |-> new,
                     conn |-> IF e.kind \in {"LOGIN", "REGISTER"}
                              THEN [c EXCEPT !.account = e.name] ELSE c]}

\* account_auth_complete(): what becomes of the file and of the connection.
\* Loading and saving may fail, and then nothing happened to the file.
Outcomes(e) ==
    LET c       == conns[e.conn]
        current == files[e.name]
        same    == [file |-> current, conn |-> c]
        new     == IF e.create THEN e.record ELSE current
        failed  == [c EXCEPT !.fails = @ + 1,
                             !.state = IF c.fails + 1 >= MaxFails THEN "zombie" ELSE @]
        stale   == IF e.kind = "REGISTER" THEN current # NoCredential ELSE current # e.credential
    IN  IF stale THEN {same}
        ELSE IF e.result # "MATCH"
        THEN {same, [file |-> current,
                     conn |-> IF e.kind = "LOGIN" /\ e.result = "MISMATCH" THEN failed ELSE c]}
        ELSE IF new.form \notin {"record", "outdated"} THEN {same}
        ELSE {same, [file |-> new,
                     conn |-> IF e.kind \in {"LOGIN", "REGISTER"}
                              THEN [c EXCEPT !.account = e.name] ELSE c]}

\* A ready result is applied, unless the access check denies the session.
WalkComplete ==
    /\ pc = "walk" /\ cursor \in Used
    /\ LET e == table[cursor]
       IN  /\ Live(e) /\ e.ready
           /\ Forget({e.request})
           /\ \E o \in Outcomes(e) :
                 /\ files' = [files EXCEPT ![e.name] = o.file]
                 /\ conns' = Released([conns EXCEPT ![e.conn] = o.conn], e)
    /\ table' = [table EXCEPT ![cursor] = NoEntry]
    /\ Advance
    /\ UNCHANGED service

WalkDenied ==
    /\ pc = "walk" /\ cursor \in Used /\ AccessRequired
    /\ LET e == table[cursor]
       IN  Live(e) /\ e.ready /\ Forget({e.request}) /\ conns' = Released(conns, e)
    /\ table' = [table EXCEPT ![cursor] = NoEntry]
    /\ Advance
    /\ UNCHANGED <<service, files>>

Walk == WalkEmpty \/ WalkDrop \/ WalkKeep \/ WalkComplete \/ WalkDenied

\* account_deinit(): the pool is stopped and every entry released.
Deinit ==
    /\ pc = "loop"
    /\ Service!Shutdown
    /\ table' = [i \in Entries |-> NoEntry]
    /\ conns' = [c \in Conns |->
                    IF \E i \in Used : table[i].conn = c /\ table[i].request = conns[c].request
                    THEN [conns[c] EXCEPT !.request = 0] ELSE conns[c]]
    /\ Forget(1..MaxRequest)
    /\ pc' = "stopped"
    /\ UNCHANGED <<files, cursor>>

-----------------------------------------------------------------------------
Command(c) ==
    \/ \E n \in Names, p \in Passwords : Login(c, n, p) \/ Register(c, n, p) \/ PasswordForce(c, n, p)
    \/ \E p, q \in Passwords : PasswordChange(c, p, q)

Next ==
    \/ \E c \in Conns : \/ Command(c)
                        \/ Connect(c) \/ Drop(c) \/ Free(c)
                        \/ LoginChar(c) \/ ChangePermission(c)
    \/ \E r \in 1..MaxRequest : Answer(r) \/ PollTake(r)
    \/ \E i \in Entries : Expire(i)
    \/ PollStart \/ PollTaken \/ Walk \/ Deinit

Spec == Init /\ [][Next]_vars

\* The main loop runs and time passes.  Nothing is assumed of the pool, of
\* the clients or of the access server.
Fairness ==
    /\ WF_vars(PollStart)
    /\ WF_vars(\E r \in 1..MaxRequest : PollTake(r))
    /\ WF_vars(PollTaken)
    /\ WF_vars(Walk)
    /\ \A i \in Entries : WF_vars(Expire(i))

FairSpec == Spec /\ Fairness

-----------------------------------------------------------------------------
(* Properties. *)

\* Types; a connection that failed too often is a zombie before it can fail
\* again, so password_fails stays within MAX_PASSWORD_FAILURES.
AATypeOK ==
    /\ issued \in 0..MaxRequest
    /\ pending \cup finished \cup dropped \cup delivered \subseteq 1..issued
    /\ work \in [1..MaxRequest -> Work]
    /\ table \in [Entries -> Entry \cup {NoEntry}]
    /\ conns \in [Conns -> Conn]
    /\ files \in Files
    /\ pc \in {"loop", "take", "walk", "stopped"}
    /\ cursor \in Entries

\* The pool works for exactly the entries that wait for a result: no work is
\* left behind by a release, and no entry waits for work the pool dropped.
NoOrphanWork ==
    pending \cup finished = {table[i].request : i \in {j \in Used : ~table[j].ready}}

\* A connection and its one entry name each other, whatever order closing,
\* reuse of the socket, completion and timeout happened in.
OneRequestPerConnection ==
    /\ \A i \in Used : conns[table[i].conn].request = table[i].request
    /\ \A c \in Conns : conns[c].request # 0 =>
          \E i \in Used : table[i].conn = c /\ table[i].request = conns[c].request
    /\ \A i, j \in Used : table[i].conn = table[j].conn => i = j

\* The entries, the connections and the pool's work always agree.
RequestsAgree == AATypeOK /\ NoOrphanWork /\ OneRequestPerConnection

\* A connection gets an account only by its own request, made in this life
\* of the socket, and a login only with the password that opens the account
\* at that moment, even if the password changed while the pool worked.
SessionsAreAuthentic ==
    [][\A c \in Conns :
          conns[c].account = None /\ conns'[c].account # None =>
              LET q == given[conns[c].request]
                  n == conns'[c].account
              IN  /\ q.conn = c /\ q.life = conns[c].life /\ q.name = n
                  /\ conns[c].request \in delivered \ dropped
                  /\ q.kind = "LOGIN" => q.work.password = files[n].password
                  /\ q.kind = "REGISTER" => files[n] = NoCredential]_vars

\* The password of an account changes only by a registration of a free name,
\* by a logged-in session that knew the password of that moment, or by a
\* player who at that moment may force passwords.  "Every completion reloads
\* credentials; an earlier result may have changed the account": a completion
\* replaces only the credential its work was made from, so of two racing
\* changes the second is never applied blindly.
PasswordsChangeByRight ==
    [][\A n \in Names :
          files'[n] # files[n] =>
              \E i \in Used :
                  LET e == table[i]
                      q == given[e.request]
                  IN  /\ table'[i] = NoEntry /\ e.name = n /\ q.name = n
                      /\ files[n] = q.work.credential
                      /\ files'[n].password # files[n].password =>
                            /\ files'[n].password = q.work.replacement
                            /\ \/ q.kind = "REGISTER" /\ files[n] = NoCredential
                               \/ /\ q.kind = "CHANGE" /\ q.work.password = files[n].password
                                  /\ conns[e.conn].account = n
                               \/ q.kind = "FORCE" /\ conns[e.conn].permitted]_vars

\* A request ends: it is completed, refused or times out, whether or not the
\* pool ever answers, and its connection may then ask again.
EveryRequestEnds == \A c \in Conns : conns[c].request # 0 ~> conns[c].request = 0

=============================================================================
