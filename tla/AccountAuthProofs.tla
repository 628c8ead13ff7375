------------------------- MODULE AccountAuthProofs -------------------------
(***************************************************************************)
(* Authentication of connections (AccountAuth), for every number of        *)
(* connections, accounts, passwords, entries and requests.                 *)
(***************************************************************************)
EXTENDS AccountAuth, TLAPS

-----------------------------------------------------------------------------
(* The inductive invariant. *)

\* What the pool may answer about work w: a match was verified, and a new
\* record is made from the replacement.
Answered(w, create, result, record) ==
    /\ create => w.create
    /\ result = "MATCH" => /\ w.verify => w.password = w.credential.password
                           /\ create => record.password = w.replacement

\* An entry is about the question its request was made from.
AsksFor(e, q) ==
    /\ q.conn = e.conn /\ q.kind = e.kind /\ q.name = e.name /\ q.work.credential = e.credential
    /\ e.kind \in {"LOGIN", "CHANGE"} => q.work.verify
    /\ e.kind = "LOGIN" /\ q.work.create => q.work.replacement = q.work.password
    /\ e.kind = "REGISTER" => e.credential = NoCredential
    /\ e.kind = "CHANGE" => e.session = e.name
    /\ e.ready => Answered(q.work, e.create, e.result, e.record)

Question == [conn : Conns \cup {None}, life : Nat, kind : AllKinds \cup {"NONE"},
             name : Names \cup {None}, work : Work]

\* An entry's request is its connection's, is not cancelled, is in the pool
\* until its result is taken, and was asked in this life of the socket.
EntrySound(e) ==
    /\ e.request \in 1..issued /\ e.request \notin dropped
    /\ conns[e.conn].request = e.request
    /\ given[e.request].life = conns[e.conn].life
    /\ e.ready => e.request \in delivered /\ e.request \notin pending \cup finished
    /\ ~e.ready => e.request \in pending \cup finished
    /\ AsksFor(e, given[e.request])

\* Nothing in the pool and no connection's request is without an entry.
Accounted ==
    /\ \A i, j \in Used : table[i].request = table[j].request => i = j
    /\ \A r \in pending \cup finished : \E i \in Used : table[i].request = r
    /\ \A c \in Conns : conns[c].request # 0 =>
          \E i \in Used : table[i].conn = c /\ table[i].request = conns[c].request

\* The pool holds the work that was asked for, or an answer to it.
PoolSound ==
    /\ pending \cap finished = {}
    /\ \A r \in pending : work[r] = given[r].work
    /\ \A r \in finished : Answered(given[r].work, work[r].create, work[r].result, work[r].record)

\* The relations between entries, connections and the pool.
Relations == (\A i \in Used : EntrySound(table[i])) /\ Accounted /\ PoolSound

\* The types, and that a live connection has not failed too often.
Typed ==
    /\ AATypeOK
    /\ given \in [1..MaxRequest -> Question]
    /\ \A c \in Conns : conns[c].state \in {"login", "playing"} => conns[c].fails < MaxFails

AuthInv == Typed /\ Relations

-----------------------------------------------------------------------------
(* Facts about the operators. *)

\* The pool's answers are work items and answer the work.
LEMMA ExecutedSound ==
  ASSUME NEW w \in Work, NEW x \in Executed(w)
  PROVE  x \in Work /\ Answered(w, x.create, x.result, x.record)
<1>1. PICK result \in VerifyResults(w) :
        x \in IF result = "MATCH" /\ w.create
              THEN {Finished(w, "MATCH", RecordOf(w.replacement, w.request)),
                    Finished(w, "ERROR", NoCredential)}
              ELSE {Finished(w, result, w.record)}
  BY DEF Executed
<1>2. result \in Results /\ (result = "MATCH" /\ w.verify => w.password = w.credential.password)
  <2>1. CASE ~w.verify
    BY <2>1 DEF VerifyResults, Results
  <2>2. CASE w.verify /\ w.credential.form = "legacy"
    BY <2>2 DEF VerifyResults, Results
  <2>3. CASE w.verify /\ w.credential.form # "legacy"
    BY <2>3 DEF VerifyResults, Results
  <2> QED
    BY <2>1, <2>2, <2>3
<1>3. RecordOf(w.replacement, w.request) \in Credential
  BY DEF Work, RecordOf, Credential, Forms
<1>4. ASSUME NEW res \in Results, NEW rec \in Credential \cup {NoCredential}
      PROVE  /\ Finished(w, res, rec) \in Work
             /\ Finished(w, res, rec).create = w.create /\ Finished(w, res, rec).result = res
             /\ Finished(w, res, rec).record = rec
  BY DEF Work, Finished
<1>5. w.record \in Credential \cup {NoCredential} /\ w.create \in BOOLEAN
  BY DEF Work
<1>6. CASE result = "MATCH" /\ w.create
  <2>1. CASE x = Finished(w, "MATCH", RecordOf(w.replacement, w.request))
    <3>1. /\ x \in Work /\ x.create = w.create /\ x.result = "MATCH"
          /\ x.record = RecordOf(w.replacement, w.request)
      BY <1>3, <1>4, <2>1 DEF Results
    <3>2. x.record.password = w.replacement
      BY <3>1 DEF RecordOf
    <3> QED
      BY <1>2, <1>6, <3>1, <3>2 DEF Answered
  <2>2. CASE x = Finished(w, "ERROR", NoCredential)
    BY <1>4, <1>6, <2>2 DEF Answered, Results
  <2> QED
    BY <1>1, <1>6, <2>1, <2>2
<1>7. CASE ~(result = "MATCH" /\ w.create)
  <2>1. x = Finished(w, result, w.record)
    BY <1>1, <1>7
  <2> QED
    BY <1>2, <1>4, <1>5, <1>7, <2>1 DEF Answered
<1> QED
  BY <1>6, <1>7

\* The zeroed work and question.
LEMMA Zeroed == NoWork \in Work /\ NoQuestion \in Question
<1>1. NoWork \in Work
  BY DEF Work, NoWork, NoCredential, Results
<1> QED
  BY <1>1 DEF NoQuestion, Question

\* What the work of a request says of the request it was made for.
SoundWork(w, credential, password, replacement) ==
  /\ w \in Work /\ w.credential = credential /\ w.password = password
  /\ replacement = None /\ w.create => w.replacement = password

\* What account_auth_submit() asks of the pool.
LEMMA WorkForSound ==
  ASSUME NEW kind \in AllKinds, NEW password \in Passwords \cup {None},
         NEW replacement \in Passwords \cup {None},
         NEW credential \in Credential \cup {NoCredential}, NEW r \in Nat
  PROVE  SoundWork(WorkFor(kind, credential, password, replacement, r), credential, password, replacement)
<1> DEFINE create == NeedsRecord(kind, credential)
           verify == kind \in {"LOGIN", "CHANGE"}
           rep == IF ~create THEN None ELSE IF replacement # None THEN replacement ELSE password
<1>1. create \in BOOLEAN /\ verify \in BOOLEAN
  BY DEF NeedsRecord
<1>2. rep \in Passwords \cup {None} /\ (replacement = None /\ create => rep = password)
  OBVIOUS
<1> DEFINE v == [request |-> r, verify |-> verify, create |-> create, credential |-> credential,
                 password |-> password, replacement |-> rep, result |-> "MATCH", record |-> NoCredential]
<1>3. WorkFor(kind, credential, password, replacement, r) =
        [NoWork EXCEPT !.request = r, !.verify = verify, !.create = create, !.credential = credential,
                       !.password = password, !.replacement = rep]
  BY DEF WorkFor
<1> HIDE DEF create, verify, rep
<1>6. WorkFor(kind, credential, password, replacement, r) = v
  BY <1>3 DEF NoWork
<1>4. v \in Work
  BY <1>1, <1>2 DEF Work, Results
<1>5. v.credential = credential /\ v.password = password /\ v.create = create /\ v.replacement = rep
  OBVIOUS
<1> HIDE DEF v
<1> QED
  BY ONLY <1>2, <1>4, <1>5, <1>6 DEF SoundWork

LEMMA WorkForVerifies ==
  ASSUME NEW kind \in {"LOGIN", "CHANGE"}, NEW credential, NEW password, NEW replacement, NEW r
  PROVE  WorkFor(kind, credential, password, replacement, r).verify
  BY DEF WorkFor, NoWork

\* A connection with another request.
LEMMA ConnRequest ==
  ASSUME NEW d \in Conn, NEW r \in 0..MaxRequest
  PROVE  LET n == [d EXCEPT !.request = r]
         IN  /\ n \in Conn /\ n.request = r
             /\ n.life = d.life /\ n.state = d.state /\ n.fails = d.fails /\ n.account = d.account
             /\ n.permitted = d.permitted
  BY DEF Conn

\* The first state: nothing was asked.
LEMMA Initially == Init => AuthInv
<1> SUFFICES ASSUME Init PROVE AuthInv
  OBVIOUS
<1> USE BoundsAssumption, CapacityAssumption, FailsAssumption, FilesAssumption DEF Init, Service!Init
<1>1. Used = {}
  BY DEF Used
<1>2. conns \in [Conns -> Conn] /\ \A c \in Conns : conns[c].request = 0 /\ conns[c].state = "available"
  BY DEF Conn, ConnStates
<1>3. given \in [1..MaxRequest -> Question] /\ work \in [1..MaxRequest -> Work]
  BY Zeroed
<1>4. AATypeOK
  <2>1. table \in [Entries -> Entry \cup {NoEntry}] /\ cursor \in Entries /\ files \in Files
    BY DEF Entries
  <2>2. issued \in 0..MaxRequest /\ pending \cup finished \cup dropped \cup delivered \subseteq 1..issued
    OBVIOUS
  <2> QED
    BY <1>2, <1>3, <2>1, <2>2 DEF AATypeOK
<1>5. Relations
  BY <1>1, <1>2 DEF Relations, Accounted, PoolSound
<1> QED
  BY <1>2, <1>3, <1>4, <1>5 DEF AuthInv, Typed

\* The invariant says that requests agree.
LEMMA AuthInvImplies == AuthInv => RequestsAgree
<1> SUFFICES ASSUME AuthInv PROVE RequestsAgree
  OBVIOUS
<1> USE DEF AuthInv, Relations, Accounted
<1>1. NoOrphanWork
  <2>1. ASSUME NEW r \in pending \cup finished
        PROVE  r \in {table[i].request : i \in {j \in Used : ~table[j].ready}}
    <3>1. PICK i \in Used : table[i].request = r
      BY <2>1
    <3>2. ~table[i].ready
      BY <2>1, <3>1 DEF EntrySound
    <3> QED
      BY <3>1, <3>2
  <2>2. ASSUME NEW i \in Used, ~table[i].ready PROVE table[i].request \in pending \cup finished
    BY <2>2 DEF EntrySound
  <2> QED
    BY <2>1, <2>2 DEF NoOrphanWork
<1>2. OneRequestPerConnection
  BY DEF OneRequestPerConnection, EntrySound
<1> QED
  BY <1>1, <1>2 DEF RequestsAgree, Typed

\* The fields of an entry in use.
LEMMA UsedEntry ==
  ASSUME Typed, NEW i \in Used
  PROVE  /\ i \in Entries /\ table[i] \in Entry /\ table[i].conn \in Conns /\ table[i].name \in Names
         /\ table[i].request \in 1..MaxRequest /\ table[i].ready \in BOOLEAN
         /\ table[i].kind \in AllKinds
  BY DEF Typed, AATypeOK, Used, Entry

-----------------------------------------------------------------------------
(* Submission. *)

\* Steps that only change other fields of the connections.
LEMMA RelationsSame ==
  ASSUME AuthInv, UNCHANGED <<pending, finished, dropped, delivered, work, given, table>>,
         issued' \in Nat, issued <= issued',
         \A c \in Conns : conns'[c].request = conns[c].request /\ conns'[c].life = conns[c].life
  PROVE  Relations'
<1> USE DEF AuthInv, Relations
<1>1. Used' = Used
  BY DEF Used
<1>2. ASSUME NEW i \in Used PROVE EntrySound(table[i])'
  <2>1. EntrySound(table[i]) /\ table[i].conn \in Conns /\ table'[i] = table[i]
    BY UsedEntry
  <2>2. issued \in Nat
    BY BoundsAssumption DEF Typed, AATypeOK
  <2> QED
    BY <2>1, <2>2 DEF EntrySound
<1>3. Accounted'
  BY <1>1 DEF Accounted
<1>4. PoolSound'
  BY DEF PoolSound
<1> QED
  BY <1>1, <1>2, <1>3, <1>4

\* account_auth_submit() with the pool refusing.
LEMMA RefuseKeeps ==
  ASSUME AuthInv, Service!Refuse, UNCHANGED <<work, given, table, conns, files, pc, cursor>>
  PROVE  AuthInv'
<1>1. /\ issued' = issued + 1 /\ issued < MaxRequest
      /\ UNCHANGED <<pending, finished, dropped, delivered>>
  BY DEF Service!Refuse
<1>2. issued' \in 0..MaxRequest /\ issued \in Nat
  BY <1>1, BoundsAssumption DEF AuthInv, Typed, AATypeOK
<1>3. Relations'
  BY <1>1, <1>2, RelationsSame
<1>4. Typed'
  BY <1>1, <1>2 DEF AuthInv, Typed, AATypeOK
<1> QED
  BY <1>3, <1>4 DEF AuthInv

\* account_auth_submit() with the pool accepting: the new request is in use
\* nowhere, and the connection had none.
LEMMA AcceptKeeps ==
  ASSUME AuthInv, NEW c \in Conns, NEW kind \in AllKinds, NEW name \in Names,
         NEW password \in Passwords \cup {None}, NEW replacement \in Passwords \cup {None},
         conns[c].request = 0,
         kind = "REGISTER" => files[name] = NoCredential,
         kind = "CHANGE" => name = conns[c].account,
         kind = "LOGIN" => replacement = None,
         Enter(c, kind, name, password, replacement), Service!Accept, UNCHANGED <<files, pc, cursor>>
  PROVE  AuthInv'
<1> DEFINE r == issued + 1
           w == WorkFor(kind, files[name], password, replacement, r)
           q == [conn |-> c, life |-> conns[c].life, kind |-> kind, name |-> name, work |-> w]
           e == EntryFor(c, kind, name, r)
<1>1. /\ issued < MaxRequest /\ issued' = r /\ pending' = pending \cup {r}
      /\ UNCHANGED <<finished, dropped, delivered>>
  BY DEF Service!Accept
<1>2. issued \in Nat /\ r \in 1..MaxRequest /\ r \in Nat
  BY <1>1, BoundsAssumption DEF AuthInv, Typed, AATypeOK
<1>3. /\ work' = [work EXCEPT ![r] = w] /\ given' = [given EXCEPT ![r] = q]
      /\ conns' = [conns EXCEPT ![c].request = r]
      /\ \E i \in Entries : FreeEntry(i) /\ table' = [table EXCEPT ![i] = e]
  <2>1. r \notin pending
    BY <1>2 DEF AuthInv, Typed, AATypeOK
  <2>2. ~Service!Refuse
    BY <1>1, <2>1 DEF Service!Refuse
  <2> QED
    BY <2>2 DEF Enter
<1>4. PICK k \in Entries : FreeEntry(k) /\ table' = [table EXCEPT ![k] = e]
  BY <1>3
<1>5. k \notin Used
  BY <1>4 DEF FreeEntry
<1>6. files[name] \in Credential \cup {NoCredential} /\ conns[c] \in Conn
  BY DEF AuthInv, Typed, AATypeOK, Files
<1>7. /\ w \in Work /\ w.credential = files[name] /\ (kind \in {"LOGIN", "CHANGE"} => w.verify)
      /\ w.password = password /\ (replacement = None /\ w.create => w.replacement = password)
  <2> HIDE DEF r
  <2>1. r \in Nat /\ files[name] \in Credential \cup {NoCredential}
    BY <1>2, <1>6
  <2>2. SoundWork(w, files[name], password, replacement)
    BY <2>1, WorkForSound, Zenon
  <2>4. kind \in {"LOGIN", "CHANGE"} => w.verify
    BY WorkForVerifies, Zenon
  <2> HIDE DEF w
  <2> QED
    BY <2>2, <2>4 DEF SoundWork
<1> HIDE DEF w
<1>8. /\ e \in Entry /\ e # NoEntry /\ e.conn = c /\ e.request = r /\ e.name = name /\ e.kind = kind
      /\ e.credential = files[name] /\ e.session = conns[c].account /\ ~e.ready
  <2>1. conns[c].account \in Names \cup {None}
    BY <1>6 DEF Conn
  <2>2. e = [conn |-> c, request |-> r, name |-> name, session |-> conns[c].account,
             kind |-> kind, credential |-> files[name], late |-> FALSE, ready |-> FALSE,
             create |-> FALSE, result |-> "MATCH", record |-> NoCredential]
    BY DEF EntryFor
  <2> HIDE DEF e
  <2> QED
    BY <1>2, <1>6, <2>1, <2>2 DEF Entry, NoEntry, Results
<1>9. q \in Question
  BY <1>6, <1>7 DEF Question, Conn
<1> HIDE DEF e, r
<1>10. /\ work' \in [1..MaxRequest -> Work] /\ work'[r] = w
       /\ \A x \in 1..MaxRequest : x # r => work'[x] = work[x]
  BY <1>2, <1>3, <1>7 DEF AuthInv, Typed, AATypeOK
<1>11. /\ given' \in [1..MaxRequest -> Question] /\ given'[r] = q
       /\ \A x \in 1..MaxRequest : x # r => given'[x] = given[x]
  BY <1>2, <1>3, <1>9 DEF AuthInv, Typed, AATypeOK
<1>12. /\ conns' \in [Conns -> Conn] /\ conns'[c] = [conns[c] EXCEPT !.request = r]
       /\ conns'[c].request = r /\ conns'[c].life = conns[c].life
       /\ \A d \in Conns : /\ (d # c => conns'[d] = conns[d])
                           /\ conns'[d].state = conns[d].state /\ conns'[d].fails = conns[d].fails
  <2>1. conns \in [Conns -> Conn] /\ conns[c] \in Conn /\ r \in 0..MaxRequest
    BY <1>2 DEF AuthInv, Typed, AATypeOK
  <2>2. conns' = [conns EXCEPT ![c] = [conns[c] EXCEPT !.request = r]]
    BY <1>3
  <2> DEFINE n == [conns[c] EXCEPT !.request = r]
  <2>3. n \in Conn /\ n.request = r /\ n.life = conns[c].life /\ n.state = conns[c].state
        /\ n.fails = conns[c].fails
    BY <2>1, ConnRequest
  <2> HIDE DEF n
  <2>4. conns' = [conns EXCEPT ![c] = n]
    BY <2>2 DEF n
  <2>5. conns' \in [Conns -> Conn] /\ conns'[c] = n /\ \A d \in Conns : d # c => conns'[d] = conns[d]
    BY <2>1, <2>3, <2>4
  <2> QED
    BY <2>3, <2>5 DEF n
<1>13. /\ table' \in [Entries -> Entry \cup {NoEntry}] /\ table'[k] = e
       /\ \A i \in Entries : i # k => table'[i] = table[i]
  BY <1>4, <1>8 DEF AuthInv, Typed, AATypeOK
<1>14. Used' = Used \cup {k}
  BY <1>8, <1>13 DEF Used
<1>15. Typed'
  <2>1. issued' \in 0..MaxRequest /\ pending' \cup finished' \cup dropped' \cup delivered' \subseteq 1..issued'
    BY <1>1, <1>2 DEF AuthInv, Typed, AATypeOK, r
  <2>2. \A d \in Conns : conns'[d].state \in {"login", "playing"} => conns'[d].fails < MaxFails
    BY <1>12 DEF AuthInv, Typed
  <2> QED
    BY <1>10, <1>11, <1>12, <1>13, <2>1, <2>2 DEF AuthInv, Typed, AATypeOK
<1>16. ASSUME NEW i \in Used
       PROVE  /\ i # k /\ i \in Entries /\ table'[i] = table[i] /\ table[i].request # r
              /\ table[i].request \in 1..MaxRequest
              /\ table[i].conn # c /\ table[i].conn \in Conns /\ EntrySound(table[i])
  <2>1. i # k /\ i \in Entries /\ table[i].conn \in Conns /\ table[i].request \in 1..MaxRequest
        /\ EntrySound(table[i])
    BY <1>5, UsedEntry DEF AuthInv, Relations
  <2> QED
    BY <1>2, <1>13, <2>1 DEF EntrySound, r
<1>17. ASSUME NEW i \in Used PROVE EntrySound(table[i])'
  <2>1. /\ conns'[table[i].conn] = conns[table[i].conn]
        /\ given'[table[i].request] = given[table[i].request]
        /\ table[i].request \in 1..issued'
    BY <1>1, <1>2, <1>11, <1>12, <1>16 DEF EntrySound, r
  <2> QED
    BY <1>1, <1>16, <2>1 DEF EntrySound
<1>18. EntrySound(table[k])'
  <2>1. r \notin dropped
    BY <1>2 DEF AuthInv, Typed, AATypeOK, r
  <2>2. AsksFor(e, q)
    BY <1>7, <1>8 DEF AsksFor
  <2>3. e.request \in 1..issued' /\ e.request \notin dropped' /\ e.request \in pending'
    BY <1>1, <1>2, <1>8, <2>1
  <2>4. conns'[e.conn].request = e.request /\ given'[e.request] = q
    BY <1>8, <1>11, <1>12
  <2>5. given'[e.request].life = conns'[e.conn].life
    BY <1>8, <1>12, <2>4
  <2> HIDE DEF q
  <2> QED
    BY <1>8, <1>13, <2>2, <2>3, <2>4, <2>5 DEF EntrySound
<1>19. Accounted'
  <2>1. \A i, j \in Used' : table'[i].request = table'[j].request => i = j
    BY <1>8, <1>13, <1>14, <1>16 DEF AuthInv, Relations, Accounted
  <2>2. \A x \in pending' \cup finished' : \E i \in Used' : table'[i].request = x
    BY <1>1, <1>8, <1>13, <1>14, <1>16 DEF AuthInv, Relations, Accounted
  <2>3. \A d \in Conns : conns'[d].request # 0 =>
          \E i \in Used' : table'[i].conn = d /\ table'[i].request = conns'[d].request
    <3> SUFFICES ASSUME NEW d \in Conns, conns'[d].request # 0
                 PROVE  \E i \in Used' : table'[i].conn = d /\ table'[i].request = conns'[d].request
      OBVIOUS
    <3>1. CASE d = c
      <4>1. k \in Used' /\ table'[k].conn = d /\ table'[k].request = conns'[d].request
        BY <1>8, <1>12, <1>13, <1>14, <3>1
      <4> QED
        BY <4>1
    <3>2. CASE d # c
      BY <1>12, <1>14, <1>16, <3>2 DEF AuthInv, Relations, Accounted
    <3> QED
      BY <3>1, <3>2
  <2> QED
    BY <2>1, <2>2, <2>3 DEF Accounted
<1>20. PoolSound'
  <2>1. pending \cup finished \subseteq 1..MaxRequest /\ r \notin pending \cup finished
    BY <1>2, BoundsAssumption DEF AuthInv, Typed, AATypeOK, r
  <2> QED
    BY <1>1, <1>10, <1>11, <2>1 DEF AuthInv, Relations, PoolSound
<1> QED
  BY <1>14, <1>15, <1>17, <1>18, <1>19, <1>20 DEF AuthInv, Relations

\* The four commands.
LEMMA CommandKeeps == ASSUME AuthInv, NEW c \in Conns, Command(c) PROVE AuthInv'
<1>1. ASSUME NEW kind \in AllKinds, NEW name \in Names,
             NEW password \in Passwords \cup {None}, NEW replacement \in Passwords \cup {None},
             kind = "REGISTER" => files[name] = NoCredential,
             kind = "CHANGE" => name = conns[c].account,
             kind = "LOGIN" => replacement = None,
             AuthSubmit(c, kind, name, password, replacement)
      PROVE  AuthInv'
  <2>1. conns[c].request = 0 /\ Enter(c, kind, name, password, replacement) /\ UNCHANGED <<files, pc, cursor>>
    BY <1>1 DEF AuthSubmit
  <2>2. \/ Service!Refuse /\ UNCHANGED <<work, given, table, conns>>
        \/ Service!Accept
    BY <2>1 DEF Enter
  <2>3. CASE Service!Refuse /\ UNCHANGED <<work, given, table, conns>>
    BY <2>1, <2>3, RefuseKeeps
  <2>4. CASE Service!Accept
    BY <1>1, <2>1, <2>4, AcceptKeeps
  <2> QED
    BY <2>2, <2>3, <2>4
<1>2. ASSUME NEW n \in Names, NEW p \in Passwords, Login(c, n, p) PROVE AuthInv'
  BY <1>1, <1>2 DEF Login, AllKinds
<1>3. ASSUME NEW n \in Names, NEW p \in Passwords, Register(c, n, p) PROVE AuthInv'
  BY <1>1, <1>3 DEF Register, AllKinds
<1>4. ASSUME NEW n \in Names, NEW p \in Passwords, PasswordForce(c, n, p) PROVE AuthInv'
  BY <1>1, <1>4 DEF PasswordForce, AllKinds
<1>5. ASSUME NEW p \in Passwords, NEW new \in Passwords, PasswordChange(c, p, new) PROVE AuthInv'
  <2>1. conns[c].account \in Names
    BY <1>5 DEF PasswordChange, AuthInv, Typed, AATypeOK, Conn
  <2> QED
    BY <1>1, <1>5, <2>1 DEF PasswordChange, AllKinds
<1> QED
  BY <1>2, <1>3, <1>4, <1>5 DEF Command

-----------------------------------------------------------------------------
(* The pool and the clock. *)

LEMMA AnswerKeeps == ASSUME AuthInv, NEW r \in 1..MaxRequest, Answer(r) PROVE AuthInv'
<1>1. /\ r \in pending /\ pending' = pending \ {r} /\ finished' = finished \cup {r}
      /\ UNCHANGED <<issued, dropped, delivered, given, table, conns, files, pc, cursor>>
  BY DEF Answer, Service!Answer
<1>2. PICK x \in Executed(work[r]) : work' = [work EXCEPT ![r] = x]
  BY DEF Answer
<1>3. work[r] = given[r].work /\ work[r] \in Work /\ r \notin finished
  BY <1>1 DEF AuthInv, Typed, AATypeOK, Relations, PoolSound
<1>4. x \in Work /\ Answered(given[r].work, x.create, x.result, x.record)
  BY <1>2, <1>3, ExecutedSound
<1>5. /\ work' \in [1..MaxRequest -> Work] /\ work'[r] = x
      /\ \A y \in 1..MaxRequest : y # r => work'[y] = work[y]
  BY <1>2, <1>4 DEF AuthInv, Typed, AATypeOK
<1>6. Typed'
  BY <1>1, <1>5 DEF AuthInv, Typed, AATypeOK
<1>7. Used' = Used /\ pending' \cup finished' = pending \cup finished
  BY <1>1 DEF Used
<1>8. \A i \in Used' : EntrySound(table[i])'
  BY <1>1, <1>7 DEF AuthInv, Relations, EntrySound
<1>9. Accounted'
  BY <1>1, <1>7 DEF AuthInv, Relations, Accounted
<1>10. PoolSound'
  <2>1. pending \cup finished \subseteq 1..MaxRequest
    BY BoundsAssumption DEF AuthInv, Typed, AATypeOK
  <2>2. pending' \cap finished' = {} /\ \A y \in pending' : work'[y] = given'[y].work
    BY <1>1, <1>3, <1>5, <2>1 DEF AuthInv, Relations, PoolSound
  <2>3. \A y \in finished' : Answered(given'[y].work, work'[y].create, work'[y].result, work'[y].record)
    BY <1>1, <1>4, <1>5, <2>1 DEF AuthInv, Relations, PoolSound
  <2> QED
    BY <2>2, <2>3 DEF PoolSound
<1> QED
  BY <1>6, <1>8, <1>9, <1>10 DEF AuthInv, Relations

\* Another entry in a place where only the answer or the deadline differs.
LEMMA SameQuestion ==
  ASSUME AuthInv, UNCHANGED <<conns, given>>,
         table' \in [Entries -> Entry \cup {NoEntry}],
         \A i \in Entries : \/ table'[i] = table[i]
                            \/ /\ i \in Used /\ table'[i] # NoEntry
                               /\ table'[i].conn = table[i].conn /\ table'[i].request = table[i].request
  PROVE  /\ Used' = Used
         /\ \A i \in Used : table'[i].conn = table[i].conn /\ table'[i].request = table[i].request
<1>1. Used' = Used
  BY DEF Used
<1> QED
  BY <1>1, UsedEntry DEF AuthInv

LEMMA ExpireKeeps == ASSUME AuthInv, NEW k \in Entries, Expire(k) PROVE AuthInv'
<1>1. /\ k \in Used /\ table' = [table EXCEPT ![k].late = TRUE]
      /\ UNCHANGED <<issued, pending, finished, dropped, delivered, work, given, conns, files, pc, cursor>>
  BY DEF Expire, service
<1> DEFINE old == table[k]
           e == [old EXCEPT !.late = TRUE]
<1>2. old \in Entry
  BY <1>1, UsedEntry DEF AuthInv
<1>3. ASSUME NEW o \in Entry
      PROVE  LET n == [o EXCEPT !.late = TRUE]
             IN  /\ n \in Entry /\ n # NoEntry /\ n.conn = o.conn /\ n.request = o.request
                 /\ n.name = o.name /\ n.session = o.session /\ n.kind = o.kind
                 /\ n.credential = o.credential /\ n.ready = o.ready /\ n.create = o.create
                 /\ n.result = o.result /\ n.record = o.record
  BY DEF Entry, NoEntry
<1>4. /\ e \in Entry /\ e # NoEntry /\ e.conn = old.conn /\ e.request = old.request
      /\ e.name = old.name /\ e.session = old.session /\ e.kind = old.kind
      /\ e.credential = old.credential /\ e.ready = old.ready /\ e.create = old.create
      /\ e.result = old.result /\ e.record = old.record
  BY <1>2, <1>3
<1>5. table' = [table EXCEPT ![k] = e]
  BY <1>1
<1> HIDE DEF e
<1>6. /\ table' \in [Entries -> Entry \cup {NoEntry}] /\ table'[k] = e
      /\ \A i \in Entries : i # k => table'[i] = table[i]
  BY <1>4, <1>5 DEF AuthInv, Typed, AATypeOK
<1>7. /\ Used' = Used
      /\ \A i \in Used : table'[i].conn = table[i].conn /\ table'[i].request = table[i].request
  BY <1>1, <1>4, <1>6, SameQuestion
<1>8. Typed'
  BY <1>1, <1>6 DEF AuthInv, Typed, AATypeOK
<1>9. ASSUME NEW i \in Used PROVE EntrySound(table[i])'
  <2>1. EntrySound(table[i])
    BY DEF AuthInv, Relations
  <2>2. CASE i # k
    BY <1>1, <1>6, <2>1, <2>2, UsedEntry DEF EntrySound, AuthInv
  <2>3. CASE i = k
    <3>1. AsksFor(old, given[old.request]) => AsksFor(e, given[old.request])
      BY <1>4 DEF AsksFor
    <3>2. EntrySound(e)
      BY <1>4, <2>1, <2>3, <3>1 DEF EntrySound
    <3> QED
      BY <1>1, <1>6, <2>3, <3>2 DEF EntrySound
  <2> QED
    BY <2>2, <2>3
<1>10. Accounted' /\ PoolSound'
  BY <1>1, <1>7 DEF AuthInv, Relations, Accounted, PoolSound
<1> QED
  BY <1>7, <1>8, <1>9, <1>10 DEF AuthInv, Relations

\* A result goes to the one entry that waits for it.
LEMMA PollTakeKeeps == ASSUME AuthInv, NEW r \in 1..MaxRequest, PollTake(r) PROVE AuthInv'
<1> DEFINE Taken(o) == [o EXCEPT !.ready = TRUE, !.create = work[r].create,
                                 !.result = work[r].result, !.record = work[r].record]
<1>1. /\ r \in finished /\ finished' = finished \ {r} /\ delivered' = delivered \cup {r}
      /\ table' = [i \in Entries |-> IF i \in Used /\ table[i].request = r THEN Taken(table[i]) ELSE table[i]]
      /\ work' = [work EXCEPT ![r] = NoWork]
      /\ UNCHANGED <<issued, pending, dropped, given, conns, files, pc, cursor>>
  BY DEF PollTake, Service!Deliver
<1>2. r \notin pending /\ work[r] \in Work
      /\ Answered(given[r].work, work[r].create, work[r].result, work[r].record)
  BY <1>1 DEF AuthInv, Typed, AATypeOK, Relations, PoolSound
<1>3. /\ work[r].create \in BOOLEAN /\ work[r].result \in Results
      /\ work[r].record \in Credential \cup {NoCredential}
  BY <1>2 DEF Work
<1>4. ASSUME NEW o \in Entry
      PROVE  /\ Taken(o) \in Entry /\ Taken(o) # NoEntry
             /\ Taken(o).conn = o.conn /\ Taken(o).request = o.request
             /\ Taken(o).name = o.name /\ Taken(o).session = o.session /\ Taken(o).kind = o.kind
             /\ Taken(o).credential = o.credential /\ Taken(o).ready = TRUE
             /\ Taken(o).create = work[r].create
             /\ Taken(o).result = work[r].result /\ Taken(o).record = work[r].record
  BY <1>3 DEF Entry, NoEntry
<1> HIDE DEF Taken
<1>5. table' \in [Entries -> Entry \cup {NoEntry}]
  <2>1. ASSUME NEW i \in Entries PROVE table'[i] \in Entry \cup {NoEntry}
    BY <1>1, <1>4, UsedEntry DEF AuthInv, Typed, AATypeOK
  <2> QED
    BY <1>1, <2>1
<1>6. /\ Used' = Used
      /\ \A i \in Used : table'[i].conn = table[i].conn /\ table'[i].request = table[i].request
  BY <1>1, <1>4, <1>5, SameQuestion, UsedEntry DEF AuthInv
<1>7. /\ work' \in [1..MaxRequest -> Work] /\ \A y \in 1..MaxRequest : y # r => work'[y] = work[y]
  BY <1>1, Zeroed DEF AuthInv, Typed, AATypeOK
<1>8. Typed'
  BY <1>1, <1>5, <1>7 DEF AuthInv, Typed, AATypeOK
<1>9. ASSUME NEW i \in Used PROVE EntrySound(table[i])'
  <2>1. EntrySound(table[i]) /\ table[i] \in Entry /\ i \in Entries
    BY UsedEntry DEF AuthInv, Relations
  <2>2. CASE table[i].request # r
    <3>1. table'[i] = table[i]
      BY <1>1, <2>1, <2>2
    <3> QED
      BY <1>1, <2>1, <2>2, <3>1 DEF EntrySound
  <2>3. CASE table[i].request = r
    <3> DEFINE old == table[i]
               e == Taken(old)
    <3>1. table'[i] = e
      BY <1>1, <2>1, <2>3
    <3>2. AsksFor(old, given[r]) => AsksFor(e, given[r])
      BY <1>2, <1>4, <2>1 DEF AsksFor
    <3>3. e.request = r /\ e.conn = old.conn /\ e.ready = TRUE
      BY <1>4, <2>1, <2>3
    <3> HIDE DEF e
    <3> QED
      BY <1>1, <1>2, <2>1, <2>3, <3>1, <3>2, <3>3 DEF EntrySound
  <2> QED
    BY <2>2, <2>3
<1>10. Accounted'
  <2>1. \A i, j \in Used' : table'[i].request = table'[j].request => i = j
    BY <1>6 DEF AuthInv, Relations, Accounted
  <2>0. pending' \cup finished' \subseteq pending \cup finished /\ conns' = conns
    BY <1>1
  <2>2. \A x \in pending' \cup finished' : \E i \in Used' : table'[i].request = x
    BY <1>6, <2>0 DEF AuthInv, Relations, Accounted
  <2>3. \A c \in Conns : conns'[c].request # 0 =>
          \E i \in Used' : table'[i].conn = c /\ table'[i].request = conns'[c].request
    BY <1>6, <2>0 DEF AuthInv, Relations, Accounted
  <2> QED
    BY <2>1, <2>2, <2>3 DEF Accounted
<1>11. PoolSound'
  <2>1. pending \cup finished \subseteq 1..MaxRequest
    BY BoundsAssumption DEF AuthInv, Typed, AATypeOK
  <2> QED
    BY <1>1, <1>2, <1>7, <2>1 DEF AuthInv, Relations, PoolSound
<1> QED
  BY <1>6, <1>8, <1>9, <1>10, <1>11 DEF AuthInv, Relations

-----------------------------------------------------------------------------
(* Entries are released. *)

\* The entries M go with their requests R.  A connection loses all its entries
\* and its request, or none.
LEMMA ReleaseKeeps ==
  ASSUME AuthInv, NEW M, M \subseteq Used, NEW R, R = {table[i].request : i \in M},
         table' = [i \in Entries |-> IF i \in M THEN NoEntry ELSE table[i]],
         Forget(R), pending' = pending \ R, finished' = finished \ R,
         dropped' \subseteq dropped \cup R, UNCHANGED <<issued, delivered>>,
         \A c \in Conns :
            \/ /\ conns'[c].request = conns[c].request /\ conns'[c].life = conns[c].life
               /\ \A i \in M : table[i].conn # c
            \/ conns'[c].request = 0 /\ \A i \in Used : table[i].conn = c => i \in M,
         conns' \in [Conns -> Conn], files' \in Files,
         \A c \in Conns : conns'[c].state \in {"login", "playing"} => conns'[c].fails < MaxFails,
         pc' \in {"loop", "take", "walk", "stopped"}, cursor' \in Entries
  PROVE  AuthInv'
<1>1. R \subseteq 1..issued /\ R \subseteq 1..MaxRequest
  <2>1. \A i \in M : table[i].request \in 1..issued /\ table[i].request \in 1..MaxRequest
    BY UsedEntry DEF AuthInv, Relations, EntrySound
  <2> QED
    BY <2>1
<1>2. /\ work' \in [1..MaxRequest -> Work] /\ given' \in [1..MaxRequest -> Question]
      /\ \A r \in 1..MaxRequest : r \notin R => work'[r] = work[r] /\ given'[r] = given[r]
  BY Zeroed DEF Forget, AuthInv, Typed, AATypeOK
<1>3. /\ table' \in [Entries -> Entry \cup {NoEntry}] /\ Used' = Used \ M
      /\ \A i \in Used' : table'[i] = table[i]
  BY DEF Used, AuthInv, Typed, AATypeOK
<1>4. Typed'
  <2>1. pending' \cup finished' \cup dropped' \cup delivered' \subseteq 1..issued'
    BY <1>1 DEF AuthInv, Typed, AATypeOK
  <2> QED
    BY <1>2, <1>3, <2>1 DEF AuthInv, Typed, AATypeOK
<1>5. ASSUME NEW i \in Used'
      PROVE  /\ i \in Used /\ table'[i] = table[i] /\ table[i].conn \in Conns
             /\ table[i].request \in 1..MaxRequest /\ table[i].request \notin R
             /\ EntrySound(table[i])
  <2>1. i \in Used /\ i \notin M /\ table'[i] = table[i]
    BY <1>3
  <2>2. table[i].conn \in Conns /\ table[i].request \in 1..MaxRequest /\ EntrySound(table[i])
    BY <2>1, UsedEntry DEF AuthInv, Relations
  <2>3. ASSUME NEW j \in M PROVE table[j].request # table[i].request
    BY <2>1 DEF AuthInv, Relations, Accounted
  <2> QED
    BY <2>1, <2>2, <2>3
<1>6. ASSUME NEW i \in Used' PROVE EntrySound(table[i])'
  <2> DEFINE e == table[i]
  <2>1. conns'[e.conn].request = conns[e.conn].request /\ conns'[e.conn].life = conns[e.conn].life
    BY <1>3, <1>5
  <2>2. given'[e.request] = given[e.request]
    BY <1>2, <1>5
  <2>3. /\ e.request \notin R /\ table'[i] = e /\ EntrySound(e)
    BY <1>5
  <2> HIDE DEF e
  <2>4. /\ e.request \in 1..issued' /\ e.request \notin dropped'
        /\ e.ready => e.request \in delivered' /\ e.request \notin pending' \cup finished'
        /\ ~e.ready => e.request \in pending' \cup finished'
    BY <2>3 DEF EntrySound
  <2>5. /\ conns'[e.conn].request = e.request
        /\ given'[e.request].life = conns'[e.conn].life /\ AsksFor(e, given'[e.request])
    BY <2>1, <2>2, <2>3 DEF EntrySound
  <2> QED
    BY ONLY <2>3, <2>4, <2>5 DEF EntrySound
<1>7. Accounted'
  <2>1. \A i, j \in Used' : table'[i].request = table'[j].request => i = j
    <3>1. \A i, j \in Used : table[i].request = table[j].request => i = j
      BY DEF AuthInv, Relations, Accounted
    <3> QED
      BY <1>3, <3>1
  <2>2. ASSUME NEW x \in pending' \cup finished' PROVE \E i \in Used' : table'[i].request = x
    <3>1. PICK i \in Used : table[i].request = x
      BY <2>2 DEF AuthInv, Relations, Accounted
    <3>2. i \notin M
      BY <2>2, <3>1
    <3> QED
      BY <1>3, <3>1, <3>2
  <2>3. ASSUME NEW c \in Conns, conns'[c].request # 0
        PROVE  \E i \in Used' : table'[i].conn = c /\ table'[i].request = conns'[c].request
    <3>1. conns'[c].request = conns[c].request /\ \A i \in M : table[i].conn # c
      BY <2>3
    <3>2. PICK i \in Used : table[i].conn = c /\ table[i].request = conns[c].request
      BY <2>3, <3>1 DEF AuthInv, Relations, Accounted
    <3> QED
      BY <1>3, <3>1, <3>2
  <2> QED
    BY <2>1, <2>2, <2>3 DEF Accounted
<1>8. PoolSound'
  <2>1. pending \cup finished \subseteq 1..MaxRequest
    BY BoundsAssumption DEF AuthInv, Typed, AATypeOK
  <2> QED
    BY <1>2, <2>1 DEF AuthInv, Relations, PoolSound
<1> QED
  BY <1>4, <1>6, <1>7, <1>8 DEF AuthInv, Relations

\* account_auth_connection_clear()
LEMMA ConnectionClearKeeps ==
  ASSUME AuthInv, NEW c \in Conns, NEW d \in Conn, d.request = 0,
         d.state \in {"login", "playing"} => d.fails < MaxFails,
         ConnectionClear(c, d), UNCHANGED <<files, pc, cursor>>
  PROVE  AuthInv'
<1> DEFINE M == {i \in Used : table[i].conn = c}
           R == {table[i].request : i \in M}
<1>1. /\ table' = [i \in Entries |-> IF i \in M THEN NoEntry ELSE table[i]]
      /\ Forget(R) /\ conns' = [conns EXCEPT ![c] = d]
      /\ pending' = pending \ R /\ finished' = finished \ R /\ dropped' = dropped \cup R
      /\ UNCHANGED <<issued, delivered>>
  BY DEF ConnectionClear, CancelWork
<1>2. /\ conns' \in [Conns -> Conn] /\ conns'[c] = d
      /\ \A x \in Conns : x # c => conns'[x] = conns[x]
  BY <1>1 DEF AuthInv, Typed, AATypeOK
<1>3. \A x \in Conns :
         \/ /\ conns'[x].request = conns[x].request /\ conns'[x].life = conns[x].life
            /\ \A i \in M : table[i].conn # x
         \/ conns'[x].request = 0 /\ \A i \in Used : table[i].conn = x => i \in M
  BY <1>2
<1>4. \A x \in Conns : conns'[x].state \in {"login", "playing"} => conns'[x].fails < MaxFails
  BY <1>2 DEF AuthInv, Typed
<1>5. M \subseteq Used /\ R = {table[i].request : i \in M} /\ dropped' \subseteq dropped \cup R
  BY <1>1
<1>6. files' \in Files /\ pc' \in {"loop", "take", "walk", "stopped"} /\ cursor' \in Entries
  BY DEF AuthInv, Typed, AATypeOK
<1> HIDE DEF M, R
<1> QED
  BY <1>1, <1>2, <1>3, <1>4, <1>5, <1>6, ReleaseKeeps

\* A socket is used for a new connection, or freed.
LEMMA ConnectKeeps == ASSUME AuthInv, NEW c \in Conns, Connect(c) \/ Free(c) PROVE AuthInv'
<1>1. conns[c] \in Conn
  BY DEF AuthInv, Typed, AATypeOK
<1>2. CASE Connect(c)
  <2> DEFINE d == [state |-> "login", account |-> None, request |-> 0, fails |-> 0,
                   permitted |-> FALSE, life |-> conns[c].life + 1]
  <2>1. ConnectionClear(c, d) /\ UNCHANGED <<files, pc, cursor>>
    BY <1>2 DEF Connect
  <2>2. d \in Conn /\ d.request = 0 /\ d.fails < MaxFails
    BY <1>1, BoundsAssumption, FailsAssumption DEF Conn, ConnStates
  <2> HIDE DEF d
  <2> QED
    BY <2>1, <2>2, ConnectionClearKeeps
<1>3. CASE Free(c)
  <2>1. PICK p \in BOOLEAN, st \in ConnStates, a \in Names \cup {None}, rq \in 0..MaxRequest :
          p = FALSE /\ st = "available" /\ a = None /\ rq = 0
    <3>1. "available" \in ConnStates /\ None \in Names \cup {None} /\ 0 \in 0..MaxRequest
      BY BoundsAssumption DEF ConnStates
    <3>2. FALSE \in BOOLEAN
      OBVIOUS
    <3> QED
      BY <3>1, <3>2, Zenon
  <2> DEFINE d == [conns[c] EXCEPT !.state = st, !.account = a, !.request = rq, !.permitted = p]
  <2>2. ConnectionClear(c, d) /\ UNCHANGED <<files, pc, cursor>>
    BY <1>3, <2>1, Zenon DEF Free
  <2>3. d \in Conn /\ d.request = rq /\ d.state = st
    BY <1>1 DEF Conn
  <2> HIDE DEF d
  <2> QED
    BY <2>1, <2>2, <2>3, ConnectionClearKeeps
<1> QED
  BY <1>2, <1>3

\* Closing and playing change neither requests nor entries.
LEMMA StateKeeps ==
  ASSUME AuthInv, NEW c \in Conns, Drop(c) \/ LoginChar(c) \/ ChangePermission(c)
  PROVE  AuthInv'
<1>1. UNCHANGED <<issued, pending, finished, dropped, delivered, work, given, table, files, pc, cursor>>
  BY DEF Drop, LoginChar, ChangePermission, service
<1>2. conns \in [Conns -> Conn] /\ conns[c] \in Conn
  BY DEF AuthInv, Typed, AATypeOK
<1>3. \E d \in Conn : /\ conns' = [conns EXCEPT ![c] = d]
                      /\ d.request = conns[c].request /\ d.life = conns[c].life
                      /\ (d.state \in {"login", "playing"} => d.fails < MaxFails)
  <2>1. (conns[c].state \in {"login", "playing"}) /\ conns[c].fails < MaxFails
    BY DEF Drop, LoginChar, ChangePermission, AuthInv, Typed
  <2>2. CASE Drop(c)
    <3> DEFINE d == [conns[c] EXCEPT !.state = "dead"]
    <3>1. d \in Conn /\ d.request = conns[c].request /\ d.life = conns[c].life /\ d.state = "dead"
      BY <1>2 DEF Conn, ConnStates
    <3>2. conns' = [conns EXCEPT ![c] = d]
      BY <2>2 DEF Drop
    <3> HIDE DEF d
    <3> QED
      BY <3>1, <3>2
  <2>3. CASE LoginChar(c)
    <3>1. PICK p \in BOOLEAN : conns' = [conns EXCEPT ![c].state = "playing", ![c].permitted = p]
      BY <2>3 DEF LoginChar
    <3> DEFINE d == [conns[c] EXCEPT !.state = "playing", !.permitted = p]
    <3>2. d \in Conn /\ d.request = conns[c].request /\ d.life = conns[c].life /\ d.fails = conns[c].fails
      BY <1>2 DEF Conn, ConnStates
    <3>3. conns' = [conns EXCEPT ![c] = d]
      BY <1>2, <3>1
    <3> HIDE DEF d
    <3> QED
      BY <2>1, <3>2, <3>3
  <2>4. CASE ChangePermission(c)
    <3> DEFINE d == [conns[c] EXCEPT !.permitted = ~@]
    <3>1. d \in Conn /\ d.request = conns[c].request /\ d.life = conns[c].life /\ d.fails = conns[c].fails
      BY <1>2 DEF Conn
    <3>2. conns' = [conns EXCEPT ![c] = d]
      BY <2>4 DEF ChangePermission
    <3> HIDE DEF d
    <3> QED
      BY <2>1, <3>1, <3>2
  <2> QED
    BY <2>2, <2>3, <2>4
<1>4. /\ conns' \in [Conns -> Conn]
      /\ \A x \in Conns : /\ conns'[x].request = conns[x].request /\ conns'[x].life = conns[x].life
                          /\ (conns'[x].state \in {"login", "playing"} => conns'[x].fails < MaxFails)
  BY <1>2, <1>3 DEF AuthInv, Typed
<1>5. Relations'
  <2>1. issued' \in Nat /\ issued <= issued'
    BY <1>1, BoundsAssumption DEF AuthInv, Typed, AATypeOK
  <2> QED
    BY <1>1, <1>4, <2>1, RelationsSame
<1>6. Typed'
  BY <1>1, <1>4 DEF AuthInv, Typed, AATypeOK
<1> QED
  BY <1>5, <1>6 DEF AuthInv

-----------------------------------------------------------------------------
(* The walk of account_auth_poll(). *)

\* The walk goes to the next entry, or ends.
LEMMA AdvanceKeeps ==
  ASSUME Typed, pc = "walk", Advance
  PROVE  pc' \in {"loop", "take", "walk", "stopped"} /\ cursor' \in Entries
  BY CapacityAssumption DEF Typed, AATypeOK, Advance, Entries

\* An entry is released, and its connection with it.
LEMMA WalkRelease ==
  ASSUME AuthInv, pc = "walk", cursor \in Used, Advance,
         NEW d \in Conn, d.request = 0, (d.state \in {"login", "playing"} => d.fails < MaxFails),
         conns' = [conns EXCEPT ![table[cursor].conn] = d],
         table' = [table EXCEPT ![cursor] = NoEntry],
         Forget({table[cursor].request}),
         pending' = pending \ {table[cursor].request}, finished' = finished \ {table[cursor].request},
         dropped' \subseteq dropped \cup {table[cursor].request}, UNCHANGED <<issued, delivered>>,
         files' \in Files
  PROVE  AuthInv'
<1> DEFINE M == {cursor}
           R == {table[cursor].request}
           c == table[cursor].conn
<1>1. /\ c \in Conns /\ cursor \in Entries /\ conns \in [Conns -> Conn]
      /\ table \in [Entries -> Entry \cup {NoEntry}]
  BY UsedEntry DEF AuthInv, Typed, AATypeOK
<1>2. /\ conns' \in [Conns -> Conn] /\ conns'[c] = d
      /\ \A x \in Conns : x # c => conns'[x] = conns[x]
  BY <1>1
<1>3. /\ M \subseteq Used /\ R = {table[i].request : i \in M}
      /\ table' = [i \in Entries |-> IF i \in M THEN NoEntry ELSE table[i]]
  BY <1>1
<1>4. \A i \in Used : table[i].conn = c => i \in M
  BY AuthInvImplies DEF RequestsAgree, OneRequestPerConnection
<1>5. \A x \in Conns :
         \/ /\ conns'[x].request = conns[x].request /\ conns'[x].life = conns[x].life
            /\ \A i \in M : table[i].conn # x
         \/ conns'[x].request = 0 /\ \A i \in Used : table[i].conn = x => i \in M
  BY <1>2, <1>4
<1>6. \A x \in Conns : conns'[x].state \in {"login", "playing"} => conns'[x].fails < MaxFails
  BY <1>2 DEF AuthInv, Typed
<1>7. pc' \in {"loop", "take", "walk", "stopped"} /\ cursor' \in Entries
  BY AdvanceKeeps DEF AuthInv
<1>8. Forget(R) /\ pending' = pending \ R /\ finished' = finished \ R /\ dropped' \subseteq dropped \cup R
  OBVIOUS
<1> HIDE DEF M, R, c
<1> QED
  BY <1>2, <1>3, <1>5, <1>6, <1>7, <1>8, ReleaseKeeps

\* account_auth_release() clears the request of the entry's connection.
LEMMA ReleasedConn ==
  ASSUME AuthInv, cursor \in Used, conns' = Released(conns, table[cursor])
  PROVE  \E d \in Conn : /\ conns' = [conns EXCEPT ![table[cursor].conn] = d] /\ d.request = 0
                         /\ (d.state \in {"login", "playing"} => d.fails < MaxFails)
                         /\ d.account = conns[table[cursor].conn].account
<1> DEFINE c == table[cursor].conn
           d == [conns[c] EXCEPT !.request = 0]
<1>1. c \in Conns /\ conns[c] \in Conn /\ conns[c].request = table[cursor].request
  BY UsedEntry DEF AuthInv, Typed, AATypeOK, Relations, EntrySound
<1>2. 0 \in 0..MaxRequest
  BY BoundsAssumption
<1>3. d \in Conn /\ d.request = 0 /\ d.state = conns[c].state /\ d.fails = conns[c].fails
      /\ d.account = conns[c].account
  BY <1>1, <1>2, ConnRequest
<1>4. conns' = [conns EXCEPT ![c] = d]
  BY <1>1 DEF Released
<1>5. conns[c].state \in {"login", "playing"} => conns[c].fails < MaxFails
  BY <1>1 DEF AuthInv, Typed
<1> HIDE DEF d, c
<1> QED
  BY <1>3, <1>4, <1>5 DEF c

\* An entry whose session is gone, or that is late, is dropped.
LEMMA WalkDropKeeps == ASSUME AuthInv, WalkDrop PROVE AuthInv'
<1>1. /\ pc = "walk" /\ cursor \in Used /\ Advance
      /\ conns' = Released(conns, table[cursor]) /\ Forget({table[cursor].request})
      /\ table' = [table EXCEPT ![cursor] = NoEntry]
      /\ pending' = pending \ {table[cursor].request} /\ finished' = finished \ {table[cursor].request}
      /\ dropped' = dropped \cup {table[cursor].request} /\ UNCHANGED <<issued, delivered, files>>
  BY DEF WalkDrop, CancelWork
<1>2. PICK d \in Conn : /\ conns' = [conns EXCEPT ![table[cursor].conn] = d] /\ d.request = 0
                        /\ (d.state \in {"login", "playing"} => d.fails < MaxFails)
  BY <1>1, ReleasedConn
<1>3. files' \in Files
  BY <1>1 DEF AuthInv, Typed, AATypeOK
<1> QED
  BY <1>1, <1>2, <1>3, WalkRelease

\* The access check denies the session: a taken result is not in the pool.
LEMMA WalkDeniedKeeps == ASSUME AuthInv, WalkDenied PROVE AuthInv'
<1>1. /\ pc = "walk" /\ cursor \in Used /\ Advance /\ table[cursor].ready
      /\ conns' = Released(conns, table[cursor]) /\ Forget({table[cursor].request})
      /\ table' = [table EXCEPT ![cursor] = NoEntry]
      /\ UNCHANGED <<issued, pending, finished, dropped, delivered, files>>
  BY DEF WalkDenied, service
<1>2. PICK d \in Conn : /\ conns' = [conns EXCEPT ![table[cursor].conn] = d] /\ d.request = 0
                        /\ (d.state \in {"login", "playing"} => d.fails < MaxFails)
  BY <1>1, ReleasedConn
<1>3. table[cursor].request \notin pending \cup finished
  BY <1>1 DEF AuthInv, Relations, EntrySound
<1>4. /\ files' \in Files /\ pending' = pending \ {table[cursor].request}
      /\ finished' = finished \ {table[cursor].request}
      /\ dropped' \subseteq dropped \cup {table[cursor].request}
  BY <1>1, <1>3 DEF AuthInv, Typed, AATypeOK
<1> QED
  BY <1>1, <1>2, <1>4, WalkRelease

\* The account file differs from the one the work was made from.
Stale(e) == IF e.kind = "REGISTER" THEN files[e.name] # NoCredential ELSE files[e.name] # e.credential

\* account_auth_complete(): only a match against the file as it is now gives
\* an account or changes a file.
LEMMA OutcomeSound ==
  ASSUME AuthInv, cursor \in Used, Live(table[cursor]), NEW o \in Outcomes(table[cursor])
  PROVE  /\ o.file \in Credential \cup {NoCredential} /\ o.conn \in Conn
         /\ o.conn.request = table[cursor].request
         /\ o.conn.state \in {"login", "playing"} => o.conn.fails < MaxFails
         /\ o.conn.account # conns[table[cursor].conn].account =>
               /\ o.conn.account = table[cursor].name /\ ~Stale(table[cursor])
               /\ table[cursor].result = "MATCH" /\ table[cursor].kind \in {"LOGIN", "REGISTER"}
         /\ o.file # files[table[cursor].name] =>
               /\ o.file = table[cursor].record /\ table[cursor].create /\ ~Stale(table[cursor])
               /\ table[cursor].result = "MATCH"
<1> DEFINE e == table[cursor]
           c == conns[e.conn]
           new == IF e.create THEN e.record ELSE files[e.name]
           failed == [c EXCEPT !.fails = @ + 1, !.state = IF c.fails + 1 >= MaxFails THEN "zombie" ELSE @]
           into == [c EXCEPT !.account = e.name]
<1>1. /\ e \in Entry /\ e.conn \in Conns /\ e.name \in Names /\ c \in Conn /\ c.request = e.request
      /\ files[e.name] \in Credential \cup {NoCredential}
      /\ e.record \in Credential \cup {NoCredential}
  BY UsedEntry DEF AuthInv, Typed, AATypeOK, Relations, EntrySound, Files, Entry
<1>2. c.state \in {"login", "playing"} /\ c.fails < MaxFails /\ c.fails \in 0..MaxFails
  BY <1>1 DEF Live, SessionValid, Conn, ConnStates, AuthInv, Typed
<1>3. /\ failed \in Conn /\ failed.request = c.request /\ failed.account = c.account
      /\ (failed.state \in {"login", "playing"} => failed.fails < MaxFails)
  <2> DEFINE f == c.fails + 1
             st == IF c.fails + 1 >= MaxFails THEN "zombie" ELSE c.state
  <2>1. failed = [c EXCEPT !.fails = f, !.state = st]
    OBVIOUS
  <2>2. f \in 0..MaxFails /\ st \in ConnStates /\ (st \in {"login", "playing"} => f < MaxFails)
    BY <1>1, <1>2, FailsAssumption DEF Conn, ConnStates
  <2> DEFINE n == [c EXCEPT !.fails = f, !.state = st]
  <2> HIDE DEF f, st, c
  <2>3. n \in Conn /\ n.request = c.request /\ n.account = c.account /\ n.fails = f /\ n.state = st
    BY <1>1, <2>2 DEF Conn
  <2> HIDE DEF n, failed
  <2>4. failed = n
    BY <2>1 DEF n
  <2> QED
    BY <2>2, <2>3, <2>4
<1>4. /\ into \in Conn /\ into.request = c.request /\ into.state = c.state /\ into.fails = c.fails
      /\ into.account = e.name
  BY <1>1 DEF Conn
<1>5. \/ o = [file |-> files[e.name], conn |-> c]
      \/ o = [file |-> files[e.name], conn |-> failed]
      \/ /\ ~Stale(e) /\ e.result = "MATCH"
         /\ \/ o = [file |-> new, conn |-> into] /\ e.kind \in {"LOGIN", "REGISTER"}
            \/ o = [file |-> new, conn |-> c]
  BY DEF Outcomes, Stale
<1> HIDE DEF c, failed, into
<1>6. CASE o = [file |-> files[e.name], conn |-> c]
  BY <1>1, <1>2, <1>6 DEF c
<1>7. CASE o = [file |-> files[e.name], conn |-> failed]
  BY <1>1, <1>3, <1>7 DEF c
<1>8. CASE ~Stale(e) /\ e.result = "MATCH" /\ o = [file |-> new, conn |-> into]
           /\ e.kind \in {"LOGIN", "REGISTER"}
  BY <1>1, <1>2, <1>4, <1>8 DEF c
<1>9. CASE ~Stale(e) /\ e.result = "MATCH" /\ o = [file |-> new, conn |-> c]
  BY <1>1, <1>2, <1>9 DEF c
<1> QED
  BY <1>5, <1>6, <1>7, <1>8, <1>9

\* What a completion does to the connections and the files.
LEMMA CompleteEffect ==
  ASSUME AuthInv, WalkComplete
  PROVE  /\ pc = "walk" /\ cursor \in Used /\ Advance /\ Live(table[cursor]) /\ table[cursor].ready
         /\ Forget({table[cursor].request}) /\ table' = [table EXCEPT ![cursor] = NoEntry]
         /\ UNCHANGED <<issued, pending, finished, dropped, delivered>>
         /\ \E o \in Outcomes(table[cursor]), d \in Conn :
               /\ files' = [files EXCEPT ![table[cursor].name] = o.file]
               /\ conns' = [conns EXCEPT ![table[cursor].conn] = d]
               /\ d.request = 0 /\ d.account = o.conn.account
               /\ (d.state \in {"login", "playing"} => d.fails < MaxFails)
<1> DEFINE e == table[cursor]
<1>1. /\ pc = "walk" /\ cursor \in Used /\ Advance /\ Live(e) /\ e.ready
      /\ Forget({e.request}) /\ table' = [table EXCEPT ![cursor] = NoEntry]
      /\ UNCHANGED <<issued, pending, finished, dropped, delivered>>
  BY DEF WalkComplete, service
<1>2. PICK o \in Outcomes(e) : /\ files' = [files EXCEPT ![e.name] = o.file]
                               /\ conns' = Released([conns EXCEPT ![e.conn] = o.conn], e)
  BY DEF WalkComplete
<1>3. /\ o.conn \in Conn /\ o.conn.request = e.request
      /\ o.conn.state \in {"login", "playing"} => o.conn.fails < MaxFails
  BY <1>1, OutcomeSound
<1>4. e.conn \in Conns /\ conns \in [Conns -> Conn] /\ 0 \in 0..MaxRequest
  BY <1>1, UsedEntry, BoundsAssumption DEF AuthInv, Typed, AATypeOK
<1> DEFINE oc == o.conn
           d == [oc EXCEPT !.request = 0]
           cs == [conns EXCEPT ![e.conn] = oc]
<1>5. d \in Conn /\ d.request = 0 /\ d.state = oc.state /\ d.fails = oc.fails /\ d.account = oc.account
  BY <1>3, <1>4, ConnRequest
<1>6. cs[e.conn] = oc /\ [cs EXCEPT ![e.conn] = d] = [conns EXCEPT ![e.conn] = d]
  BY <1>4
<1>7. conns' = [cs EXCEPT ![e.conn].request = 0]
  BY <1>2, <1>3, <1>6 DEF Released
<1>8. conns' = [conns EXCEPT ![e.conn] = d]
  BY <1>6, <1>7
<1> HIDE DEF d, e
<1> QED
  BY <1>1, <1>2, <1>3, <1>5, <1>8 DEF e

LEMMA WalkCompleteKeeps == ASSUME AuthInv, WalkComplete PROVE AuthInv'
<1>1. PICK o \in Outcomes(table[cursor]), d \in Conn :
               /\ files' = [files EXCEPT ![table[cursor].name] = o.file]
               /\ conns' = [conns EXCEPT ![table[cursor].conn] = d]
               /\ d.request = 0
               /\ (d.state \in {"login", "playing"} => d.fails < MaxFails)
  BY CompleteEffect
<1>2. /\ pc = "walk" /\ cursor \in Used /\ Advance /\ Live(table[cursor]) /\ table[cursor].ready
      /\ Forget({table[cursor].request}) /\ table' = [table EXCEPT ![cursor] = NoEntry]
      /\ UNCHANGED <<issued, pending, finished, dropped, delivered>>
  BY CompleteEffect
<1>3. files' \in Files
  <2>1. o.file \in Credential \cup {NoCredential}
    BY <1>2, OutcomeSound
  <2>2. files \in [Names -> Credential \cup {NoCredential}]
    BY DEF AuthInv, Typed, AATypeOK, Files
  <2> QED
    BY <1>1, <2>1, <2>2 DEF Files
<1>4. table[cursor].request \notin pending \cup finished
  BY <1>2 DEF AuthInv, Relations, EntrySound
<1>5. /\ pending' = pending \ {table[cursor].request} /\ finished' = finished \ {table[cursor].request}
      /\ dropped' \subseteq dropped \cup {table[cursor].request}
  BY <1>2, <1>4
<1> QED
  BY <1>1, <1>2, <1>3, <1>5, WalkRelease

\* Steps that only move the main thread.
LEMMA MoveKeeps ==
  ASSUME AuthInv, UNCHANGED <<issued, pending, finished, dropped, delivered, work, given, table, conns, files>>,
         pc' \in {"loop", "take", "walk", "stopped"}, cursor' \in Entries
  PROVE  AuthInv'
<1>1. Relations'
  <2>1. issued' \in Nat /\ issued <= issued'
    BY BoundsAssumption DEF AuthInv, Typed, AATypeOK
  <2> QED
    BY <2>1, RelationsSame
<1>2. Typed'
  BY DEF AuthInv, Typed, AATypeOK
<1> QED
  BY <1>1, <1>2 DEF AuthInv

LEMMA WalkKeeps == ASSUME AuthInv, Walk PROVE AuthInv'
<1>1. CASE WalkEmpty \/ WalkKeep
  <2>1. /\ pc = "walk" /\ Advance
        /\ UNCHANGED <<issued, pending, finished, dropped, delivered, work, given, table, conns, files>>
    BY <1>1 DEF WalkEmpty, WalkKeep, service
  <2>2. pc' \in {"loop", "take", "walk", "stopped"} /\ cursor' \in Entries
    BY <2>1, AdvanceKeeps DEF AuthInv
  <2> QED
    BY <2>1, <2>2, MoveKeeps
<1> QED
  BY <1>1, WalkDropKeeps, WalkCompleteKeeps, WalkDeniedKeeps DEF Walk

LEMMA PollKeeps == ASSUME AuthInv, PollStart \/ PollTaken PROVE AuthInv'
<1>1. UNCHANGED <<issued, pending, finished, dropped, delivered, work, given, table, conns, files>>
  BY DEF PollStart, PollTaken, service
<1>2. pc' \in {"loop", "take", "walk", "stopped"} /\ cursor' \in Entries
  BY CapacityAssumption DEF PollStart, PollTaken, AuthInv, Typed, AATypeOK, Entries
<1> QED
  BY <1>1, <1>2, MoveKeeps

\* account_deinit() leaves no entry, no work and no request.
LEMMA DeinitKeeps == ASSUME AuthInv, Deinit PROVE AuthInv'
<1>1. /\ pending' = {} /\ finished' = {} /\ UNCHANGED <<issued, dropped, delivered, files, cursor>>
      /\ table' = [i \in Entries |-> NoEntry] /\ Forget(1..MaxRequest) /\ pc' = "stopped"
      /\ conns' = [c \in Conns |->
                    IF \E i \in Used : table[i].conn = c /\ table[i].request = conns[c].request
                    THEN [conns[c] EXCEPT !.request = 0] ELSE conns[c]]
  BY DEF Deinit, Service!Shutdown
<1>2. work' \in [1..MaxRequest -> Work] /\ given' \in [1..MaxRequest -> Question]
  BY <1>1, Zeroed DEF Forget
<1>3. table' \in [Entries -> Entry \cup {NoEntry}] /\ Used' = {}
  BY <1>1 DEF Used
<1>4. ASSUME NEW c \in Conns
      PROVE  /\ conns'[c] \in Conn /\ conns'[c].request = 0
             /\ conns'[c].state = conns[c].state /\ conns'[c].fails = conns[c].fails
  <2>1. conns[c] \in Conn /\ 0 \in 0..MaxRequest
    BY BoundsAssumption DEF AuthInv, Typed, AATypeOK
  <2> DEFINE held == \E i \in Used : table[i].conn = c /\ table[i].request = conns[c].request
             d == [conns[c] EXCEPT !.request = 0]
  <2>2. d \in Conn /\ d.request = 0 /\ d.state = conns[c].state /\ d.fails = conns[c].fails
    BY <2>1, ConnRequest
  <2>3. conns[c].request # 0 => held
    BY DEF AuthInv, Relations, Accounted
  <2>4. conns'[c] = IF held THEN d ELSE conns[c]
    BY <1>1
  <2> HIDE DEF held, d
  <2> QED
    BY <2>1, <2>2, <2>3, <2>4
<1>5. conns' \in [Conns -> Conn]
  BY <1>1, <1>4
<1>6. Typed'
  BY <1>1, <1>2, <1>3, <1>4, <1>5 DEF AuthInv, Typed, AATypeOK
<1>7. Relations'
  BY <1>1, <1>3, <1>4 DEF Relations, Accounted, PoolSound
<1> QED
  BY <1>6, <1>7 DEF AuthInv

-----------------------------------------------------------------------------
(* The theorems. *)

LEMMA AuthInductive == AuthInv /\ [Next]_vars => AuthInv'
<1> SUFFICES ASSUME AuthInv, [Next]_vars PROVE AuthInv'
  OBVIOUS
<1>1. CASE Next
  BY <1>1, CommandKeeps, ConnectKeeps, StateKeeps, AnswerKeeps, PollTakeKeeps, ExpireKeeps, PollKeeps,
     WalkKeeps, DeinitKeeps DEF Next
<1>2. CASE UNCHANGED vars
  <2>1. pc' \in {"loop", "take", "walk", "stopped"} /\ cursor' \in Entries
    BY <1>2 DEF vars, AuthInv, Typed, AATypeOK
  <2> QED
    BY <1>2, <2>1, MoveKeeps DEF vars
<1> QED
  BY <1>1, <1>2

LEMMA AuthAlways == Spec => []AuthInv
  BY Initially, AuthInductive, PTL DEF Spec

\* However commands, worker threads, deadlines, closed and reused sockets and
\* the poll of account.c interleave, the pool works for exactly the entries
\* that wait, and an entry and its connection name each other.
THEOREM RequestsAlwaysAgree == Spec => []RequestsAgree
  BY AuthAlways, AuthInvImplies, PTL

\* SessionsAreAuthentic and PasswordsChangeByRight, of one step.
SessionStep ==
    \A c \in Conns :
        conns[c].account = None /\ conns'[c].account # None =>
            LET q == given[conns[c].request]
                n == conns'[c].account
            IN  /\ q.conn = c /\ q.life = conns[c].life /\ q.name = n
                /\ conns[c].request \in delivered \ dropped
                /\ q.kind = "LOGIN" => q.work.password = files[n].password
                /\ q.kind = "REGISTER" => files[n] = NoCredential

PasswordStep ==
    \A n \in Names :
        files'[n] # files[n] =>
            \E i \in Used :
                LET e == table[i]
                    q == given[e.request]
                IN  /\ table'[i] = NoEntry /\ e.name = n /\ q.name = n
                    /\ files[n] = q.work.credential
                    /\ files'[n].password # files[n].password =>
                          /\ files'[n].password = q.work.replacement
                          /\ \/ q.kind = "REGISTER" /\ files[n] = NoCredential
                             \/ /\ q.kind = "CHANGE" /\ q.work.password = files[n].password
                                /\ conns[e.conn].account = n
                             \/ q.kind = "FORCE" /\ conns[e.conn].permitted

\* Only a completion gives a connection an account, and only a completion
\* writes an account file.
LEMMA OtherSteps ==
  ASSUME AuthInv, Next, ~WalkComplete
  PROVE  /\ files' = files
         /\ \A c \in Conns : conns'[c].account \in {conns[c].account, None}
<1> USE DEF AuthInv
<1>1. conns \in [Conns -> Conn]
  BY DEF Typed, AATypeOK
<1>2. ASSUME NEW c \in Conns, NEW d \in Conn, conns' = [conns EXCEPT ![c] = d],
             d.account \in {conns[c].account, None}
      PROVE  \A x \in Conns : conns'[x].account \in {conns[x].account, None}
  BY <1>1, <1>2
<1>3. ASSUME NEW c \in Conns, Command(c)
      PROVE  files' = files /\ \A x \in Conns : conns'[x].account \in {conns[x].account, None}
  <2>1. /\ files' = files
        /\ conns' = conns \/ conns' = [conns EXCEPT ![c].request = issued + 1]
    BY <1>3 DEF Command, Login, Register, PasswordChange, PasswordForce, AuthSubmit, Enter
  <2>2. \A x \in Conns : conns'[x].account = conns[x].account
    BY <1>1, <2>1 DEF Conn
  <2> QED
    BY <2>1, <2>2
<1>4. ASSUME NEW c \in Conns, Connect(c)
      PROVE  files' = files /\ \A x \in Conns : conns'[x].account \in {conns[x].account, None}
  BY <1>1, <1>4 DEF Connect, ConnectionClear
<1>5. ASSUME NEW c \in Conns, Free(c)
      PROVE  files' = files /\ \A x \in Conns : conns'[x].account \in {conns[x].account, None}
  BY <1>1, <1>5 DEF Free, ConnectionClear, Conn
<1>6. ASSUME NEW c \in Conns, Drop(c) \/ LoginChar(c) \/ ChangePermission(c)
      PROVE  files' = files /\ \A x \in Conns : conns'[x].account \in {conns[x].account, None}
  BY <1>1, <1>6 DEF Drop, LoginChar, ChangePermission, Conn
<1>7. ASSUME conns' = conns, files' = files
      PROVE  files' = files /\ \A x \in Conns : conns'[x].account \in {conns[x].account, None}
  BY <1>7
<1>8. ASSUME WalkDrop \/ WalkDenied
      PROVE  files' = files /\ \A x \in Conns : conns'[x].account \in {conns[x].account, None}
  <2>1. files' = files /\ cursor \in Used /\ conns' = Released(conns, table[cursor])
    BY <1>8 DEF WalkDrop, WalkDenied
  <2>2. PICK d \in Conn : conns' = [conns EXCEPT ![table[cursor].conn] = d]
                          /\ d.account = conns[table[cursor].conn].account
    BY <2>1, ReleasedConn
  <2>3. table[cursor].conn \in Conns
    BY <2>1, UsedEntry
  <2> QED
    BY <1>2, <2>1, <2>2, <2>3
<1>9. ASSUME Deinit
      PROVE  files' = files /\ \A x \in Conns : conns'[x].account \in {conns[x].account, None}
  BY <1>1, <1>9 DEF Deinit, Conn
<1>10. ASSUME NEW r, Answer(r) \/ PollTake(r) PROVE conns' = conns /\ files' = files
  BY <1>10 DEF Answer, PollTake
<1>11. ASSUME NEW i, Expire(i) PROVE conns' = conns /\ files' = files
  BY <1>11 DEF Expire
<1>12. ASSUME PollStart \/ PollTaken \/ WalkEmpty \/ WalkKeep PROVE conns' = conns /\ files' = files
  BY <1>12 DEF PollStart, PollTaken, WalkEmpty, WalkKeep
<1> QED
  BY <1>3, <1>4, <1>5, <1>6, <1>7, <1>8, <1>9, <1>10, <1>11, <1>12 DEF Next, Walk

\* A completion is authentic.
LEMMA CompleteIsAuthentic == ASSUME AuthInv, WalkComplete PROVE SessionStep /\ PasswordStep
<1> DEFINE e == table[cursor]
           q == given[e.request]
<1>1. /\ cursor \in Used /\ Live(e) /\ e.ready /\ table' = [table EXCEPT ![cursor] = NoEntry]
  BY CompleteEffect
<1>2. PICK o \in Outcomes(e), d \in Conn :
               /\ files' = [files EXCEPT ![e.name] = o.file]
               /\ conns' = [conns EXCEPT ![e.conn] = d] /\ d.account = o.conn.account
  BY CompleteEffect
<1>3. /\ cursor \in Entries /\ e.conn \in Conns /\ e.name \in Names /\ conns \in [Conns -> Conn]
      /\ files \in [Names -> Credential \cup {NoCredential}] /\ table \in [Entries -> Entry \cup {NoEntry}]
      /\ e.kind \in AllKinds
  BY <1>1, UsedEntry DEF AuthInv, Typed, AATypeOK, Files
<1>4. /\ e.request \in delivered \ dropped /\ conns[e.conn].request = e.request
      /\ q.life = conns[e.conn].life /\ AsksFor(e, q) /\ Answered(q.work, e.create, e.result, e.record)
  BY <1>1 DEF AuthInv, Relations, EntrySound, AsksFor
<1>5. conns[e.conn].account = e.session /\ (e.kind = "FORCE" => conns[e.conn].permitted)
  BY <1>1 DEF Live, SessionValid
<1>6. /\ o.conn.account # conns[e.conn].account =>
            /\ o.conn.account = e.name /\ ~Stale(e) /\ e.result = "MATCH" /\ e.kind \in {"LOGIN", "REGISTER"}
      /\ o.file # files[e.name] => o.file = e.record /\ e.create /\ ~Stale(e) /\ e.result = "MATCH"
  BY <1>1, <1>2, OutcomeSound
<1>7. ~Stale(e) => files[e.name] = e.credential
  BY <1>4 DEF Stale, AsksFor
<1>8. q.conn = e.conn /\ q.kind = e.kind /\ q.name = e.name /\ q.work.credential = e.credential
  BY <1>4 DEF AsksFor
<1>9. e.result = "MATCH" /\ e.kind \in {"LOGIN", "CHANGE"} => q.work.password = e.credential.password
  BY <1>4, <1>8 DEF AsksFor, Answered
<1>10. e.kind = "REGISTER" => e.credential = NoCredential
  BY <1>4 DEF AsksFor
<1>11. SessionStep
  <2> SUFFICES ASSUME NEW c \in Conns, conns[c].account = None, conns'[c].account # None
               PROVE  /\ c = e.conn /\ q.conn = c /\ q.life = conns[c].life
                      /\ q.name = conns'[c].account
                      /\ conns[c].request \in delivered \ dropped /\ conns[c].request = e.request
                      /\ (q.kind = "LOGIN" => q.work.password = files[conns'[c].account].password)
                      /\ (q.kind = "REGISTER" => files[conns'[c].account] = NoCredential)
    BY DEF SessionStep
  <2>1. c = e.conn /\ conns'[c] = d /\ d.account # conns[c].account
    BY <1>2, <1>3
  <2>2. d.account = e.name /\ ~Stale(e) /\ e.result = "MATCH" /\ files[e.name] = e.credential
    BY <1>2, <1>6, <1>7, <2>1
  <2> HIDE DEF e, q
  <2> QED
    BY <1>4, <1>8, <1>9, <1>10, <2>1, <2>2
<1>12. PasswordStep
  <2> SUFFICES ASSUME NEW n \in Names, files'[n] # files[n]
               PROVE  /\ table'[cursor] = NoEntry /\ e.name = n /\ q.name = n
                      /\ files[n] = q.work.credential
                      /\ files'[n].password # files[n].password =>
                            /\ files'[n].password = q.work.replacement
                            /\ \/ q.kind = "REGISTER" /\ files[n] = NoCredential
                               \/ /\ q.kind = "CHANGE" /\ q.work.password = files[n].password
                                  /\ conns[e.conn].account = n
                               \/ q.kind = "FORCE" /\ conns[e.conn].permitted
    BY <1>1 DEF PasswordStep
  <2>1. n = e.name /\ files'[n] = o.file
    BY <1>2, <1>3
  <2>2. o.file = e.record /\ e.create /\ ~Stale(e) /\ e.result = "MATCH" /\ files[n] = e.credential
    BY <1>6, <1>7, <2>1
  <2>3. table'[cursor] = NoEntry
    BY <1>1, <1>3
  <2>4. e.record.password = q.work.replacement /\ q.work.create
    BY <1>4, <2>2 DEF Answered
  <2>5. e.kind = "LOGIN" => q.work.replacement = q.work.password
    BY <1>4, <2>4 DEF AsksFor
  <2>6. e.kind = "CHANGE" => e.session = e.name
    BY <1>4 DEF AsksFor
  <2> HIDE DEF e, q
  <2> QED
    BY <1>3, <1>5, <1>8, <1>9, <1>10, <2>1, <2>2, <2>3, <2>4, <2>5, <2>6 DEF AllKinds
<1> QED
  BY <1>11, <1>12

LEMMA StepsAreAuthentic == AuthInv /\ [Next]_vars => [SessionStep]_vars /\ [PasswordStep]_vars
<1> SUFFICES ASSUME AuthInv, Next PROVE SessionStep /\ PasswordStep
  OBVIOUS
<1>1. CASE WalkComplete
  BY <1>1, CompleteIsAuthentic
<1>2. CASE ~WalkComplete
  BY <1>2, OtherSteps DEF SessionStep, PasswordStep
<1> QED
  BY <1>1, <1>2

\* account_auth_complete() gives a connection an account only for a request of
\* its own, made in this life of the socket and never cancelled, and a login
\* only with the password that opens the account at that moment.
THEOREM EverySessionIsAuthentic == Spec => SessionsAreAuthentic
<1>1. AuthInv /\ [Next]_vars => [SessionStep]_vars
  BY StepsAreAuthentic
<1>2. Spec => [][SessionStep]_vars
  BY <1>1, AuthAlways, PTL DEF Spec
<1> QED
  BY <1>2, Zenon DEF SessionsAreAuthentic, SessionStep

\* A stored password changes only by a registration of a free name, a logged-in
\* session that knew the password of that moment, or a player who may force
\* passwords at that moment, and always to the password that was asked for.
THEOREM EveryPasswordChangesByRight == Spec => PasswordsChangeByRight
<1>1. AuthInv /\ [Next]_vars => [PasswordStep]_vars
  BY StepsAreAuthentic
<1>2. Spec => [][PasswordStep]_vars
  BY <1>1, AuthAlways, PTL DEF Spec
<1> QED
  BY <1>2, Zenon DEF PasswordsChangeByRight, PasswordStep
=============================================================================
