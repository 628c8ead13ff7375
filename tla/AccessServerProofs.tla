-------------------------- MODULE AccessServerProofs --------------------------
(***************************************************************************)
(* What the access server promises for any number of connections, slots    *)
(* and tokens: its slots, queue and requesters agree (JobsAgree), nobody   *)
(* is admitted by a token that has ended (AdmissionsAreCurrent), and a     *)
(* code goes to nobody but who asked for it (CodesStayWithAsker).          *)
(***************************************************************************)
EXTENDS AccessServer, FiniteSetTheorems, WellFoundedInduction, TLAPS

\* Who may wait for a job: the two places of each connection, and the local
\* administration socket.
Local == [conn |-> NoConn, field |-> "root"]
Owners == [conn : Conns, field : {"auth", "admin"}] \cup {Local}
AuthOf(c)  == [conn |-> c, field |-> "auth"]
AdminOf(c) == [conn |-> c, field |-> "admin"]

\* The job each owner refers to, or 0.
Refer == [o \in Owners |-> IF o.field = "auth" THEN conns[o.conn].auth
                           ELSE IF o.field = "admin" THEN conns[o.conn].admin ELSE root]

Busy == {"run", "ran"}
Used(js, s) == js[s].state # "FREE"
Once(q) == \A i, j \in DOMAIN q : q[i] = q[j] => i = j

\* The queue holds the slots that are queued, each once.
Queueing(js, q) ==
    /\ q \in Seq(Slots) /\ Once(q)
    /\ \A s \in Slots : (\E i \in DOMAIN q : q[i] = s) <=> js[s].state = "QUEUED"

\* Owners and slots in use belong together one to one, but for a slot that is
\* cancelled while it runs.
Owning(js, f) ==
    /\ \A s \in Slots : Used(js, s) =>
          /\ js[s].cancelled => js[s].state = "RUNNING"
          /\ ~js[s].cancelled => \E o \in Owners : f[o] = js[s].id
          /\ \A r \in Slots : Used(js, r) /\ js[r].id = js[s].id => r = s
    /\ \A o \in Owners : f[o] # 0 => \E s \in Slots : Used(js, s) /\ js[s].id = f[o] /\ ~js[s].cancelled
    /\ \A o, p \in Owners : f[o] # 0 /\ f[o] = f[p] => o = p

\* The worker runs the one slot that is running.
Running ==
    /\ \A s \in Slots : jobs[s].state = "RUNNING" <=> wpc \in Busy /\ slot = s
    /\ wpc \in Busy => slot \in Slots

\* A connection that is free, or has not asked yet, waits for nothing.
Connected ==
    \A c \in Conns : /\ conns[c].state = "free" => conns[c] = NoConnection
                     /\ ~conns[c].attempted => conns[c].auth = 0

\* A code is that of the token that was asked for, and the connection that
\* waits for an issue is the one that asked for its token.
Asking(js, f, a) ==
    /\ \A s \in Slots : Used(js, s) =>
          js[s].token \in Tokens /\ (js[s].code # 0 => js[s].kind = "issue" /\ js[s].code = js[s].token)
    /\ \A s \in Slots, c \in Conns :
          Used(js, s) /\ ~js[s].cancelled /\ js[s].kind = "issue" /\ js[s].id = f[AdminOf(c)]
             => a[js[s].token] = c

Polling == {"pollAuth", "pollAdmin", "pollSession"}

\* The lives of the main thread and the worker.
Lives ==
    /\ mpc = "init" => wpc = "none"
    /\ mpc \in Polling => at \in Conns
    /\ mpc = "stopped" => wpc = "exited" /\ \A s \in Slots : jobs[s] = Free
    /\ asker \in [Tokens -> Conns \cup {NoConn}]
    /\ told \in [Tokens -> SUBSET Conns]

ServerInv ==
    /\ ASVTypeOK
    /\ Queueing(jobs, queue)
    /\ Running
    /\ mpc # "stopped" => Owning(jobs, Refer)
    /\ Connected
    /\ Asking(jobs, Refer, asker)
    /\ Lives
    /\ WorkerAwake


-----------------------------------------------------------------------------
(* Jobs, the queue and their owners. *)

LEMMA Numbers == NSlots \in Nat \ {0} /\ NTokens \in Nat /\ 0 \notin Slots /\ 0 \notin Tokens /\ 0 \notin Ids
  BY SlotsAssumption DEF Slots, Tokens, Ids

\* A free slot is no job.
LEMMA FreeIsNone ==
  /\ Free \notin Job /\ Free.state = "FREE"
  /\ \A j \in Job \cup {Free} : j.state = "FREE" <=> j = Free
  /\ \A j \in Job : j.id \in Ids /\ j.id # 0 /\ j.token \in 0..NTokens /\ j.code \in 0..NTokens
                    /\ j.cancelled \in BOOLEAN
  BY Numbers DEF Job, Free

\* The owners by their two names.
LEMMA OwnerNames ==
  /\ Local \in Owners /\ \A c \in Conns : AuthOf(c) \in Owners /\ AdminOf(c) \in Owners
  /\ \A o \in Owners : \/ o = Local
                       \/ \E c \in Conns : o = AuthOf(c)
                       \/ \E c \in Conns : o = AdminOf(c)
  /\ \A c, d \in Conns : /\ AuthOf(c) # AdminOf(d) /\ AuthOf(c) # Local /\ AdminOf(c) # Local
                         /\ AuthOf(c) = AuthOf(d) => c = d
                         /\ AdminOf(c) = AdminOf(d) => c = d
  BY DEF Owners, Local, AuthOf, AdminOf

LEMMA References ==
  /\ Refer = [o \in Owners |-> Refer[o]]
  /\ Refer[Local] = root
  /\ \A c \in Conns : Refer[AuthOf(c)] = conns[c].auth /\ Refer[AdminOf(c)] = conns[c].admin
  BY OwnerNames DEF Refer, Local, AuthOf, AdminOf

\* What is referred to.
LEMMA RefsAre == Refs = {Refer[o] : o \in Owners}
<1>1. ASSUME NEW i \in Refs PROVE \E o \in Owners : Refer[o] = i
  BY <1>1, OwnerNames, References DEF Refs
<1>2. ASSUME NEW o \in Owners PROVE Refer[o] \in Refs
  BY <1>2, OwnerNames, References DEF Refs
<1> QED
  BY <1>1, <1>2

\* One entry is taken out of a list.
LEMMA RemoveAtFact ==
    ASSUME NEW S, NEW s \in Seq(S), Once(s), NEW k \in 1..Len(s)
    PROVE  /\ RemoveAt(s, k) \in Seq(S) /\ Once(RemoveAt(s, k))
           /\ \A n \in S : (\E i \in DOMAIN RemoveAt(s, k) : RemoveAt(s, k)[i] = n)
                              <=> (\E i \in DOMAIN s : s[i] = n) /\ n # s[k]
<1> DEFINE r == RemoveAt(s, k)
           a == SubSeq(s, 1, k - 1)
           b == SubSeq(s, k + 1, Len(s))
<1>1. Len(s) \in Nat
    OBVIOUS
<1>2. a \in Seq(S) /\ Len(a) = k - 1 /\ \A i \in 1..(k - 1) : a[i] = s[i]
    BY <1>1
<1>3. b \in Seq(S) /\ Len(b) = Len(s) - k /\ \A i \in 1..(Len(s) - k) : b[i] = s[k + i]
    BY <1>1
<1>4. r = a \o b
    BY DEF RemoveAt
<1> HIDE DEF a, b, r
<1>5. r \in Seq(S) /\ Len(r) = Len(s) - 1
  <2>0. a \in Seq(S) /\ b \in Seq(S)
      BY <1>2, <1>3
  <2>1. r \in Seq(S) /\ Len(r) = Len(a) + Len(b)
      BY <1>4, <2>0
  <2> QED
      BY <1>1, <1>2, <1>3, <2>1
<1>d. DOMAIN s = 1..Len(s) /\ DOMAIN r = 1..Len(r)
    BY <1>5
\* Where an entry of the result stood.
<1> DEFINE Old(i) == IF i < k THEN i ELSE i + 1
<1>6. \A i \in 1..Len(r) : Old(i) \in 1..Len(s) /\ Old(i) # k /\ r[i] = s[Old(i)]
  <2> SUFFICES ASSUME NEW i \in 1..Len(r) PROVE Old(i) \in 1..Len(s) /\ Old(i) # k /\ r[i] = s[Old(i)]
      OBVIOUS
  <2>1. r[i] = IF i <= Len(a) THEN a[i] ELSE b[i - Len(a)]
      BY <1>1, <1>5, <1>2, <1>3, <1>4
  <2>2. CASE i < k
      BY <1>1, <1>2, <1>5, <2>1, <2>2
  <2>3. CASE ~(i < k)
    <3>1. i - (k - 1) \in 1..(Len(s) - k) /\ k + (i - (k - 1)) = i + 1
        BY <1>1, <1>5, <2>3
    <3>2. b[i - (k - 1)] = s[i + 1]
        BY <1>3, <3>1
    <3> QED
        BY <1>1, <1>2, <1>5, <2>1, <2>3, <3>2
  <2> QED
      BY <2>2, <2>3
<1>7. \A j \in 1..Len(s) : j # k => \E i \in 1..Len(r) : Old(i) = j
  <2> SUFFICES ASSUME NEW j \in 1..Len(s), j # k PROVE \E i \in 1..Len(r) : Old(i) = j
      OBVIOUS
  <2>1. CASE j < k
      BY <1>1, <1>5, <2>1
  <2>2. CASE j > k
    <3>1. j - 1 \in 1..Len(r) /\ Old(j - 1) = j
        BY <1>1, <1>5, <2>2
    <3> QED
        BY <3>1
  <2> QED
      BY <1>1, <2>1, <2>2
<1>8. \A i, j \in 1..Len(r) : Old(i) = Old(j) => i = j
    BY <1>5
<1> HIDE DEF Old
<1>9. Once(r)
    BY <1>d, <1>6, <1>8 DEF Once
<1>10. \A n \in S : (\E i \in DOMAIN r : r[i] = n) <=> (\E i \in DOMAIN s : s[i] = n) /\ n # s[k]
  <2>1. ASSUME NEW i \in 1..Len(r) PROVE (\E j \in 1..Len(s) : s[j] = r[i]) /\ r[i] # s[k]
      BY <1>d, <1>6, <2>1 DEF Once
  <2>2. ASSUME NEW j \in 1..Len(s), s[j] # s[k] PROVE \E i \in 1..Len(r) : r[i] = s[j]
      BY <1>6, <1>7, <2>2
  <2> QED
      BY <1>d, <2>1, <2>2
<1> QED
    BY <1>5, <1>9, <1>10 DEF r

\* The smallest of some positive numbers.
LEMMA Smallest ==
  ASSUME NEW n \in Nat, NEW S \in SUBSET (1..n), S # {}
  PROVE  (CHOOSE x \in S : \A y \in S : x <= y) \in S
<1>1. S \subseteq Nat
  OBVIOUS
<1>2. IsWellFoundedOn(OpToRel(<, Nat), Nat)
  BY NatLessThanWellFounded
<1>3. PICK x \in S : \A y \in S : ~(<<y, x>> \in OpToRel(<, Nat))
  BY <1>1, <1>2, WFMin
<1>4. \A y \in S : x <= y
  <2> SUFFICES ASSUME NEW y \in S, ~(x <= y) PROVE FALSE
    OBVIOUS
  <2>1. <<y, x>> \in Nat \X Nat /\ <<y, x>>[1] < <<y, x>>[2]
    BY <1>1
  <2> QED
    BY <1>3, <2>1 DEF OpToRel
<1> QED
  BY <1>4


-----------------------------------------------------------------------------
(* A job is cancelled, or its owner has taken its result. *)

\* The slots that may be left once a job is cancelled.
LEMMA CancelledIs ==
  ASSUME NEW js \in [Slots -> Job \cup {Free}], NEW id
  PROVE  /\ Cancelled(js, id) \in [Slots -> Job \cup {Free}]
         /\ \A s \in Slots :
               /\ js[s].state = "FREE" \/ id = 0 \/ js[s].id # id => Cancelled(js, id)[s] = js[s]
               /\ id # 0 /\ js[s].id = id /\ js[s].state = "RUNNING" =>
                     Cancelled(js, id)[s] = [js[s] EXCEPT !.cancelled = TRUE]
               /\ id # 0 /\ js[s].id = id /\ js[s].state # "RUNNING" =>
                     Cancelled(js, id)[s] = IF js[s].state = "FREE" THEN js[s] ELSE Free
<1> DEFINE out(s) == IF js[s].state = "FREE" \/ id = 0 THEN js[s]
                     ELSE IF js[s].id # id THEN js[s]
                     ELSE IF js[s].state = "RUNNING" THEN [js[s] EXCEPT !.cancelled = TRUE] ELSE Free
<1>1. Cancelled(js, id) = [s \in Slots |-> out(s)]
  BY DEF Cancelled
<1>2. ASSUME NEW s \in Slots PROVE out(s) \in Job \cup {Free}
  <2>1. js[s] \in Job \cup {Free}
    OBVIOUS
  <2>2. js[s] \in Job => [js[s] EXCEPT !.cancelled = TRUE] \in Job
    BY DEF Job
  <2> QED
    BY <2>1, <2>2, FreeIsNone
<1>3. Cancelled(js, id) \in [Slots -> Job \cup {Free}]
  <2> HIDE DEF out
  <2> QED
    BY <1>1, <1>2
<1>4. \A s \in Slots : Cancelled(js, id)[s] = out(s)
  <2> HIDE DEF out
  <2> QED
    BY <1>1
<1> QED
  BY <1>3, <1>4

\* What the relation of the slots js to the slots ks says: no job appears or
\* changes but for being marked as cancelled.
Shrunk(ks, js) ==
    \A s \in Slots : Used(ks, s) =>
        /\ Used(js, s) /\ ks[s].id = js[s].id /\ ks[s].kind = js[s].kind
        /\ ks[s].token = js[s].token /\ ks[s].code = js[s].code
        /\ ~ks[s].cancelled => ~js[s].cancelled

\* g is f but for g[x] = v, on the set S.
Differs(g, f, S, x, v) == g[x] = v /\ \A y \in S : y # x => g[y] = f[y]

\* The owner o lets go of its job: the slot is free, or marked if it runs.
LEMMA LetsGo ==
  ASSUME NEW js \in [Slots -> Job \cup {Free}], NEW q, Queueing(js, q),
         NEW f \in [Owners -> Ids \cup {0}], Owning(js, f), NEW o \in Owners,
         NEW ks, ks = Cancelled(js, f[o]), NEW r, r = Unqueued(q, js, f[o]),
         NEW g, Differs(g, f, Owners, o, 0)
  PROVE  /\ ks \in [Slots -> Job \cup {Free}] /\ Queueing(ks, r) /\ Owning(ks, g)
         /\ Shrunk(ks, js)
         /\ \A s \in Slots : ks[s].state = "RUNNING" <=> js[s].state = "RUNNING"
         /\ q = <<>> => r = <<>>
<1> DEFINE id == f[o]
<1>1. /\ ks \in [Slots -> Job \cup {Free}]
      /\ \A s \in Slots :
            /\ js[s].state = "FREE" \/ id = 0 \/ js[s].id # id => ks[s] = js[s]
            /\ id # 0 /\ js[s].id = id /\ js[s].state = "RUNNING" => ks[s] = [js[s] EXCEPT !.cancelled = TRUE]
            /\ id # 0 /\ js[s].id = id /\ js[s].state # "RUNNING" =>
                  ks[s] = IF js[s].state = "FREE" THEN js[s] ELSE Free
  BY CancelledIs
<1>2. \A s \in Slots : /\ js[s] \in Job \cup {Free}
                       /\ js[s].state = "FREE" <=> js[s] = Free
                       /\ js[s].state # "FREE" => js[s] \in Job /\ js[s].id # 0
  BY FreeIsNone
<1>3. /\ Free.state = "FREE" /\ "FREE" # "RUNNING" /\ "FREE" # "QUEUED" /\ "RUNNING" # "QUEUED"
  BY FreeIsNone
\* What each slot becomes.
<1>4. \A s \in Slots :
         \/ ks[s] = js[s] /\ (js[s].state = "FREE" \/ js[s].id # id)
         \/ /\ js[s].state = "RUNNING" /\ js[s].id = id /\ id # 0 /\ js[s] \in Job
            /\ ks[s] = [js[s] EXCEPT !.cancelled = TRUE]
         \/ js[s].state # "RUNNING" /\ js[s].state # "FREE" /\ js[s].id = id /\ id # 0 /\ ks[s] = Free
  BY <1>1, <1>2
<1>5. \A s \in Slots : js[s] \in Job =>
         LET k == [js[s] EXCEPT !.cancelled = TRUE]
         IN  /\ k.state = js[s].state /\ k.id = js[s].id /\ k.kind = js[s].kind /\ k.token = js[s].token
             /\ k.code = js[s].code /\ k.cancelled
  BY DEF Job
<1>6. \A s \in Slots : ks[s].state = "RUNNING" <=> js[s].state = "RUNNING"
  BY <1>3, <1>4, <1>5
<1>7. \A s \in Slots : ks[s].state = "QUEUED" <=> js[s].state = "QUEUED" /\ (id = 0 \/ js[s].id # id)
  BY <1>2, <1>3, <1>4, <1>5
<1>8. Shrunk(ks, js)
  <2> SUFFICES ASSUME NEW s \in Slots, Used(ks, s)
               PROVE  /\ Used(js, s) /\ ks[s].id = js[s].id /\ ks[s].kind = js[s].kind
                      /\ ks[s].token = js[s].token /\ ks[s].code = js[s].code
                      /\ ~ks[s].cancelled => ~js[s].cancelled
    BY DEF Shrunk
  <2>1. ks[s] # Free
    BY <1>3 DEF Used
  <2>2. CASE ks[s] = js[s]
    BY <2>2 DEF Used
  <2>3. CASE js[s].state = "RUNNING" /\ js[s] \in Job /\ ks[s] = [js[s] EXCEPT !.cancelled = TRUE]
    BY <1>3, <1>5, <2>3 DEF Used
  <2> QED
    BY <1>4, <2>1, <2>2, <2>3
<1>9. Queueing(ks, r) /\ (q = <<>> => r = <<>>)
  <2> DEFINE gone == {i \in DOMAIN q : js[q[i]].id = id}
  <2>1. /\ q \in Seq(Slots) /\ Once(q) /\ DOMAIN q = 1..Len(q) /\ Len(q) \in Nat
        /\ \A s \in Slots : (\E i \in DOMAIN q : q[i] = s) <=> js[s].state = "QUEUED"
        /\ \A i \in DOMAIN q : q[i] \in Slots
    BY DEF Queueing
  <2>2. CASE gone = {}
    <3>1. r = q
      BY <2>2 DEF Unqueued
    <3>2. \A s \in Slots : js[s].state = "QUEUED" => js[s].id # id
      BY <2>1, <2>2
    <3> QED
      BY <1>7, <2>1, <3>1, <3>2 DEF Queueing
  <2>3. CASE gone # {}
    <3> DEFINE k == CHOOSE i \in gone : TRUE
    <3>1. k \in gone
      BY <2>3
    <3>2. r = RemoveAt(q, k)
      BY <2>3 DEF Unqueued
    <3> HIDE DEF k
    <3>3. k \in 1..Len(q) /\ q[k] \in Slots /\ js[q[k]].state = "QUEUED" /\ js[q[k]].id = id
      BY <2>1, <3>1
    <3>4. /\ r \in Seq(Slots) /\ Once(r)
          /\ \A n \in Slots : (\E i \in DOMAIN r : r[i] = n) <=> (\E i \in DOMAIN q : q[i] = n) /\ n # q[k]
      <4>1. /\ RemoveAt(q, k) \in Seq(Slots) /\ Once(RemoveAt(q, k))
            /\ \A n \in Slots : (\E i \in DOMAIN RemoveAt(q, k) : RemoveAt(q, k)[i] = n)
                                  <=> (\E i \in DOMAIN q : q[i] = n) /\ n # q[k]
        <5>1. q \in Seq(Slots)
          BY <2>1
        <5>2. Once(q)
          BY <2>1
        <5>3. k \in 1..Len(q)
          BY <3>3
        <5> QED
          BY ONLY <5>1, <5>2, <5>3, RemoveAtFact
      <4> QED
        BY <3>2, <4>1
    <3>5. id # 0 /\ \A s \in Slots : js[s].state = "QUEUED" => (js[s].id = id <=> s = q[k])
      <4>1. Used(js, q[k]) /\ id # 0
        BY <1>2, <1>3, <3>3 DEF Used
      <4>2. \A s \in Slots : Used(js, s) /\ js[s].id = id => s = q[k]
        BY <3>3, <4>1 DEF Owning
      <4> QED
        BY <1>3, <3>3, <4>1, <4>2 DEF Used
    <3>6. q # <<>>
      BY <2>1, <3>3
    <3> QED
      BY <1>7, <2>1, <3>4, <3>5, <3>6 DEF Queueing
  <2> QED
    BY <2>2, <2>3
<1>10. Owning(ks, g)
  <2>1. /\ g[o] = 0 /\ \A p \in Owners : p # o => g[p] = f[p]
    BY DEF Differs
  <2>2. ASSUME NEW s \in Slots, Used(ks, s)
        PROVE  /\ ks[s].cancelled => ks[s].state = "RUNNING"
               /\ ~ks[s].cancelled => \E p \in Owners : g[p] = ks[s].id
               /\ \A t \in Slots : Used(ks, t) /\ ks[t].id = ks[s].id => t = s
    <3>1. /\ Used(js, s) /\ ks[s].id = js[s].id
          /\ \A t \in Slots : Used(ks, t) => Used(js, t) /\ ks[t].id = js[t].id
      BY <1>8, <2>2 DEF Shrunk
    <3>2. ks[s].cancelled => ks[s].state = "RUNNING"
      <4>1. js[s].cancelled => js[s].state = "RUNNING"
        BY <3>1 DEF Owning
      <4> QED
        BY <1>3, <1>4, <1>6, <2>2, <4>1 DEF Used
    <3>3. ASSUME ~ks[s].cancelled PROVE \E p \in Owners : g[p] = ks[s].id
      <4>1. js[s].id # id /\ ~js[s].cancelled
        BY <1>3, <1>4, <1>5, <2>2, <3>1, <3>3 DEF Used
      <4>2. PICK p \in Owners : f[p] = js[s].id
        BY <3>1, <4>1 DEF Owning
      <4> QED
        BY <2>1, <3>1, <4>1, <4>2
    <3> QED
      BY <3>1, <3>2, <3>3 DEF Owning
  <2>3. ASSUME NEW p \in Owners, g[p] # 0
        PROVE  \E s \in Slots : Used(ks, s) /\ ks[s].id = g[p] /\ ~ks[s].cancelled
    <3>1. p # o /\ f[p] = g[p]
      BY <2>1, <2>3
    <3>2. PICK s \in Slots : Used(js, s) /\ js[s].id = f[p] /\ ~js[s].cancelled
      BY <2>3, <3>1 DEF Owning
    <3>3. f[p] # id
      BY <2>3, <3>1 DEF Owning
    <3> QED
      BY <1>4, <3>1, <3>2, <3>3 DEF Used
  <2>4. ASSUME NEW p \in Owners, NEW u \in Owners, g[p] # 0, g[p] = g[u] PROVE p = u
    BY <2>1, <2>4 DEF Owning
  <2> QED
    BY <2>2, <2>3, <2>4 DEF Owning
<1> QED
  BY <1>1, <1>6, <1>8, <1>9, <1>10


-----------------------------------------------------------------------------
(* A new job. *)

LEMMA FieldsAreFew ==
  ASSUME NEW S, IsFiniteSet(S), NEW f
  PROVE  IsFiniteSet({f[c] : c \in S}) /\ Cardinality({f[c] : c \in S}) <= Cardinality(S)
<1> DEFINE T == {f[c] : c \in S}
           h == [c \in S |-> f[c]]
<1>1. h \in Surjection(S, T)
  BY DEF Surjection
<1> HIDE DEF h, T
<1> QED
  BY <1>1, FS_Surjection DEF T

\* There is always an ID nobody uses: the IDs in use are those of owners,
\* and one of a job that is cancelled while it runs.
LEMMA IdsLeft ==
  ASSUME ServerInv, mpc # "stopped"
  PROVE  NewId \in Ids /\ NewId \notin Refs /\ \A s \in Slots : Used(jobs, s) => jobs[s].id # NewId
<1> DEFINE A == {conns[c].auth : c \in Conns}
           B == {conns[c].admin : c \in Conns}
           I == {jobs[s].id : s \in {x \in Slots : InUse(x)}}
           n == Cardinality(Conns)
           last == jobs[slot].id
<1>1. IsFiniteSet(Conns) /\ n \in Nat
  BY OwnerAssumption, FS_CardinalityType
<1>2. IsFiniteSet(A) /\ Cardinality(A) <= n /\ Cardinality(A) \in Nat
  <2> DEFINE f == [c \in Conns |-> conns[c].auth]
  <2>1. A = {f[c] : c \in Conns}
    OBVIOUS
  <2> HIDE DEF f, A
  <2> QED
    BY <1>1, <2>1, FieldsAreFew, FS_CardinalityType
<1>3. IsFiniteSet(B) /\ Cardinality(B) <= n /\ Cardinality(B) \in Nat
  <2> DEFINE f == [c \in Conns |-> conns[c].admin]
  <2>1. B = {f[c] : c \in Conns}
    OBVIOUS
  <2> HIDE DEF f, B
  <2> QED
    BY <1>1, <2>1, FieldsAreFew, FS_CardinalityType
<1>4. Refs = A \cup B \cup {root}
  BY DEF Refs
<1> HIDE DEF A, B
<1>5. IsFiniteSet(A \cup B) /\ Cardinality(A \cup B) \in Nat /\ Cardinality(A \cup B) <= 2 * n
  <2>1. IsFiniteSet(A \cup B) /\ Cardinality(A \cup B) = Cardinality(A) + Cardinality(B) - Cardinality(A \cap B)
    BY <1>2, <1>3, FS_Union
  <2>2. IsFiniteSet(A \cap B)
    BY <1>2, FS_Intersection
  <2>3. Cardinality(A \cap B) \in Nat
    BY <2>2, FS_CardinalityType
  <2>4. Cardinality(A \cup B) \in Nat
    BY <2>1, FS_CardinalityType
  <2> QED
    BY <1>1, <1>2, <1>3, <2>1, <2>3, <2>4
<1>6. IsFiniteSet(Refs) /\ Cardinality(Refs) \in Nat /\ Cardinality(Refs) <= 2 * n + 1
  <2>1. IsFiniteSet((A \cup B) \cup {root}) /\ Cardinality((A \cup B) \cup {root}) <= Cardinality(A \cup B) + 1
    <3> DEFINE S == A \cup B
    <3>1. IsFiniteSet(S) /\ Cardinality(S) \in Nat
      BY <1>5
    <3> HIDE DEF S
    <3>2. /\ IsFiniteSet(S \cup {root})
          /\ Cardinality(S \cup {root}) = IF root \in S THEN Cardinality(S) ELSE Cardinality(S) + 1
      BY ONLY <3>1, FS_AddElement
    <3> QED
      BY <3>1, <3>2 DEF S
  <2>2. Cardinality(A \cup B \cup {root}) \in Nat
    BY <2>1, FS_CardinalityType
  <2> QED
    BY <1>1, <1>4, <1>5, <2>1, <2>2
<1>7. I \subseteq Refs \cup {last}
  <2> SUFFICES ASSUME NEW s \in Slots, Used(jobs, s), s # slot PROVE jobs[s].id \in Refs
    BY DEF InUse, Used
  <2>1. ~jobs[s].cancelled
    BY DEF ServerInv, Owning, Running
  <2> QED
    BY <2>1, RefsAre DEF ServerInv, Owning
<1> HIDE DEF I, last
<1>8. /\ IsFiniteSet(Refs \cup {last}) /\ Cardinality(Refs \cup {last}) \in Nat
      /\ Cardinality(Refs \cup {last}) <= 2 * n + 2
  <2>1. IsFiniteSet(Refs \cup {last}) /\ Cardinality(Refs \cup {last}) <= Cardinality(Refs) + 1
    BY <1>6, FS_AddElement
  <2>2. Cardinality(Refs \cup {last}) \in Nat
    BY <2>1, FS_CardinalityType
  <2> QED
    BY <1>1, <1>6, <2>1, <2>2
<1>9. IsFiniteSet(Ids) /\ Cardinality(Ids) = 2 * n + 3
  <2>1. 1 \in Int /\ 2 * n + 3 \in Int /\ ~(1 > 2 * n + 3) /\ (2 * n + 3) - 1 + 1 = 2 * n + 3
    BY <1>1
  <2> HIDE DEF n
  <2>2. Ids = 1..(2 * n + 3)
    BY DEF Ids, n
  <2> QED
    BY <2>1, <2>2, FS_Interval
<1>10. FreshIds # {}
  <2> SUFFICES ASSUME FreshIds = {} PROVE FALSE
    OBVIOUS
  <2>1. Ids \in SUBSET (Refs \cup {last})
    BY <1>7 DEF FreshIds, I
  <2>2. Cardinality(Ids) <= Cardinality(Refs \cup {last})
    BY <1>8, <2>1, FS_Subset
  <2> QED
    BY <1>1, <1>8, <1>9, <2>2
<1>11. NewId \in FreshIds
  <2>1. 2 * n + 3 \in Nat
    BY <1>1
  <2> HIDE DEF n
  <2>2. FreshIds \in SUBSET (1..(2 * n + 3))
    BY DEF FreshIds, Ids, n
  <2>3. (CHOOSE x \in FreshIds : \A y \in FreshIds : x <= y) \in FreshIds
    <3> HIDE DEF FreshIds
    <3> QED
      BY ONLY <1>10, <2>1, <2>2, Smallest
  <2> QED
    BY <2>3 DEF NewId
<1> QED
  BY <1>11 DEF FreshIds, Used, InUse


\* Nobody uses the ID.
Fresh(js, f, id) ==
    /\ \A p \in Owners : f[p] # id
    /\ \A s \in Slots : Used(js, s) => js[s].id # id

\* A new job of the owner o in the free slot s.
LEMMA Submits ==
  ASSUME NEW js \in [Slots -> Job \cup {Free}], NEW q, Queueing(js, q),
         NEW f \in [Owners -> Ids \cup {0}], Owning(js, f),
         NEW o \in Owners, f[o] = 0, NEW j \in Job, j.state = "QUEUED", ~j.cancelled, Fresh(js, f, j.id),
         NEW s \in Slots, ~Used(js, s), 
         NEW ks, Differs(ks, js, Slots, s, j), NEW g, Differs(g, f, Owners, o, j.id)
  PROVE  /\ Queueing(ks, Append(q, s)) /\ Owning(ks, g)
         /\ \A x \in Slots : ks[x].state = "RUNNING" <=> js[x].state = "RUNNING"
<1> DEFINE r  == Append(q, s)
<1>0. (\A p \in Owners : f[p] # j.id) /\ \A x \in Slots : Used(js, x) => js[x].id # j.id
  BY DEF Fresh
<1>1. ks[s] = j /\ \A x \in Slots : x # s => ks[x] = js[x]
  BY DEF Differs
<1>2. g[o] = j.id /\ \A p \in Owners : p # o => g[p] = f[p]
  BY DEF Differs
<1>3. j.id \in Ids /\ j.id # 0 /\ js[s].state = "FREE"
  BY FreeIsNone DEF Used
<1>4. \A x \in Slots : ks[x].state = "RUNNING" <=> js[x].state = "RUNNING"
  BY <1>1, <1>3
<1>5. \A x \in Slots : Used(ks, x) <=> x = s \/ Used(js, x)
  BY <1>1, <1>3 DEF Used
<1>6. Queueing(ks, r)
  <2>1. q \in Seq(Slots) /\ Once(q) /\ DOMAIN q = 1..Len(q) /\ Len(q) \in Nat
    BY DEF Queueing
  <2>2. \A x \in Slots : (\E i \in DOMAIN q : q[i] = x) <=> js[x].state = "QUEUED"
    BY DEF Queueing
  <2>3. /\ r \in Seq(Slots) /\ Len(r) = Len(q) + 1
        /\ r[Len(q) + 1] = s /\ \A i \in 1..Len(q) : r[i] = q[i]
    BY <2>1
  <2>4. DOMAIN r = 1..Len(r)
    BY <2>3
  <2> HIDE DEF r
  <2>5. \A i \in DOMAIN q : q[i] # s
    BY <1>3, <2>2
  <2>6. Once(r)
    <3> SUFFICES ASSUME NEW i \in DOMAIN r, NEW k \in DOMAIN r, r[i] = r[k] PROVE i = k
      BY DEF Once
    <3>1. i = Len(q) + 1 \/ i \in DOMAIN q
      BY <2>1, <2>3, <2>4
    <3>2. k = Len(q) + 1 \/ k \in DOMAIN q
      BY <2>1, <2>3, <2>4
    <3> QED
      BY <2>1, <2>3, <2>5, <3>1, <3>2 DEF Once
  <2>7. ASSUME NEW x \in Slots
        PROVE  (\E i \in DOMAIN r : r[i] = x) <=> ks[x].state = "QUEUED"
    <3>1. (\E i \in DOMAIN r : r[i] = x) <=> x = s \/ \E i \in DOMAIN q : q[i] = x
      <4>1. ASSUME NEW i \in DOMAIN r PROVE i = Len(q) + 1 \/ i \in DOMAIN q
        BY <2>1, <2>3, <2>4
      <4>2. Len(q) + 1 \in DOMAIN r /\ DOMAIN q \subseteq DOMAIN r
        BY <2>1, <2>3, <2>4
      <4> QED
        BY <2>1, <2>3, <4>1, <4>2
    <3> QED
      BY <1>1, <2>2, <3>1
  <2> QED
    BY <2>3, <2>6, <2>7 DEF Queueing
<1>7. Owning(ks, g)
  <2>1. ASSUME NEW x \in Slots, Used(ks, x)
        PROVE  /\ ks[x].cancelled => ks[x].state = "RUNNING"
               /\ ~ks[x].cancelled => \E p \in Owners : g[p] = ks[x].id
               /\ \A t \in Slots : Used(ks, t) /\ ks[t].id = ks[x].id => t = x
    <3>1. CASE x = s
      BY <1>0, <1>1, <1>2, <1>5, <2>1, <3>1
    <3>2. CASE x # s
      <4>1. Used(js, x) /\ ks[x] = js[x] /\ js[x].id # j.id
        BY <1>0, <1>1, <1>5, <2>1, <3>2
      <4>2. ~js[x].cancelled => \E p \in Owners : g[p] = js[x].id
        <5> SUFFICES ASSUME ~js[x].cancelled PROVE \E p \in Owners : g[p] = js[x].id
          OBVIOUS
        <5>1. PICK p \in Owners : f[p] = js[x].id
          BY <4>1 DEF Owning
        <5>2. p # o
          <6>1. js[x] \in Job
            BY <4>1, FreeIsNone DEF Used
          <6> QED
            BY <5>1, <6>1, FreeIsNone
        <5> QED
          BY <1>2, <5>1, <5>2
      <4>3. js[x].cancelled => js[x].state = "RUNNING"
        BY <4>1 DEF Owning
      <4>4. \A t \in Slots : Used(js, t) /\ js[t].id = js[x].id => t = x
        BY <4>1 DEF Owning
      <4> QED
        BY <1>1, <1>5, <4>1, <4>2, <4>3, <4>4
    <3> QED
      BY <3>1, <3>2
  <2>2. ASSUME NEW p \in Owners, g[p] # 0
        PROVE  \E x \in Slots : Used(ks, x) /\ ks[x].id = g[p] /\ ~ks[x].cancelled
    <3>1. CASE p = o
      BY <1>1, <1>2, <1>5, <3>1
    <3>2. CASE p # o
      <4>1. PICK x \in Slots : Used(js, x) /\ js[x].id = f[p] /\ ~js[x].cancelled
        BY <1>2, <2>2, <3>2 DEF Owning
      <4> QED
        BY <1>1, <1>2, <1>5, <3>2, <4>1
    <3> QED
      BY <3>1, <3>2
  <2>3. ASSUME NEW p \in Owners, NEW u \in Owners, g[p] # 0, g[p] = g[u] PROVE p = u
    BY <1>0, <1>2, <2>3 DEF Owning
  <2> QED
    BY <2>1, <2>2, <2>3 DEF Owning
<1> QED
  BY <1>1, <1>4, <1>6, <1>7

\* The job that the owner o waits for is done.
Answered(js, f, o, s) == s \in Slots /\ js[s].state = "DONE" /\ js[s].id = f[o]

Taken(js, s) == [js EXCEPT ![s] = Free]

\* To take the result of a job that is done is to cancel it.
LEMMA TakenIsCancelled ==
  ASSUME NEW js \in [Slots -> Job \cup {Free}], NEW q, Queueing(js, q),
         NEW f \in [Owners -> Ids \cup {0}], Owning(js, f), NEW o \in Owners,
         NEW s, Answered(js, f, o, s)
  PROVE  Taken(js, s) = Cancelled(js, f[o]) /\ Unqueued(q, js, f[o]) = q
<1> USE DEF Answered
<1> DEFINE id == f[o]
           ks == Cancelled(js, id)
<1>1. Used(js, s) /\ \A x \in Slots : Used(js, x) /\ js[x].id = id => x = s
  <2>1. Used(js, s)
    BY DEF Used
  <2> QED
    BY <2>1 DEF Owning
<1>2. id # 0 /\ js[s].id = id /\ js[s].state # "RUNNING" /\ js[s].state # "FREE"
  <2>1. js[s] \in Job
    BY <1>1, FreeIsNone DEF Used
  <2> QED
    BY <2>1, FreeIsNone
<1> HIDE DEF id
<1>3. ks \in [Slots -> Job \cup {Free}]
  BY CancelledIs
<1>4. ks[s] = Free /\ \A x \in Slots : x # s => ks[x] = js[x]
  <2>1. \A x \in Slots : x # s => js[x].state = "FREE" \/ js[x].id # id
    BY <1>1 DEF Used
  <2> QED
    BY <1>2, <2>1 DEF Cancelled
<1> HIDE DEF ks
<1>5. Taken(js, s) = ks
  BY <1>3, <1>4 DEF Taken
<1>6. {i \in DOMAIN q : js[q[i]].id = id} = {}
  <2> SUFFICES ASSUME NEW i \in DOMAIN q, js[q[i]].id = id PROVE FALSE
    OBVIOUS
  <2>1. q[i] \in Slots /\ js[q[i]].state = "QUEUED"
    BY DEF Queueing
  <2>2. q[i] = s
    BY <1>1, <2>1 DEF Used
  <2> QED
    BY <2>1, <2>2
<1>7. Unqueued(q, js, id) = q
  BY <1>6 DEF Unqueued
<1> QED
  BY <1>5, <1>7 DEF ks, id

\* Whoever still waits still waits for the same.
LEMMA StillAsking ==
  ASSUME NEW js \in [Slots -> Job \cup {Free}], NEW f, NEW a, Asking(js, f, a),
         NEW ks \in [Slots -> Job \cup {Free}], Shrunk(ks, js), NEW g, NEW b,
         \A o \in Owners : g[o] = 0 \/ g[o] = f[o],
         \A c \in Conns, t \in Tokens : g[AdminOf(c)] # 0 /\ a[t] = c => b[t] = c
  PROVE  Asking(ks, g, b)
<1>1. ASSUME NEW s \in Slots, Used(ks, s)
      PROVE  ks[s].token \in Tokens /\ (ks[s].code # 0 => ks[s].kind = "issue" /\ ks[s].code = ks[s].token)
  BY <1>1 DEF Asking, Shrunk
<1>2. ASSUME NEW s \in Slots, NEW c \in Conns, Used(ks, s), ~ks[s].cancelled, ks[s].kind = "issue",
             ks[s].id = g[AdminOf(c)]
      PROVE  b[ks[s].token] = c
  <2>1. ks[s].id # 0
    <3>1. ks[s] \in Job
      BY <1>2, FreeIsNone DEF Used
    <3> QED
      BY <3>1, FreeIsNone
  <2>2. AdminOf(c) \in Owners
    BY OwnerNames
  <2>3. g[AdminOf(c)] # 0 /\ g[AdminOf(c)] = f[AdminOf(c)]
    BY <1>2, <2>1, <2>2
  <2>4. /\ Used(js, s) /\ ~js[s].cancelled /\ js[s].kind = "issue" /\ js[s].id = f[AdminOf(c)]
        /\ js[s].token = ks[s].token
    BY <1>2, <2>3 DEF Shrunk
  <2>5. a[ks[s].token] = c /\ ks[s].token \in Tokens
    BY <1>1, <1>2, <2>4 DEF Asking
  <2> QED
    BY <2>3, <2>5
<1> QED
  BY <1>1, <1>2 DEF Asking


-----------------------------------------------------------------------------
(* Steps that leave the jobs and those who wait for them alone. *)

LEMMA ReferStays ==
  ASSUME \A c \in Conns : conns'[c].auth = conns[c].auth /\ conns'[c].admin = conns[c].admin,
         root' = root
  PROVE  Refer' = Refer
<1>1. \A o \in Owners : /\ o.field = "auth" => o.conn \in Conns
                        /\ o.field = "admin" => o.conn \in Conns
  BY DEF Owners, Local
<1> QED
  BY <1>1 DEF Refer

LEMMA JobsStay ==
  ASSUME ServerInv, jobs' = jobs, queue' = queue, asker' = asker, Refer' = Refer,
         mpc' # "stopped" => mpc # "stopped"
  PROVE  /\ Queueing(jobs, queue)'
         /\ (mpc # "stopped" => Owning(jobs, Refer))'
         /\ Asking(jobs, Refer, asker)'
<1>1. Queueing(jobs, queue)'
  BY DEF ServerInv, Queueing
<1>2. (mpc # "stopped" => Owning(jobs, Refer))'
  BY DEF ServerInv, Owning, Used
<1>3. Asking(jobs, Refer, asker)'
  BY DEF ServerInv, Asking, Used
<1> QED
  BY <1>1, <1>2, <1>3

\* A step that touches no job: it may wake the worker, move the threads and
\* change what a connection is, but nobody begins or ends to wait.
LEMMA Elsewhere ==
  ASSUME ServerInv, UNCHANGED <<jobs, queue, root, asker, told, slot>>,
         \A c \in Conns : conns'[c].auth = conns[c].auth /\ conns'[c].admin = conns[c].admin,
         ASVTypeOK', Connected', WorkerAwake',
         wpc \in Busy \/ wpc' \in Busy => wpc' = wpc,
         mpc' = "init" => mpc = "init" /\ wpc' = wpc,
         mpc' = "stopped" => mpc = "stopped" /\ wpc' = wpc,
         mpc = "stopped" => mpc' = "stopped",
         mpc' \in Polling => at' \in Conns
  PROVE  ServerInv'
<1>1. Refer' = Refer
  BY ReferStays
<1>2. /\ Queueing(jobs, queue)' /\ (mpc # "stopped" => Owning(jobs, Refer))'
      /\ Asking(jobs, Refer, asker)'
  BY <1>1, JobsStay
<1>3. Running'
  BY DEF ServerInv, Running
<1>4. Lives'
  BY DEF ServerInv, Lives
<1> QED
  BY <1>2, <1>3, <1>4 DEF ServerInv

\* A thread's own step.
LEMMA Threads ==
  ASSUME ServerInv, UNCHANGED <<jobs, queue, root, asker, told, slot, conns, at, mpc>>,
         ASVTypeOK', WorkerAwake', wpc \in Busy \/ wpc' \in Busy => wpc' = wpc,
         mpc \in {"init", "stopped"} => wpc' = wpc
  PROVE  ServerInv'
<1>1. Connected'
  BY DEF ServerInv, Connected
<1>2. mpc \in Polling => at \in Conns
  BY DEF ServerInv, Lives
<1> QED
  BY <1>1, <1>2, Elsewhere

LEMMA RowsHaveANext ==
  ASSUME ASVTypeOK, rows # {}
  PROVE  NextRow(after) \in 0..NTokens
<1>1. rows \in SUBSET (1..NTokens) /\ NTokens \in Nat
  BY Numbers DEF ASVTypeOK, Tokens
<1> DEFINE later == {t \in rows : t > after}
           some  == IF later # {} THEN later ELSE rows
<1>2. some \in SUBSET (1..NTokens) /\ some # {}
  BY <1>1
<1>3. NextRow(after) = CHOOSE t \in some : \A u \in some : t <= u
  BY DEF NextRow
<1> HIDE DEF some
<1>4. NextRow(after) \in some
  BY <1>1, <1>2, <1>3, Smallest
<1>5. NextRow(after) \in 1..NTokens
  BY <1>2, <1>4
<1> QED
  BY <1>1, <1>5

\* access_store_expire() keeps the store's part of the types.
LEMMA ExpireTypes ==
  ASSUME ASVTypeOK, Expire
  PROVE  /\ poisoned' \in BOOLEAN /\ failed' \in BOOLEAN
         /\ token' \in [Tokens -> {"unissued", "active", "revoked", "expired"}]
         /\ rows' \subseteq {t \in Tokens : token'[t] = "revoked"}
  BY DEF ASVTypeOK, Expire, Expiring, store

LEMMA ExpiryKeeps ==
  ASSUME ServerInv, ExpiryThread
  PROVE  ServerInv'
<1>0. ASVTypeOK /\ WorkerAwake
  BY DEF ServerInv
<1>1. UNCHANGED <<jobs, queue, maintenance, stopping, served, wpc, slot, row, after, due, mpc, at, conns, root,
                  asker, told>>
  BY DEF ExpiryThread, worker, history
<1>2. /\ poisoned' \in BOOLEAN /\ failed' \in BOOLEAN
      /\ token' \in [Tokens -> {"unissued", "active", "revoked", "expired"}]
      /\ rows' \subseteq {t \in Tokens : token'[t] = "revoked"}
      /\ epc' \in {"none", "loop", "exited"}
  BY <1>0, ExpireTypes DEF ExpiryThread, ASVTypeOK, store
<1>3. ASVTypeOK'
  BY <1>0, <1>1, <1>2 DEF ASVTypeOK
<1>4. WorkerAwake'
  BY <1>0, <1>1 DEF WorkerAwake, Queued
<1> QED
  BY <1>1, <1>3, <1>4, Threads

\* The steps of the worker that are about no job.
LEMMA WorkerKeeps ==
  ASSUME ServerInv, WorkerExits \/ WorkerMaintains \/ WorkerWaits \/ Maintain \/ Route
  PROVE  ServerInv'
<1>0. ASVTypeOK /\ WorkerAwake
  BY DEF ServerInv
<1>a. mpc \in {"init", "stopped"} => wpc \in {"none", "exited"}
  BY DEF ServerInv, Lives
<1>1. CASE WorkerExits
  <2>1. ASVTypeOK' /\ WorkerAwake'
    BY <1>0, <1>1 DEF WorkerExits, ASVTypeOK, WorkerAwake, store, history
  <2> QED
    BY <1>a, <1>1, <2>1, Threads DEF WorkerExits, Busy, store, history
<1>2. CASE WorkerMaintains
  <2>1. ASVTypeOK' /\ WorkerAwake'
    BY <1>0, <1>2 DEF WorkerMaintains, ASVTypeOK, WorkerAwake, store, history
  <2> QED
    BY <1>a, <1>2, <2>1, Threads DEF WorkerMaintains, Busy, store, history
<1>3. CASE WorkerWaits
  <2>1. ASVTypeOK'
    BY <1>0, <1>3 DEF WorkerWaits, ASVTypeOK, store, history
  <2>2. WorkerAwake'
    BY <1>0, <1>3 DEF WorkerWaits, WorkerAwake, ASVTypeOK, MaintenanceDue, Queued
  <2> QED
    BY <1>a, <1>3, <2>1, <2>2, Threads DEF WorkerWaits, Busy, store, history
<1>4. CASE Maintain
  <2>1. UNCHANGED <<jobs, queue, maintenance, stopping, served, slot, epc, due, mpc, at, conns, root, asker, told>>
    BY <1>4 DEF Maintain, history
  <2>2. /\ poisoned' \in BOOLEAN /\ failed' \in BOOLEAN
        /\ token' \in [Tokens -> {"unissued", "active", "revoked", "expired"}]
        /\ rows' \subseteq {t \in Tokens : token'[t] = "revoked"}
    BY <1>0, <1>4, ExpireTypes DEF Maintain
  <2>3. wpc = "maintain" /\ wpc' \in {"loop", "route"} /\ row' \in 0..NTokens /\ after' \in 0..NTokens
    <3>1. row \in 0..NTokens /\ after \in 0..NTokens
      BY <1>0 DEF ASVTypeOK
    <3> QED
      BY <1>0, <1>4, <3>1, RowsHaveANext DEF Maintain
  <2>4. ASVTypeOK'
    BY <1>0, <2>1, <2>2, <2>3 DEF ASVTypeOK
  <2>5. WorkerAwake'
    BY <2>3 DEF WorkerAwake
  <2> QED
    BY <1>a, <2>1, <2>3, <2>4, <2>5, Threads DEF Busy
<1>5. CASE Route
  <2>1. UNCHANGED <<jobs, queue, maintenance, stopping, served, slot, after, epc, due, mpc, at, conns, root, asker, told>>
    BY <1>5 DEF Route, history
  <2>2. /\ poisoned' \in BOOLEAN /\ failed' \in BOOLEAN
        /\ token' \in [Tokens -> {"unissued", "active", "revoked", "expired"}]
        /\ rows' \subseteq {t \in Tokens : token'[t] = "revoked"}
    BY <1>0, <1>5 DEF Route, ASVTypeOK, store
  <2>3. wpc = "route" /\ wpc' = "loop" /\ row' = 0 /\ row' \in 0..NTokens
    BY <1>5, Numbers DEF Route
  <2>4. ASVTypeOK'
    BY <1>0, <2>1, <2>2, <2>3 DEF ASVTypeOK
  <2>5. WorkerAwake'
    BY <2>3 DEF WorkerAwake
  <2> QED
    BY <1>a, <2>1, <2>3, <2>4, <2>5, Threads DEF Busy
<1> QED
  BY <1>1, <1>2, <1>3, <1>4, <1>5


\* The steps of the main thread and of time that are about no job.
LEMMA MainKeeps ==
  ASSUME ServerInv, StartWorker \/ StartExpiry \/ StartFails \/ Tick \/ Shutdown \/ Stopped
  PROVE  ServerInv'
<1>0. ASVTypeOK /\ WorkerAwake /\ Connected
  BY DEF ServerInv
<1>s. Signal => wpc' # "waiting" /\ (wpc \in Busy \/ wpc' \in Busy => wpc' = wpc)
                /\ (wpc # "waiting" => wpc' = wpc)
                /\ wpc' \in {"none", "loop", "waiting", "maintain", "route", "run", "ran", "exited"}
  BY <1>0 DEF Signal, Busy, ASVTypeOK
<1>1. CASE StartWorker
  <2>1. ASVTypeOK' /\ WorkerAwake'
    BY <1>0, <1>1 DEF StartWorker, ASVTypeOK, WorkerAwake, store, history
  <2>2. Connected'
    BY <1>0, <1>1 DEF StartWorker, Connected
  <2>3. wpc = "none"
    BY <1>1 DEF StartWorker, ServerInv, Lives
  <2> QED
    BY <1>1, <2>1, <2>2, <2>3, Elsewhere DEF StartWorker, Busy, store, history, Polling
<1>2. CASE StartExpiry
  <2>1. ASVTypeOK' /\ WorkerAwake'
    BY <1>0, <1>2 DEF StartExpiry, ASVTypeOK, WorkerAwake, store, history, worker, Queued
  <2>2. Connected'
    BY <1>0, <1>2 DEF StartExpiry, Connected
  <2> QED
    BY <1>2, <2>1, <2>2, Elsewhere DEF StartExpiry, store, history, worker, Polling
<1>3. CASE StartFails
  <2>1. ASVTypeOK' /\ WorkerAwake'
    BY <1>0, <1>3, <1>s DEF StartFails, ASVTypeOK, WorkerAwake, store, history
  <2>2. Connected'
    BY <1>0, <1>3 DEF StartFails, Connected
  <2> QED
    BY <1>3, <1>s, <2>1, <2>2, Elsewhere DEF StartFails, store, history, Polling
<1>4. CASE Tick
  <2>1. ASVTypeOK' /\ WorkerAwake'
    BY <1>0, <1>4, <1>s DEF Tick, ASVTypeOK, WorkerAwake, store, history
  <2>2. Connected'
    BY <1>0, <1>4 DEF Tick, Connected
  <2> QED
    BY <1>4, <1>s, <2>1, <2>2, Elsewhere DEF Tick, Main, store, history, Polling
<1>5. CASE Shutdown
  <2>1. ASVTypeOK' /\ WorkerAwake'
    BY <1>0, <1>5, <1>s DEF Shutdown, Stop, ASVTypeOK, WorkerAwake, store, history
  <2>2. Connected'
    BY <1>0, <1>5 DEF Shutdown, Connected
  <2> QED
    BY <1>5, <1>s, <2>1, <2>2, Elsewhere DEF Shutdown, Stop, Main, store, history, Polling
<1>6. CASE Stopped
  <2>1. UNCHANGED vars
    BY <1>6 DEF Stopped
  <2>2. ASVTypeOK' /\ WorkerAwake' /\ Connected'
    BY <1>0, <2>1 DEF ASVTypeOK, WorkerAwake, Connected, Queued, vars
  <2> QED
    BY <1>6, <2>1, <2>2, Elsewhere DEF Stopped, vars, Polling
<1> QED
  BY <1>1, <1>2, <1>3, <1>4, <1>5, <1>6

\* Steps of the main loop about one connection.
LEMMA ConnectionKeeps ==
  ASSUME ServerInv, NEW c \in Conns,
         Connect(c) \/ EnterGame(c) \/ ChangePermission(c) \/ Drop(c) \/ PollStart(c)
  PROVE  ServerInv'
<1>0. ASVTypeOK /\ WorkerAwake /\ Connected
  BY DEF ServerInv
<1>1. /\ UNCHANGED <<jobs, queue, root, asker, told, slot, maintenance, stopping, served, failed, wpc, row,
                     after, epc, token, rows, poisoned, due>>
      /\ mpc = "loop" /\ mpc' \in {"loop", "pollAuth"}
      /\ mpc' = "pollAuth" => at' = c
  BY DEF Connect, EnterGame, ChangePermission, Drop, PollStart, Main, worker, store, history
<1>2. /\ conns' \in [Conns -> Conn]
      /\ \A d \in Conns : conns'[d].auth = conns[d].auth /\ conns'[d].admin = conns[d].admin
      /\ Connected'
  <2>0. conns \in [Conns -> Conn] /\ conns[c] \in Conn
    BY <1>0 DEF ASVTypeOK
  <2>1. CASE Connect(c)
    <3>1. conns' = [conns EXCEPT ![c] = [NoConnection EXCEPT !.state = "login"]] /\ conns[c] = NoConnection
      BY <1>0, <2>1 DEF Connect, Connected
    <3> DEFINE v == [NoConnection EXCEPT !.state = "login"]
    <3>2. v \in Conn /\ v.auth = 0 /\ v.admin = 0 /\ v.state = "login"
      <4>1. NoConnection \in Conn /\ NoConnection.auth = 0 /\ NoConnection.admin = 0
        BY Numbers DEF NoConnection, Conn
      <4> QED
        BY <4>1 DEF Conn
    <3>3. conns[c].auth = 0 /\ conns[c].admin = 0
      BY <3>1 DEF NoConnection
    <3> HIDE DEF v
    <3>4. conns'[c] = v /\ \A d \in Conns : d # c => conns'[d] = conns[d]
      BY <2>0, <3>1 DEF v
    <3>5. conns' \in [Conns -> Conn]
      BY <2>0, <3>1, <3>2 DEF v
    <3> QED
      BY <1>0, <3>2, <3>3, <3>4, <3>5 DEF Connected
  <2>2. CASE EnterGame(c) \/ ChangePermission(c) \/ Drop(c)
    <3>1. PICK s \in {"playing", "dead", "zombie"}, p \in BOOLEAN :
             conns' = [conns EXCEPT ![c].state = s, ![c].permitted = p]
      <4>1. CASE EnterGame(c)
        BY <4>1 DEF EnterGame
      <4>2. CASE ChangePermission(c)
        <5>1. conns' = [conns EXCEPT ![c].state = "playing", ![c].permitted = ~conns[c].permitted]
          BY <2>0, <4>2 DEF ChangePermission, Conn
        <5>2. (~conns[c].permitted) \in BOOLEAN
          OBVIOUS
        <5> QED
          BY <5>1, <5>2
      <4>3. CASE Drop(c)
        <5>1. PICK s \in {"dead", "zombie"} : conns' = [conns EXCEPT ![c].state = s]
          BY <4>3 DEF Drop
        <5>2. conns' = [conns EXCEPT ![c].state = s, ![c].permitted = conns[c].permitted]
          BY <2>0, <5>1 DEF Conn
        <5>3. conns[c].permitted \in BOOLEAN
          BY <2>0 DEF Conn
        <5> QED
          BY <5>2, <5>3
      <4> QED
        BY <2>2, <4>1, <4>2, <4>3
    <3> DEFINE v == [conns[c] EXCEPT !.state = s, !.permitted = p]
    <3>2. v \in Conn /\ v.auth = conns[c].auth /\ v.admin = conns[c].admin /\ v.state = s
          /\ v.attempted = conns[c].attempted
      BY <2>0 DEF Conn
    <3>3. conns' = [conns EXCEPT ![c] = v]
      BY <2>0, <3>1
    <3> HIDE DEF v
    <3>4. conns'[c] = v /\ \A d \in Conns : d # c => conns'[d] = conns[d]
      BY <2>0, <3>3
    <3>5. conns' \in [Conns -> Conn]
      BY <2>0, <3>2, <3>3
    <3>6. s # "free"
      OBVIOUS
    <3> QED
      BY <1>0, <3>2, <3>4, <3>5, <3>6 DEF Connected
  <2>3. CASE PollStart(c)
    BY <1>0, <2>0, <2>3 DEF PollStart, Connected
  <2> QED
    BY <2>1, <2>2, <2>3
<1>3. ASVTypeOK'
  BY <1>0, <1>1, <1>2 DEF ASVTypeOK
<1>4. WorkerAwake'
  BY <1>0, <1>1 DEF WorkerAwake, Queued
<1> QED
  BY <1>1, <1>2, <1>3, <1>4, Elsewhere DEF Polling

\* The session of the connection that is polled is checked.
LEMMA SessionKeeps ==
  ASSUME ServerInv, PollSession
  PROVE  ServerInv'
<1>0. ASVTypeOK /\ WorkerAwake /\ Connected
  BY DEF ServerInv
<1>1. /\ UNCHANGED <<jobs, queue, root, asker, told, slot, maintenance, stopping, served, failed, wpc, row,
                     after, epc, token, rows, poisoned, due>>
      /\ mpc = "pollSession" /\ mpc' = "loop"
      /\ conns' = conns \/ conns' = [conns EXCEPT ![at].state = "dead"]
  BY DEF PollSession, worker, store, history
<1>2. at \in Conns /\ conns \in [Conns -> Conn]
  BY <1>0, <1>1 DEF ServerInv, Lives, Polling, ASVTypeOK
<1>3. /\ conns' \in [Conns -> Conn]
      /\ \A d \in Conns : /\ conns'[d].auth = conns[d].auth /\ conns'[d].admin = conns[d].admin
      /\ Connected'
  <2>1. CASE conns' = conns
    BY <1>0, <1>2, <2>1 DEF Connected
  <2>2. CASE conns' = [conns EXCEPT ![at].state = "dead"]
    <3> DEFINE v == [conns[at] EXCEPT !.state = "dead"]
    <3>1. v \in Conn /\ v.auth = conns[at].auth /\ v.admin = conns[at].admin /\ v.state = "dead"
          /\ v.attempted = conns[at].attempted
      BY <1>2 DEF Conn
    <3>2. conns' = [conns EXCEPT ![at] = v]
      BY <1>2, <2>2
    <3> HIDE DEF v
    <3>3. conns'[at] = v /\ \A d \in Conns : d # at => conns'[d] = conns[d]
      BY <1>2, <3>2
    <3>4. conns' \in [Conns -> Conn]
      BY <1>2, <3>1, <3>2
    <3> QED
      BY <1>0, <3>1, <3>3, <3>4 DEF Connected
  <2> QED
    BY <1>1, <2>1, <2>2
<1>4. ASVTypeOK'
  BY <1>0, <1>1, <1>3 DEF ASVTypeOK
<1>5. WorkerAwake'
  BY <1>0, <1>1 DEF WorkerAwake, Queued
<1> QED
  BY <1>1, <1>3, <1>4, <1>5, Elsewhere DEF Polling

LEMMA TimeKeeps ==
  ASSUME ServerInv, NEW t \in Tokens, DeadlinePasses(t)
  PROVE  ServerInv'
<1>0. ASVTypeOK /\ WorkerAwake
  BY DEF ServerInv
<1>1. UNCHANGED <<jobs, queue, root, asker, told, slot, maintenance, stopping, served, failed, wpc, row,
                  after, epc, token, rows, poisoned, mpc, at, conns>>
  BY DEF DeadlinePasses, worker, store, history
<1>2. due' \subseteq Mortal
  BY <1>0 DEF DeadlinePasses, ASVTypeOK
<1>3. ASVTypeOK'
  BY <1>0, <1>1, <1>2 DEF ASVTypeOK
<1>4. WorkerAwake'
  BY <1>0, <1>1 DEF WorkerAwake, Queued
<1> QED
  BY <1>1, <1>3, <1>4, Threads


-----------------------------------------------------------------------------
(* The worker and its job. *)

\* The jobs of the owners stay, and a job disappears only if it is cancelled.
LEMMA OwnersKeep ==
  ASSUME NEW js, NEW f, Owning(js, f), NEW ks,
         \A s \in Slots : Used(ks, s) =>
            /\ Used(js, s) /\ ks[s].id = js[s].id /\ ks[s].cancelled = js[s].cancelled
            /\ js[s].cancelled /\ js[s].state = "RUNNING" => ks[s].state = "RUNNING",
         \A s \in Slots : Used(js, s) /\ ~js[s].cancelled => Used(ks, s)
  PROVE  Owning(ks, f)
<1>1. ASSUME NEW s \in Slots, Used(ks, s)
      PROVE  /\ ks[s].cancelled => ks[s].state = "RUNNING"
             /\ ~ks[s].cancelled => \E o \in Owners : f[o] = ks[s].id
             /\ \A r \in Slots : Used(ks, r) /\ ks[r].id = ks[s].id => r = s
  <2>1. Used(js, s) /\ ks[s].id = js[s].id /\ ks[s].cancelled = js[s].cancelled
    BY <1>1
  <2>2. ks[s].cancelled => ks[s].state = "RUNNING"
    BY <1>1, <2>1 DEF Owning
  <2>3. ~ks[s].cancelled => \E o \in Owners : f[o] = ks[s].id
    BY <2>1 DEF Owning
  <2>4. \A r \in Slots : Used(ks, r) /\ ks[r].id = ks[s].id => r = s
    BY <2>1 DEF Owning
  <2> QED
    BY <2>2, <2>3, <2>4
<1>2. ASSUME NEW o \in Owners, f[o] # 0
      PROVE  \E s \in Slots : Used(ks, s) /\ ks[s].id = f[o] /\ ~ks[s].cancelled
  <2>1. PICK s \in Slots : Used(js, s) /\ js[s].id = f[o] /\ ~js[s].cancelled
    BY <1>2 DEF Owning
  <2> QED
    BY <2>1
<1>3. \A o, p \in Owners : f[o] # 0 /\ f[o] = f[p] => o = p
  BY DEF Owning
<1> QED
  BY <1>1, <1>2, <1>3 DEF Owning

\* The worker takes the oldest job from the queue.
LEMMA PicksKeeps ==
  ASSUME ServerInv, WorkerPicks
  PROVE  ServerInv'
<1> DEFINE h == Head(queue)
           v == [jobs[h] EXCEPT !.state = "RUNNING"]
<1>0. ASVTypeOK /\ Queueing(jobs, queue) /\ Running /\ Lives /\ Connected
  BY DEF ServerInv
<1>1. /\ wpc = "loop" /\ wpc' = "run" /\ slot' = h /\ queue' = Tail(queue) /\ queue # <<>>
      /\ jobs' = [jobs EXCEPT ![h].state = "RUNNING"] /\ served' = FALSE
      /\ UNCHANGED <<maintenance, stopping, failed, row, after, epc, token, rows, poisoned, due, mpc, at,
                     conns, root, asker, told>>
  BY DEF WorkerPicks, Queued, store, history
<1>2. mpc # "stopped" /\ mpc # "init"
  BY <1>0, <1>1 DEF Lives
<1>3. queue \in Seq(Slots) /\ Len(queue) \in Nat /\ DOMAIN queue = 1..Len(queue)
  BY <1>0 DEF Queueing
<1>4. 1 \in DOMAIN queue /\ h = queue[1] /\ h \in Slots
  BY <1>1, <1>3
<1>5. jobs[h].state = "QUEUED" /\ jobs[h] \in Job /\ jobs \in [Slots -> Job \cup {Free}]
  <2>1. jobs[h].state = "QUEUED"
    BY <1>0, <1>4 DEF Queueing
  <2> QED
    BY <1>0, <1>4, <2>1 DEF ASVTypeOK, Free
<1> HIDE DEF h
<1>6. /\ v \in Job /\ v.state = "RUNNING" /\ v.id = jobs[h].id /\ v.cancelled = jobs[h].cancelled
      /\ v.kind = jobs[h].kind /\ v.token = jobs[h].token /\ v.code = jobs[h].code
  BY <1>5 DEF Job
<1>7. jobs' = [jobs EXCEPT ![h] = v]
  BY <1>1, <1>4, <1>5
<1> HIDE DEF v
<1>8. /\ jobs' \in [Slots -> Job \cup {Free}]
      /\ jobs'[h] = v /\ \A s \in Slots : s # h => jobs'[s] = jobs[s]
  BY <1>4, <1>5, <1>6, <1>7
<1>9. Refer' = Refer
  BY <1>1, ReferStays
<1>10. ~jobs[h].cancelled
  BY <1>2, <1>4, <1>5 DEF ServerInv, Owning, Used
<1>11. Owning(jobs', Refer)
  <2>1. \A s \in Slots : Used(jobs', s) <=> Used(jobs, s)
    BY <1>5, <1>6, <1>8 DEF Used
  <2> QED
    BY <1>2, <1>5, <1>6, <1>8, <1>10, <2>1, OwnersKeep DEF ServerInv
<1>12. Asking(jobs', Refer, asker)
  <2>1. Shrunk(jobs', jobs)
    BY <1>5, <1>6, <1>8 DEF Shrunk, Used
  <2>2. Asking(jobs, Refer, asker)
    BY DEF ServerInv
  <2> QED
    BY <1>5, <1>8, <2>1, <2>2, StillAsking
<1>13. Queueing(jobs', queue')
  <2>1. /\ queue' \in Seq(Slots) /\ Len(queue') = Len(queue) - 1
        /\ \A i \in 1..(Len(queue) - 1) : queue'[i] = queue[i + 1]
    BY <1>1, <1>3
  <2>2. DOMAIN queue' = 1..(Len(queue) - 1) /\ Len(queue) \in Nat \ {0}
    BY <1>3, <1>4, <2>1
  <2>3. \A i \in DOMAIN queue' : i + 1 \in DOMAIN queue /\ i + 1 # 1 /\ queue'[i] = queue[i + 1]
    BY <1>3, <2>1, <2>2
  <2>4. \A k \in DOMAIN queue : k # 1 => k - 1 \in DOMAIN queue' /\ queue'[k - 1] = queue[k]
    <3> SUFFICES ASSUME NEW k \in DOMAIN queue, k # 1 PROVE k - 1 \in DOMAIN queue' /\ queue'[k - 1] = queue[k]
      OBVIOUS
    <3>1. k - 1 \in 1..(Len(queue) - 1) /\ (k - 1) + 1 = k
      BY <1>3, <2>2
    <3> QED
      BY <2>1, <2>2, <3>1
  <2>5. Once(queue')
    <3> SUFFICES ASSUME NEW i \in DOMAIN queue', NEW k \in DOMAIN queue', queue'[i] = queue'[k] PROVE i = k
      BY DEF Once
    <3>1. i + 1 = k + 1
      BY <1>0, <2>3 DEF Queueing, Once
    <3> QED
      BY <2>2, <3>1
  <2>6. ASSUME NEW s \in Slots PROVE (\E i \in DOMAIN queue' : queue'[i] = s) <=> jobs'[s].state = "QUEUED"
    <3>1. (\E i \in DOMAIN queue : queue[i] = s) <=> jobs[s].state = "QUEUED"
      BY <1>0 DEF Queueing
    <3>2. (\E i \in DOMAIN queue' : queue'[i] = s) <=> (\E i \in DOMAIN queue : queue[i] = s) /\ s # h
      <4>1. ASSUME NEW i \in DOMAIN queue' PROVE queue'[i] # h /\ \E k \in DOMAIN queue : queue[k] = queue'[i]
        BY <1>0, <1>4, <2>3 DEF Queueing, Once
      <4>2. ASSUME NEW k \in DOMAIN queue, queue[k] # h PROVE \E i \in DOMAIN queue' : queue'[i] = queue[k]
        BY <1>4, <2>4, <4>2
      <4> QED
        BY <4>1, <4>2
    <3> QED
      BY <1>6, <1>8, <3>1, <3>2
  <2> QED
    BY <2>1, <2>5, <2>6 DEF Queueing
<1>14. Running'
  <2>1. \A s \in Slots : jobs[s].state # "RUNNING"
    BY <1>0, <1>1 DEF Running, Busy
  <2> QED
    BY <1>1, <1>4, <1>6, <1>8, <2>1 DEF Running, Busy
<1>15. ASVTypeOK'
  <2>1. queue' \in Seq(Slots)
    BY <1>13 DEF Queueing
  <2> QED
    BY <1>0, <1>1, <1>4, <1>8, <2>1 DEF ASVTypeOK
<1>16. Connected' /\ Lives' /\ WorkerAwake'
  BY <1>0, <1>1, <1>2 DEF Connected, Lives, WorkerAwake
<1>17. Queueing(jobs, queue)'
  BY <1>13 DEF Queueing
<1>18. Owning(jobs, Refer)'
  BY <1>9, <1>11 DEF Owning, Used
<1>19. Asking(jobs, Refer, asker)'
  BY <1>1, <1>9, <1>12 DEF Asking, Used
<1> QED
  BY <1>14, <1>15, <1>16, <1>17, <1>18, <1>19 DEF ServerInv


\* The worker does what its job asks of the store.
LEMMA RunsKeeps ==
  ASSUME ServerInv, WorkerRuns
  PROVE  ServerInv'
<1> DEFINE j == jobs[slot]
<1>0. ASVTypeOK /\ Queueing(jobs, queue) /\ Running /\ Lives /\ Connected /\ WorkerAwake
      /\ Asking(jobs, Refer, asker)
  BY DEF ServerInv
<1>1. /\ wpc = "run" /\ wpc' = "ran"
      /\ UNCHANGED <<queue, maintenance, served, stopping, slot, row, after, epc, due, mpc, at, conns, root,
                     asker, told>>
      /\ \/ j.kind = "auth" /\ Authorize(j)
         \/ j.kind # "auth" /\ ~j.permitted /\ UNCHANGED <<store, failed, jobs>>
         \/ j.kind = "issue" /\ j.permitted /\ IssueToken(j)
         \/ j.kind = "revoke" /\ j.permitted /\ RevokeToken(j)
         \/ j.kind # "auth" /\ j.permitted /\ Unanswerable
  BY DEF WorkerRuns, history
<1>2. mpc # "stopped" /\ mpc # "init"
  BY <1>0, <1>1 DEF Lives
<1>3. /\ slot \in Slots /\ j.state = "RUNNING" /\ j \in Job /\ Used(jobs, slot) /\ j.token \in Tokens
      /\ jobs \in [Slots -> Job \cup {Free}]
  <2>1. slot \in Slots /\ j.state = "RUNNING"
    BY <1>0, <1>1 DEF Running, Busy
  <2>2. Used(jobs, slot)
    BY <2>1 DEF Used
  <2> QED
    BY <1>0, <2>1, <2>2 DEF ASVTypeOK, Free, Asking
<1> HIDE DEF j
<1>4. /\ poisoned' \in BOOLEAN /\ failed' \in BOOLEAN
      /\ token' \in [Tokens -> {"unissued", "active", "revoked", "expired"}]
      /\ rows' \subseteq {t \in Tokens : token'[t] = "revoked"}
  <2>1. /\ poisoned \in BOOLEAN /\ failed \in BOOLEAN
        /\ token \in [Tokens -> {"unissued", "active", "revoked", "expired"}]
        /\ rows \subseteq {t \in Tokens : token[t] = "revoked"}
    BY <1>0 DEF ASVTypeOK
  <2>2. CASE Authorize(j)
    <3>1. token' = token /\ rows' = rows /\ failed' = failed /\ (poisoned' = poisoned \/ poisoned' = TRUE)
      BY <2>2 DEF Authorize
    <3>2. poisoned' \in BOOLEAN /\ failed' \in BOOLEAN
      BY <2>1, <3>1, Zenon
    <3>3. rows' \subseteq {t \in Tokens : token'[t] = "revoked"}
      BY <2>1, <3>1
    <3> QED
      BY <2>1, <3>1, <3>2, <3>3
  <2>3. CASE IssueToken(j)
    <3>1. /\ failed' = failed /\ (poisoned' = poisoned \/ poisoned' = TRUE)
          /\ \/ token' = token /\ rows' = rows
             \/ token' = [token EXCEPT ![j.token] = "active"] /\ token[j.token] = "unissued" /\ rows' = rows
             \/ token' = [token EXCEPT ![j.token] = "revoked"] /\ rows' = rows \cup {j.token}
      BY <2>3 DEF IssueToken
    <3>2. poisoned' \in BOOLEAN /\ failed' \in BOOLEAN
      BY <2>1, <3>1, Zenon
    <3>3. token' \in [Tokens -> {"unissued", "active", "revoked", "expired"}]
      BY <1>3, <2>1, <3>1
    <3>4. rows' \subseteq {t \in Tokens : token'[t] = "revoked"}
      BY <1>3, <2>1, <3>1
    <3> QED
      BY <3>2, <3>3, <3>4
  <2>4. CASE RevokeToken(j)
    <3>1. /\ failed' = failed /\ (poisoned' = poisoned \/ poisoned' = TRUE)
          /\ \/ token' = token /\ rows' = rows
             \/ token' = [token EXCEPT ![j.token] = "revoked"] /\ rows' = rows \cup {j.token}
      BY <2>4 DEF RevokeToken
    <3>2. poisoned' \in BOOLEAN /\ failed' \in BOOLEAN
      BY <2>1, <3>1, Zenon
    <3>3. token' \in [Tokens -> {"unissued", "active", "revoked", "expired"}]
      BY <1>3, <2>1, <3>1
    <3>4. rows' \subseteq {t \in Tokens : token'[t] = "revoked"}
      BY <1>3, <2>1, <3>1
    <3> QED
      BY <3>2, <3>3, <3>4
  <2> QED
    BY <1>1, <2>1, <2>2, <2>3, <2>4 DEF Unanswerable, store
\* What becomes of the job.
<1>5. \E v \in Job :
         /\ jobs' = [jobs EXCEPT ![slot] = v]
         /\ v.state = j.state /\ v.id = j.id /\ v.cancelled = j.cancelled /\ v.kind = j.kind /\ v.token = j.token
         /\ v.code = j.code \/ (j.kind = "issue" /\ v.code = j.token)
  <2>1. jobs[slot] = j
    BY DEF j
  <2>2. CASE jobs' = jobs
    <3>1. jobs' = [jobs EXCEPT ![slot] = j]
      BY <1>3, <2>1, <2>2
    <3> QED
      BY <1>3, <3>1
  <2>3. CASE \E g \in BOOLEAN : jobs' = [jobs EXCEPT ![slot].granted = g]
    <3>1. PICK g \in BOOLEAN : jobs' = [jobs EXCEPT ![slot].granted = g]
      BY <2>3
    <3> DEFINE v == [j EXCEPT !.granted = g]
    <3>2. /\ v \in Job /\ v.state = j.state /\ v.id = j.id /\ v.cancelled = j.cancelled /\ v.kind = j.kind
          /\ v.token = j.token /\ v.code = j.code
      BY <1>3 DEF Job
    <3>3. jobs' = [jobs EXCEPT ![slot] = v]
      BY <1>3, <2>1, <3>1
    <3> HIDE DEF v
    <3> QED
      BY <3>2, <3>3
  <2>4. CASE j.kind = "issue" /\ jobs' = [jobs EXCEPT ![slot].code = j.token]
    <3> DEFINE v == [j EXCEPT !.code = j.token]
    <3>0. j.token \in 0..NTokens
      BY <1>3 DEF Job
    <3>1. /\ v \in Job /\ v.state = j.state /\ v.id = j.id /\ v.cancelled = j.cancelled /\ v.kind = j.kind
          /\ v.token = j.token /\ v.code = j.token
      BY <1>3, <3>0 DEF Job
    <3>2. jobs' = [jobs EXCEPT ![slot] = v]
      BY <1>3, <2>1, <2>4
    <3> HIDE DEF v
    <3> QED
      BY <2>4, <3>1, <3>2
  <2>5. CASE Authorize(j)
    BY <2>2, <2>3, <2>5 DEF Authorize
  <2>6. CASE j.kind = "issue" /\ IssueToken(j)
    BY <2>2, <2>4, <2>6 DEF IssueToken
  <2>7. CASE RevokeToken(j) \/ Unanswerable
    BY <2>2, <2>7 DEF RevokeToken, Unanswerable
  <2> QED
    BY <1>1, <2>2, <2>5, <2>6, <2>7
<1>6. PICK v \in Job :
         /\ jobs' = [jobs EXCEPT ![slot] = v]
         /\ v.state = j.state /\ v.id = j.id /\ v.cancelled = j.cancelled /\ v.kind = j.kind /\ v.token = j.token
         /\ v.code = j.code \/ (j.kind = "issue" /\ v.code = j.token)
  BY <1>5
<1>7. /\ jobs' \in [Slots -> Job \cup {Free}]
      /\ jobs'[slot] = v /\ \A s \in Slots : s # slot => jobs'[s] = jobs[s]
  BY <1>3, <1>6
<1>8. \A s \in Slots : /\ jobs'[s].state = jobs[s].state /\ jobs'[s].id = jobs[s].id
                       /\ jobs'[s].cancelled = jobs[s].cancelled /\ jobs'[s].kind = jobs[s].kind
                       /\ jobs'[s].token = jobs[s].token
                       /\ \/ jobs'[s].code = jobs[s].code
                          \/ jobs[s].kind = "issue" /\ jobs'[s].code = jobs[s].token
  BY <1>6, <1>7 DEF j
<1>9. Refer' = Refer
  BY <1>1, ReferStays
<1>10. Queueing(jobs, queue)'
  BY <1>0, <1>1, <1>8 DEF Queueing, Once
<1>11. Owning(jobs', Refer)
  BY <1>2, <1>8, OwnersKeep DEF ServerInv, Used
<1>12. Owning(jobs, Refer)'
  BY <1>9, <1>11 DEF Owning, Used
<1>13. Asking(jobs, Refer, asker)'
  BY <1>0, <1>1, <1>8, <1>9 DEF Asking, Used
<1>14. Running'
  BY <1>0, <1>1, <1>8 DEF Running, Busy
<1>15. ASVTypeOK'
  BY <1>0, <1>1, <1>4, <1>7 DEF ASVTypeOK
<1>16. Connected' /\ Lives' /\ WorkerAwake'
  BY <1>0, <1>1, <1>2 DEF Connected, Lives, WorkerAwake
<1> QED
  BY <1>10, <1>12, <1>13, <1>14, <1>15, <1>16 DEF ServerInv

\* The worker hands its job over, or clears the slot of a job nobody wants.
LEMMA EndsKeeps ==
  ASSUME ServerInv, WorkerEnds
  PROVE  ServerInv'
<1> DEFINE j == jobs[slot]
           v == IF j.cancelled THEN Free ELSE [j EXCEPT !.state = "DONE"]
<1>0. ASVTypeOK /\ Queueing(jobs, queue) /\ Running /\ Lives /\ Connected /\ WorkerAwake
      /\ Asking(jobs, Refer, asker)
  BY DEF ServerInv
<1>1. /\ wpc = "ran" /\ wpc' = "loop" /\ slot' = 0 /\ jobs' = [jobs EXCEPT ![slot] = v]
      /\ UNCHANGED <<queue, maintenance, served, stopping, failed, row, after, epc, token, rows, poisoned, due,
                     mpc, at, conns, root, asker, told>>
  BY DEF WorkerEnds, history, store
<1>2. mpc # "stopped" /\ mpc # "init"
  BY <1>0, <1>1 DEF Lives
<1>3. /\ slot \in Slots /\ j.state = "RUNNING" /\ j \in Job /\ Used(jobs, slot)
      /\ jobs \in [Slots -> Job \cup {Free}]
  <2>1. slot \in Slots /\ j.state = "RUNNING"
    BY <1>0, <1>1 DEF Running, Busy
  <2> QED
    BY <1>0, <2>1 DEF ASVTypeOK, Free, Used
<1> HIDE DEF j
<1>4. \/ j.cancelled /\ v = Free
      \/ /\ ~j.cancelled /\ v \in Job /\ v.state = "DONE" /\ v.id = j.id /\ v.cancelled = j.cancelled
         /\ v.kind = j.kind /\ v.token = j.token /\ v.code = j.code
  BY <1>3 DEF Job
<1> HIDE DEF v
<1>5. /\ jobs' \in [Slots -> Job \cup {Free}]
      /\ jobs'[slot] = v /\ \A s \in Slots : s # slot => jobs'[s] = jobs[s]
  BY <1>1, <1>3, <1>4
<1>6. Refer' = Refer
  BY <1>1, ReferStays
<1>7. v.state # "QUEUED" /\ v.state # "RUNNING"
  BY <1>4, FreeIsNone
<1>8. \A s \in Slots : s # slot => jobs[s].state # "RUNNING"
  BY <1>0, <1>1 DEF Running, Busy
<1>9. Queueing(jobs, queue)'
  <2>1. \A s \in Slots : jobs'[s].state = "QUEUED" <=> jobs[s].state = "QUEUED"
    BY <1>3, <1>5, <1>7 DEF j
  <2> QED
    BY <1>0, <1>1, <2>1 DEF Queueing, Once
<1>10. Owning(jobs', Refer)
  <2>1. /\ Used(jobs', slot) => ~j.cancelled /\ v = jobs'[slot]
        /\ ~j.cancelled => Used(jobs', slot)
    BY <1>4, <1>5, FreeIsNone DEF Used
  <2>2. \A s \in Slots : Used(jobs', s) =>
            /\ Used(jobs, s) /\ jobs'[s].id = jobs[s].id /\ jobs'[s].cancelled = jobs[s].cancelled
            /\ jobs[s].cancelled /\ jobs[s].state = "RUNNING" => jobs'[s].state = "RUNNING"
    <3> SUFFICES ASSUME NEW s \in Slots, Used(jobs', s)
                 PROVE  /\ Used(jobs, s) /\ jobs'[s].id = jobs[s].id /\ jobs'[s].cancelled = jobs[s].cancelled
                        /\ jobs[s].cancelled /\ jobs[s].state = "RUNNING" => jobs'[s].state = "RUNNING"
      OBVIOUS
    <3>1. CASE s = slot
      BY <1>3, <1>4, <1>5, <2>1, <3>1 DEF j
    <3>2. CASE s # slot
      BY <1>5, <3>2 DEF Used
    <3> QED
      BY <3>1, <3>2
  <2>3. \A s \in Slots : Used(jobs, s) /\ ~jobs[s].cancelled => Used(jobs', s)
    BY <1>5, <2>1 DEF Used, j
  <2>4. Owning(jobs, Refer)
    BY <1>2 DEF ServerInv
  <2> QED
    BY <2>2, <2>3, <2>4, OwnersKeep
<1>11. Owning(jobs, Refer)'
  BY <1>6, <1>10 DEF Owning, Used
<1>12. Asking(jobs', Refer, asker)
  <2>1. Used(jobs', slot) => ~j.cancelled
    BY <1>4, <1>5, FreeIsNone DEF Used
  <2>2. Shrunk(jobs', jobs)
    <3> SUFFICES ASSUME NEW s \in Slots, Used(jobs', s)
                 PROVE  /\ Used(jobs, s) /\ jobs'[s].id = jobs[s].id /\ jobs'[s].kind = jobs[s].kind
                        /\ jobs'[s].token = jobs[s].token /\ jobs'[s].code = jobs[s].code
                        /\ ~jobs'[s].cancelled => ~jobs[s].cancelled
      BY DEF Shrunk
    <3>1. CASE s = slot
      BY <1>3, <1>4, <1>5, <2>1, <3>1 DEF j
    <3>2. CASE s # slot
      BY <1>5, <3>2 DEF Used
    <3> QED
      BY <3>1, <3>2
  <2> QED
    BY <1>0, <1>3, <1>5, <2>2, StillAsking
<1>13. Asking(jobs, Refer, asker)'
  BY <1>1, <1>6, <1>12 DEF Asking, Used
<1>14. Running'
  BY <1>1, <1>5, <1>7, <1>8 DEF Running, Busy
<1>15. ASVTypeOK'
  BY <1>0, <1>1, <1>5 DEF ASVTypeOK
<1>16. Connected' /\ Lives' /\ WorkerAwake'
  BY <1>0, <1>1, <1>2 DEF Connected, Lives, WorkerAwake
<1> QED
  BY <1>9, <1>11, <1>13, <1>14, <1>15, <1>16 DEF ServerInv


-----------------------------------------------------------------------------
(* Requests. *)

\* One owner's reference changes.
LEMMA ReferBecomes ==
  ASSUME NEW o \in Owners, NEW i,
         root' = (IF o = Local THEN i ELSE root),
         \A c \in Conns : /\ conns'[c].auth = (IF o = AuthOf(c) THEN i ELSE conns[c].auth)
                          /\ conns'[c].admin = (IF o = AdminOf(c) THEN i ELSE conns[c].admin)
  PROVE  Refer' = [Refer EXCEPT ![o] = i]
<1> DEFINE g == [Refer EXCEPT ![o] = i]
<1>1. Refer' = [p \in Owners |-> IF p.field = "auth" THEN conns'[p.conn].auth
                                ELSE IF p.field = "admin" THEN conns'[p.conn].admin ELSE root']
  BY DEF Refer
<1>2. Refer = [p \in Owners |-> Refer[p]]
  BY References
<1>3. g = [p \in Owners |-> g[p]] /\ g[o] = i /\ \A p \in Owners : p # o => g[p] = Refer[p]
  BY <1>2
<1> HIDE DEF g
<1>4. ASSUME NEW p \in Owners PROVE Refer'[p] = g[p]
  <2>1. CASE p = Local
    <3>1. Refer'[p] = root'
      BY <1>1, <2>1 DEF Local
    <3> QED
      BY <1>3, <2>1, <3>1, References
  <2>2. ASSUME NEW c \in Conns, p = AuthOf(c) PROVE Refer'[p] = g[p]
    <3>1. Refer'[p] = conns'[c].auth
      BY <1>1, <2>2 DEF AuthOf
    <3> QED
      BY <1>3, <2>2, <3>1, References
  <2>3. ASSUME NEW c \in Conns, p = AdminOf(c) PROVE Refer'[p] = g[p]
    <3>1. Refer'[p] = conns'[c].admin
      BY <1>1, <2>3 DEF AdminOf
    <3> QED
      BY <1>3, <2>3, <3>1, References
  <2> QED
    BY <2>1, <2>2, <2>3, OwnerNames
<1>5. Refer' = [p \in Owners |-> Refer'[p]]
  BY <1>1
<1> QED
  BY <1>3, <1>4, <1>5 DEF g

LEMMA ReferType ==
  ASSUME ASVTypeOK
  PROVE  Refer \in [Owners -> Ids \cup {0}]
<1>1. conns \in [Conns -> Conn] /\ root \in Ids \cup {0}
  BY DEF ASVTypeOK
<1>2. \A c \in Conns : conns[c].auth \in Ids \cup {0} /\ conns[c].admin \in Ids \cup {0}
  BY <1>1 DEF Conn
<1>3. ASSUME NEW o \in Owners PROVE Refer[o] \in Ids \cup {0}
  <2>1. CASE o = Local
    BY <1>1, <2>1, References
  <2>2. ASSUME NEW c \in Conns, o = AuthOf(c) \/ o = AdminOf(c) PROVE Refer[o] \in Ids \cup {0}
    BY <1>2, <2>2, References
  <2> QED
    BY <2>1, <2>2, OwnerNames
<1> QED
  BY <1>3, References

\* The first free slot.
LEMMA FirstFree ==
  ASSUME FreeSlots # {}
  PROVE  (CHOOSE x \in FreeSlots : \A y \in FreeSlots : x <= y) \in FreeSlots
<1>1. NSlots \in Nat /\ FreeSlots \in SUBSET (1..NSlots)
  BY Numbers DEF FreeSlots, Slots
<1> HIDE DEF FreeSlots
<1> QED
  BY ONLY <1>1, FreeSlots # {}, Smallest

\* submit() for the owner o, who waits for nothing yet.
LEMMA SubmitKeeps ==
  ASSUME ServerInv, mpc = "loop", mpc' = "loop", Accepts, NEW o \in Owners, Refer[o] = 0,
         NEW kind \in AdminKinds \cup {"auth"}, NEW t \in Tokens, NEW permitted \in BOOLEAN,
         Submit(NewId, kind, t, permitted),
         Refer' = [Refer EXCEPT ![o] = NewId],
         \A c \in Conns : kind = "issue" /\ o = AdminOf(c) => asker'[t] = c,
         \A u \in Tokens : asker[u] \in Conns => asker'[u] = asker[u],
         slot' = slot
  PROVE  /\ jobs' \in [Slots -> Job \cup {Free}] /\ queue' \in Seq(Slots)
         /\ Queueing(jobs, queue)' /\ (mpc # "stopped" => Owning(jobs, Refer))'
         /\ Asking(jobs, Refer, asker)' /\ Running' /\ wpc' # "waiting"
         /\ wpc' \in {"none", "loop", "waiting", "maintain", "route", "run", "ran", "exited"}
         /\ NewId \in Ids
<1> DEFINE s == CHOOSE x \in FreeSlots : \A y \in FreeSlots : x <= y
           j == [id |-> NewId, state |-> "QUEUED", kind |-> kind, permitted |-> permitted, cancelled |-> FALSE,
                 token |-> t, granted |-> FALSE, code |-> 0]
           id == NewId
           g == [Refer EXCEPT ![o] = id]
<1>0. ASVTypeOK /\ Queueing(jobs, queue) /\ Running /\ Owning(jobs, Refer) /\ Asking(jobs, Refer, asker)
  BY DEF ServerInv
<1>1. id \in Ids /\ id \notin Refs /\ \A x \in Slots : Used(jobs, x) => jobs[x].id # id
  BY IdsLeft
<1>2. jobs' = [jobs EXCEPT ![s] = j] /\ queue' = Append(queue, s) /\ Signal
  BY DEF Submit
<1>3. s \in Slots /\ ~Used(jobs, s)
  <2>1. s \in FreeSlots
    BY FirstFree DEF Accepts
  <2> QED
    BY <2>1 DEF FreeSlots, InUse, Used
<1> HIDE DEF s
<1> HIDE DEF id
<1>4. j \in Job /\ j.id = id /\ j.state = "QUEUED" /\ ~j.cancelled /\ j.kind = kind /\ j.token = t /\ j.code = 0
  <2>1. 0 \in 0..NTokens /\ t \in 0..NTokens
    BY Numbers DEF Tokens
  <2> QED
    BY <1>1, <2>1 DEF Job, id
<1> HIDE DEF j
<1>5. \A p \in Owners : Refer[p] # id
  BY <1>1, RefsAre
<1>6. Refer \in [Owners -> Ids \cup {0}] /\ jobs \in [Slots -> Job \cup {Free}]
  BY <1>0, ReferType DEF ASVTypeOK
<1>7. Refer' = g
  BY DEF id
<1>8. /\ jobs' \in [Slots -> Job \cup {Free}] /\ Queueing(jobs', queue') /\ Owning(jobs', Refer')
      /\ \A x \in Slots : jobs'[x].state = "RUNNING" <=> jobs[x].state = "RUNNING"
  <2>1. Queueing(jobs, queue) /\ Owning(jobs, Refer) /\ Refer \in [Owners -> Ids \cup {0}] /\ Refer[o] = 0
    BY <1>0, <1>6
  <2>2. Fresh(jobs, Refer, j.id)
    BY <1>1, <1>4, <1>5 DEF Fresh
  <2>3. j \in Job /\ j.state = "QUEUED" /\ ~j.cancelled /\ s \in Slots /\ ~Used(jobs, s) /\ o \in Owners
        /\ jobs \in [Slots -> Job \cup {Free}]
    BY <1>3, <1>4, <1>6
  <2>4. /\ Refer' = [Refer EXCEPT ![o] = j.id] /\ Differs(Refer', Refer, Owners, o, j.id)
        /\ Differs(jobs', jobs, Slots, s, j) /\ queue' = Append(queue, s)
        /\ jobs' \in [Slots -> Job \cup {Free}]
    BY <1>2, <1>4, <1>7, <2>1, <2>3 DEF Differs
  <2>5. Queueing(jobs', Append(queue, s))
    BY ONLY <2>1, <2>2, <2>3, <2>4, Submits
  <2>6. Owning(jobs', Refer')
    BY ONLY <2>1, <2>2, <2>3, <2>4, Submits
  <2>7. \A x \in Slots : jobs'[x].state = "RUNNING" <=> jobs[x].state = "RUNNING"
    BY <1>3, <1>4, <2>4 DEF Differs, Used
  <2> QED
    BY <2>4, <2>5, <2>6, <2>7
<1>9. jobs'[s] = j /\ \A x \in Slots : x # s => jobs'[x] = jobs[x]
  BY <1>2, <1>3, <1>6
<1>10. Asking(jobs', Refer', asker')
  <2>1. ASSUME NEW x \in Slots, Used(jobs', x)
        PROVE  jobs'[x].token \in Tokens
               /\ (jobs'[x].code # 0 => jobs'[x].kind = "issue" /\ jobs'[x].code = jobs'[x].token)
    <3>1. CASE x = s
      BY <1>4, <1>9, <3>1
    <3>2. CASE x # s
      BY <1>0, <1>9, <2>1, <3>2 DEF Asking, Used
    <3> QED
      BY <3>1, <3>2
  <2>2. ASSUME NEW x \in Slots, NEW c \in Conns, Used(jobs', x), ~jobs'[x].cancelled, jobs'[x].kind = "issue",
               jobs'[x].id = Refer'[AdminOf(c)]
        PROVE  asker'[jobs'[x].token] = c
    <3>0. AdminOf(c) \in Owners
      BY OwnerNames
    <3>g. g[o] = id /\ \A p \in Owners : p # o => g[p] = Refer[p]
      BY <1>6
    <3>1. CASE x = s
      <4>1. Refer'[AdminOf(c)] = id
        BY <1>4, <1>9, <2>2, <3>1
      <4>2. AdminOf(c) = o
        BY <1>5, <1>7, <3>0, <3>g, <4>1
      <4> QED
        BY <1>4, <1>9, <2>2, <3>1, <4>2
    <3>2. CASE x # s
      <4>1. jobs'[x] = jobs[x] /\ Used(jobs, x) /\ jobs[x].id # id
        BY <1>1, <1>9, <2>2, <3>2 DEF Used
      <4>2. Refer'[AdminOf(c)] = Refer[AdminOf(c)]
        BY <1>7, <2>2, <3>0, <3>g, <4>1
      <4>3. asker[jobs[x].token] = c /\ jobs[x].token \in Tokens
        BY <1>0, <2>2, <4>1, <4>2 DEF Asking
      <4> QED
        BY <4>1, <4>3
    <3> QED
      BY <3>1, <3>2
  <2> QED
    BY <2>1, <2>2 DEF Asking
<1>11. /\ wpc' # "waiting" /\ (wpc \in Busy <=> wpc' \in Busy)
       /\ wpc' \in {"none", "loop", "waiting", "maintain", "route", "run", "ran", "exited"}
  BY <1>0, <1>2 DEF Signal, Busy, ASVTypeOK
<1>12. Running'
  BY <1>0, <1>8, <1>11 DEF Running
<1>13. queue' \in Seq(Slots)
  BY <1>8 DEF Queueing
<1>14. Queueing(jobs, queue)' /\ Owning(jobs, Refer)' /\ Asking(jobs, Refer, asker)'
  BY <1>8, <1>10 DEF Queueing, Owning, Asking, Used, Once
<1> QED
  BY <1>1, <1>8, <1>11, <1>12, <1>13, <1>14 DEF id


\* socket_command_access_auth()
LEMMA AuthKeeps ==
  ASSUME ServerInv, NEW c \in Conns, NEW t \in Codes, AccessAuth(c, t)
  PROVE  ServerInv'
<1>0. ASVTypeOK /\ WorkerAwake /\ Connected /\ Lives /\ conns \in [Conns -> Conn] /\ conns[c] \in Conn
  BY DEF ServerInv, ASVTypeOK
<1>1. /\ UNCHANGED <<root, asker, told, slot, maintenance, stopping, served, failed, row, after, epc, token, rows,
                     poisoned, due, mpc, at>>
      /\ mpc = "loop" /\ conns[c].state = "login" /\ ~conns[c].attempted
  BY DEF AccessAuth, Main, store, history
<1>2. CASE /\ Accepts /\ Submit(NewId, "auth", t, FALSE)
           /\ conns' = [conns EXCEPT ![c].attempted = TRUE, ![c].auth = NewId]
  <2> DEFINE v == [conns[c] EXCEPT !.attempted = TRUE, !.auth = NewId]
  <2>0. NewId \in Ids
    BY <1>1, IdsLeft
  <2>1. v \in Conn /\ v.auth = NewId /\ v.admin = conns[c].admin /\ v.attempted /\ v.state = "login"
    BY <1>0, <1>1, <2>0 DEF Conn
  <2>2. conns' = [conns EXCEPT ![c] = v]
    BY <1>0, <1>2
  <2> HIDE DEF v
  <2>3. /\ conns' \in [Conns -> Conn] /\ conns'[c] = v
        /\ \A d \in Conns : d # c => conns'[d] = conns[d]
    BY <1>0, <2>1, <2>2
  <2>4. AuthOf(c) \in Owners /\ Refer[AuthOf(c)] = 0
    BY <1>0, <1>1, OwnerNames, References DEF Connected
  <2>5. Refer' = [Refer EXCEPT ![AuthOf(c)] = NewId]
    <3>1. root' = IF AuthOf(c) = Local THEN NewId ELSE root
      BY <1>1, OwnerNames
    <3>2. \A d \in Conns : /\ conns'[d].auth = (IF AuthOf(c) = AuthOf(d) THEN NewId ELSE conns[d].auth)
                           /\ conns'[d].admin = (IF AuthOf(c) = AdminOf(d) THEN NewId ELSE conns[d].admin)
      BY <2>1, <2>3, OwnerNames
    <3> QED
      BY <2>4, <3>1, <3>2, ReferBecomes
  <2>6. /\ jobs' \in [Slots -> Job \cup {Free}] /\ queue' \in Seq(Slots)
        /\ Queueing(jobs, queue)' /\ (mpc # "stopped" => Owning(jobs, Refer))'
        /\ Asking(jobs, Refer, asker)' /\ Running' /\ wpc' # "waiting"
        /\ wpc' \in {"none", "loop", "waiting", "maintain", "route", "run", "ran", "exited"}
    <3>1. t \in Tokens /\ "auth" \in AdminKinds \cup {"auth"} /\ FALSE \in BOOLEAN
      BY TokensAssumption
    <3>2. \A d \in Conns : "auth" = "issue" /\ AuthOf(c) = AdminOf(d) => asker'[t] = d
      BY OwnerNames
    <3>3. \A u \in Tokens : asker[u] \in Conns => asker'[u] = asker[u]
      BY <1>1
    <3> QED
      BY <1>1, <1>2, <2>4, <2>5, <3>1, <3>2, <3>3, SubmitKeeps, ZenonT(60)
  <2>7. ASVTypeOK'
    BY <1>0, <1>1, <2>3, <2>6 DEF ASVTypeOK
  <2>8. Connected'
    BY <1>0, <2>1, <2>3 DEF Connected
  <2>9. Lives' /\ WorkerAwake'
    BY <1>0, <1>1, <2>6 DEF Lives, WorkerAwake, Polling
  <2> QED
    BY <2>6, <2>7, <2>8, <2>9 DEF ServerInv
<1>3. CASE /\ conns' = [conns EXCEPT ![c].attempted = TRUE, ![c].state = "zombie"]
           /\ UNCHANGED <<jobs, queue, wpc>>
  <2> DEFINE v == [conns[c] EXCEPT !.attempted = TRUE, !.state = "zombie"]
  <2>1. v \in Conn /\ v.auth = conns[c].auth /\ v.admin = conns[c].admin /\ v.attempted /\ v.state = "zombie"
    BY <1>0 DEF Conn
  <2>2. conns' = [conns EXCEPT ![c] = v]
    BY <1>0, <1>3
  <2> HIDE DEF v
  <2>3. /\ conns' \in [Conns -> Conn] /\ conns'[c] = v
        /\ \A d \in Conns : d # c => conns'[d] = conns[d]
    BY <1>0, <2>1, <2>2
  <2>4. ASVTypeOK'
    BY <1>0, <1>1, <1>3, <2>3 DEF ASVTypeOK
  <2>5. Connected'
    BY <1>0, <2>1, <2>3 DEF Connected
  <2>6. WorkerAwake'
    BY <1>0, <1>1, <1>3 DEF WorkerAwake, Queued
  <2>7. \A d \in Conns : conns'[d].auth = conns[d].auth /\ conns'[d].admin = conns[d].admin
    BY <2>1, <2>3
  <2> QED
    BY <1>1, <1>3, <2>4, <2>5, <2>6, <2>7, Elsewhere DEF Polling
<1> QED
  BY <1>2, <1>3 DEF AccessAuth

\* socket_command_access_admin()
LEMMA AdminKeeps ==
  ASSUME ServerInv, NEW c \in Conns, NEW t \in Tokens, NEW kind \in Kinds, AccessAdmin(c, kind, t)
  PROVE  ServerInv'
<1>0. ASVTypeOK /\ WorkerAwake /\ Connected /\ Lives /\ conns \in [Conns -> Conn] /\ conns[c] \in Conn
  BY DEF ServerInv, ASVTypeOK
<1>1. /\ UNCHANGED <<root, told, slot, maintenance, stopping, served, failed, row, after, epc, token, rows,
                     poisoned, due, mpc, at>>
      /\ mpc = "loop" /\ conns[c].state = "playing"
      /\ kind = "issue" => asker[t] = NoConn
  BY DEF AccessAdmin, Main, store
<1>2. CASE /\ conns[c].admin = 0 /\ Accepts
           /\ Submit(NewId, kind, t, conns[c].permitted)
           /\ conns' = [conns EXCEPT ![c].admin = NewId]
           /\ asker' = IF kind = "issue" THEN [asker EXCEPT ![t] = c] ELSE asker
  <2> DEFINE v == [conns[c] EXCEPT !.admin = NewId]
  <2>0. NewId \in Ids
    BY <1>1, IdsLeft
  <2>1. v \in Conn /\ v.auth = conns[c].auth /\ v.admin = NewId /\ v.attempted = conns[c].attempted
        /\ v.state = "playing" /\ conns[c].permitted \in BOOLEAN
    BY <1>0, <1>1, <2>0 DEF Conn
  <2>2. conns' = [conns EXCEPT ![c] = v]
    BY <1>0, <1>2
  <2> HIDE DEF v
  <2>3. /\ conns' \in [Conns -> Conn] /\ conns'[c] = v
        /\ \A d \in Conns : d # c => conns'[d] = conns[d]
    BY <1>0, <2>1, <2>2
  <2>4. AdminOf(c) \in Owners /\ Refer[AdminOf(c)] = 0
    BY <1>2, OwnerNames, References
  <2>5. Refer' = [Refer EXCEPT ![AdminOf(c)] = NewId]
    <3>1. root' = IF AdminOf(c) = Local THEN NewId ELSE root
      BY <1>1, OwnerNames
    <3>2. \A d \in Conns : /\ conns'[d].auth = (IF AdminOf(c) = AuthOf(d) THEN NewId ELSE conns[d].auth)
                           /\ conns'[d].admin = (IF AdminOf(c) = AdminOf(d) THEN NewId ELSE conns[d].admin)
      BY <2>1, <2>3, OwnerNames
    <3> QED
      BY <2>4, <3>1, <3>2, ReferBecomes
  <2>a. /\ asker \in [Tokens -> Conns \cup {NoConn}] /\ NoConn \notin Conns
        /\ told \in [Tokens -> SUBSET Conns]
    BY <1>0, OwnerAssumption DEF Lives
  <2>6. /\ jobs' \in [Slots -> Job \cup {Free}] /\ queue' \in Seq(Slots)
        /\ Queueing(jobs, queue)' /\ (mpc # "stopped" => Owning(jobs, Refer))'
        /\ Asking(jobs, Refer, asker)' /\ Running' /\ wpc' # "waiting"
        /\ wpc' \in {"none", "loop", "waiting", "maintain", "route", "run", "ran", "exited"}
    <3>1. kind \in AdminKinds \cup {"auth"} /\ conns[c].permitted \in BOOLEAN
      BY <2>1, AdminAssumption
    <3>2. \A d \in Conns : kind = "issue" /\ AdminOf(c) = AdminOf(d) => asker'[t] = d
      BY <1>2, <2>a, OwnerNames
    <3>3. \A u \in Tokens : asker[u] \in Conns => asker'[u] = asker[u]
      BY <1>1, <1>2, <2>a
    <3> QED
      BY <1>1, <1>2, <2>4, <2>5, <3>1, <3>2, <3>3, SubmitKeeps, ZenonT(60)
  <2>7. ASVTypeOK'
    BY <1>0, <1>1, <2>3, <2>6 DEF ASVTypeOK
  <2>8. Connected'
    BY <1>0, <2>1, <2>3 DEF Connected
  <2>9. WorkerAwake'
    BY <2>6 DEF WorkerAwake
  <2>10. Lives'
    <3>1. asker' \in [Tokens -> Conns \cup {NoConn}]
      BY <1>2, <2>a
    <3> QED
      BY <1>1, <2>a, <3>1 DEF Lives, Polling
  <2> QED
    BY <2>6, <2>7, <2>8, <2>9, <2>10 DEF ServerInv
<1>3. CASE /\ conns' = [conns EXCEPT ![c].state = "zombie"]
           /\ UNCHANGED <<jobs, queue, wpc, asker>>
  <2> DEFINE v == [conns[c] EXCEPT !.state = "zombie"]
  <2>1. v \in Conn /\ v.auth = conns[c].auth /\ v.admin = conns[c].admin /\ v.attempted = conns[c].attempted
        /\ v.state = "zombie"
    BY <1>0 DEF Conn
  <2>2. conns' = [conns EXCEPT ![c] = v]
    BY <1>0, <1>3
  <2> HIDE DEF v
  <2>3. /\ conns' \in [Conns -> Conn] /\ conns'[c] = v
        /\ \A d \in Conns : d # c => conns'[d] = conns[d]
    BY <1>0, <2>1, <2>2
  <2>4. ASVTypeOK'
    BY <1>0, <1>1, <1>3, <2>3 DEF ASVTypeOK
  <2>5. Connected'
    BY <1>0, <2>1, <2>3 DEF Connected
  <2>6. WorkerAwake'
    BY <1>0, <1>1, <1>3 DEF WorkerAwake, Queued
  <2>7. \A d \in Conns : conns'[d].auth = conns[d].auth /\ conns'[d].admin = conns[d].admin
    BY <2>1, <2>3
  <2> QED
    BY <1>1, <1>3, <2>4, <2>5, <2>6, <2>7, Elsewhere DEF Polling
<1> QED
  BY <1>2, <1>3 DEF AccessAdmin

\* A request on the local administration socket.
LEMMA RootAsks ==
  ASSUME ServerInv, NEW t \in Tokens, NEW kind \in RootKinds, RootSubmit(kind, t)
  PROVE  ServerInv'
<1>0. ASVTypeOK /\ WorkerAwake /\ Connected /\ Lives
  BY DEF ServerInv
<1>1. /\ UNCHANGED <<conns, asker, told, slot, maintenance, stopping, served, failed, row, after, epc, token, rows,
                     poisoned, due, mpc, at>>
      /\ mpc = "loop" /\ root = 0 /\ Accepts /\ Submit(NewId, kind, t, TRUE) /\ root' = NewId
  BY DEF RootSubmit, Main, store, history
<1>2. NewId \in Ids
  BY <1>1, IdsLeft
<1>3. Local \in Owners /\ Refer[Local] = 0
  BY <1>1, OwnerNames, References
<1>4. Refer' = [Refer EXCEPT ![Local] = NewId]
  <2>1. root' = IF Local = Local THEN NewId ELSE root
    BY <1>1
  <2>2. \A d \in Conns : /\ conns'[d].auth = (IF Local = AuthOf(d) THEN NewId ELSE conns[d].auth)
                         /\ conns'[d].admin = (IF Local = AdminOf(d) THEN NewId ELSE conns[d].admin)
    BY <1>1, OwnerNames
  <2> QED
    BY <1>3, <2>1, <2>2, ReferBecomes
<1>5. /\ jobs' \in [Slots -> Job \cup {Free}] /\ queue' \in Seq(Slots)
      /\ Queueing(jobs, queue)' /\ (mpc # "stopped" => Owning(jobs, Refer))'
      /\ Asking(jobs, Refer, asker)' /\ Running' /\ wpc' # "waiting"
      /\ wpc' \in {"none", "loop", "waiting", "maintain", "route", "run", "ran", "exited"}
  <2>1. kind \in AdminKinds \cup {"auth"} /\ TRUE \in BOOLEAN
    BY AdminAssumption
  <2>2. \A d \in Conns : kind = "issue" /\ Local = AdminOf(d) => asker'[t] = d
    BY OwnerNames
  <2>3. \A u \in Tokens : asker[u] \in Conns => asker'[u] = asker[u]
    BY <1>1
  <2> QED
    BY <1>1, <1>3, <1>4, <2>1, <2>2, <2>3, SubmitKeeps, ZenonT(60)
<1>6. ASVTypeOK'
  BY <1>0, <1>1, <1>2, <1>5 DEF ASVTypeOK
<1>7. Connected' /\ Lives' /\ WorkerAwake'
  BY <1>0, <1>1, <1>5 DEF Connected, Lives, WorkerAwake, Polling
<1> QED
  BY <1>5, <1>6, <1>7 DEF ServerInv


-----------------------------------------------------------------------------
(* Requests that end. *)

\* access_server_cancel() for the owner o, who no longer refers to the job.
LEMMA CancelKeeps ==
  ASSUME ServerInv, mpc # "stopped", NEW o \in Owners,
         jobs' = Cancelled(jobs, Refer[o]), queue' = Unqueued(queue, jobs, Refer[o]),
         Refer' = [Refer EXCEPT ![o] = 0], UNCHANGED <<asker, slot, wpc>>
  PROVE  /\ jobs' \in [Slots -> Job \cup {Free}] /\ queue' \in Seq(Slots)
         /\ Queueing(jobs, queue)' /\ (mpc # "stopped" => Owning(jobs, Refer))'
         /\ Asking(jobs, Refer, asker)' /\ Running' /\ (queue = <<>> => queue' = <<>>)
<1>0. ASVTypeOK /\ Queueing(jobs, queue) /\ Running /\ Owning(jobs, Refer) /\ Asking(jobs, Refer, asker)
  BY DEF ServerInv
<1>1. Refer \in [Owners -> Ids \cup {0}] /\ jobs \in [Slots -> Job \cup {Free}]
  BY <1>0, ReferType DEF ASVTypeOK
<1>2. Differs(Refer', Refer, Owners, o, 0)
  BY <1>1 DEF Differs
<1>3. jobs' \in [Slots -> Job \cup {Free}]
  BY <1>0, <1>1, <1>2, LetsGo
<1>4. Queueing(jobs', queue')
  BY <1>0, <1>1, <1>2, LetsGo
<1>5. Owning(jobs', Refer')
  BY <1>0, <1>1, <1>2, LetsGo
<1>6. Shrunk(jobs', jobs)
  BY <1>0, <1>1, <1>2, LetsGo
<1>7. \A s \in Slots : jobs'[s].state = "RUNNING" <=> jobs[s].state = "RUNNING"
  BY <1>0, <1>1, <1>2, LetsGo
<1>8. queue = <<>> => queue' = <<>>
  BY <1>0, <1>1, <1>2, LetsGo
<1>9. Asking(jobs', Refer', asker)
  <2>1. \A p \in Owners : Refer'[p] = 0 \/ Refer'[p] = Refer[p]
    BY <1>2 DEF Differs
  <2>2. \A c \in Conns, t \in Tokens : Refer'[AdminOf(c)] # 0 /\ asker[t] = c => asker[t] = c
    OBVIOUS
  <2> QED
    BY <1>0, <1>1, <1>3, <1>6, <2>1, <2>2, StillAsking
<1>10. Running'
  BY <1>0, <1>7 DEF Running
<1>11. queue' \in Seq(Slots)
  BY <1>4 DEF Queueing
<1>12. Queueing(jobs, queue)' /\ Owning(jobs, Refer)' /\ Asking(jobs, Refer, asker)'
  BY <1>4, <1>5, <1>9 DEF Queueing, Owning, Asking, Used, Once
<1> QED
  BY <1>3, <1>8, <1>10, <1>11, <1>12

\* The result of the job that the owner o waits for is taken.
LEMMA TakingIsCancelling ==
  ASSUME ServerInv, mpc # "stopped", NEW o \in Owners, NEW s \in SlotOf(Refer[o]), jobs[s].state = "DONE",
         jobs' = [jobs EXCEPT ![s] = Free], queue' = queue
  PROVE  jobs' = Cancelled(jobs, Refer[o]) /\ queue' = Unqueued(queue, jobs, Refer[o])
<1>1. Queueing(jobs, queue) /\ Owning(jobs, Refer) /\ ASVTypeOK
  BY DEF ServerInv
<1>2. Refer \in [Owners -> Ids \cup {0}] /\ jobs \in [Slots -> Job \cup {Free}]
  BY <1>1, ReferType DEF ASVTypeOK
<1>3. Answered(jobs, Refer, o, s)
  BY DEF SlotOf, Answered
<1>4. Taken(jobs, s) = Cancelled(jobs, Refer[o])
  BY <1>1, <1>2, <1>3, TakenIsCancelled
<1>5. Unqueued(queue, jobs, Refer[o]) = queue
  BY <1>1, <1>2, <1>3, TakenIsCancelled
<1> QED
  BY <1>4, <1>5 DEF Taken

LEMMA PollAuthKeeps ==
  ASSUME ServerInv, PollAuth
  PROVE  ServerInv'
<1> DEFINE c == conns[at]
<1>0. ASVTypeOK /\ WorkerAwake /\ Connected /\ Lives /\ conns \in [Conns -> Conn]
  BY DEF ServerInv, ASVTypeOK
<1>1. /\ mpc = "pollAuth" /\ mpc' = "pollAdmin"
      /\ UNCHANGED <<root, asker, told, slot, maintenance, stopping, served, failed, wpc, row, after, epc, token,
                     rows, poisoned, due, at>>
      /\ \/ UNCHANGED <<jobs, queue, conns>>
         \/ /\ c.auth # 0 /\ Cancel(c.auth)
            /\ conns' = [conns EXCEPT ![at].auth = 0, ![at].state = IF @ = "login" THEN "dead" ELSE @]
         \/ \E s \in SlotOf(c.auth) : \E yes \in Admits(jobs[s]) :
               /\ c.auth # 0 /\ c.state = "login" /\ jobs[s].state = "DONE"
               /\ jobs' = [jobs EXCEPT ![s] = Free] /\ queue' = queue
               /\ conns' = [conns EXCEPT ![at].auth = 0,
                                         ![at].token = IF yes THEN jobs[s].token ELSE @,
                                         ![at].state = IF yes THEN @ ELSE "zombie"]
  BY DEF PollAuth, worker, store, history
<1>2. at \in Conns /\ c \in Conn
  BY <1>0, <1>1 DEF Lives, Polling
<1>3. CASE UNCHANGED <<jobs, queue, conns>>
  <2>1. ASVTypeOK' /\ WorkerAwake' /\ Connected'
    BY <1>0, <1>1, <1>3 DEF ASVTypeOK, WorkerAwake, Queued, Connected
  <2> QED
    BY <1>1, <1>2, <1>3, <2>1, Elsewhere
\* The job of the connection ends.
<1>4. ASSUME jobs' = Cancelled(jobs, c.auth), queue' = Unqueued(queue, jobs, c.auth),
             NEW v \in Conn, conns' = [conns EXCEPT ![at] = v], v.auth = 0, v.admin = c.admin,
             v.state # "free"
      PROVE  ServerInv'
  <2>1. /\ conns' \in [Conns -> Conn] /\ conns'[at] = v
        /\ \A d \in Conns : d # at => conns'[d] = conns[d]
    BY <1>0, <1>2, <1>4
  <2>2. AuthOf(at) \in Owners /\ Refer[AuthOf(at)] = c.auth
    BY <1>2, OwnerNames, References
  <2>3. Refer' = [Refer EXCEPT ![AuthOf(at)] = 0]
    <3>1. root' = IF AuthOf(at) = Local THEN 0 ELSE root
      BY <1>1, <1>2, OwnerNames
    <3>2. \A d \in Conns : /\ conns'[d].auth = (IF AuthOf(at) = AuthOf(d) THEN 0 ELSE conns[d].auth)
                           /\ conns'[d].admin = (IF AuthOf(at) = AdminOf(d) THEN 0 ELSE conns[d].admin)
      BY <1>2, <1>4, <2>1, OwnerNames
    <3> QED
      BY <2>2, <3>1, <3>2, ReferBecomes
  <2>4. jobs' = Cancelled(jobs, Refer[AuthOf(at)]) /\ queue' = Unqueued(queue, jobs, Refer[AuthOf(at)])
    BY <1>4, <2>2
  <2>5. /\ jobs' \in [Slots -> Job \cup {Free}] /\ queue' \in Seq(Slots)
        /\ Queueing(jobs, queue)' /\ (mpc # "stopped" => Owning(jobs, Refer))'
        /\ Asking(jobs, Refer, asker)' /\ Running' /\ (queue = <<>> => queue' = <<>>)
    BY <1>1, <2>2, <2>3, <2>4, CancelKeeps
  <2>6. ASVTypeOK'
    BY <1>0, <1>1, <2>1, <2>5 DEF ASVTypeOK
  <2>7. Connected'
    BY <1>0, <1>4, <2>1 DEF Connected
  <2>8. Lives' /\ WorkerAwake'
    BY <1>0, <1>1, <1>2, <2>5 DEF Lives, WorkerAwake, Queued
  <2> QED
    BY <2>5, <2>6, <2>7, <2>8 DEF ServerInv
<1>5. CASE /\ c.auth # 0 /\ Cancel(c.auth)
           /\ conns' = [conns EXCEPT ![at].auth = 0, ![at].state = IF @ = "login" THEN "dead" ELSE @]
  <2> DEFINE v == [c EXCEPT !.auth = 0, !.state = IF c.state = "login" THEN "dead" ELSE c.state]
  <2>1. conns' = [conns EXCEPT ![at] = v]
    BY <1>0, <1>2, <1>5
  <2>2. c.state # "free"
    BY <1>0, <1>2, <1>5 DEF Connected, NoConnection
  <2>3. v \in Conn /\ v.auth = 0 /\ v.admin = c.admin /\ v.state # "free"
    BY <1>2, <2>2 DEF Conn
  <2> HIDE DEF v
  <2> QED
    BY <1>4, <1>5, <2>1, <2>3 DEF Cancel
<1>6. ASSUME NEW s \in SlotOf(c.auth), NEW yes \in Admits(jobs[s]),
             c.auth # 0, c.state = "login", jobs[s].state = "DONE",
             jobs' = [jobs EXCEPT ![s] = Free], queue' = queue,
             conns' = [conns EXCEPT ![at].auth = 0, ![at].token = IF yes THEN jobs[s].token ELSE @,
                                    ![at].state = IF yes THEN @ ELSE "zombie"]
      PROVE  ServerInv'
  <2> DEFINE v == [c EXCEPT !.auth = 0, !.token = IF yes THEN jobs[s].token ELSE c.token,
                            !.state = IF yes THEN c.state ELSE "zombie"]
  <2>1. conns' = [conns EXCEPT ![at] = v]
    BY <1>0, <1>2, <1>6
  <2>2. AuthOf(at) \in Owners /\ Refer[AuthOf(at)] = c.auth
    BY <1>2, OwnerNames, References
  <2>3. jobs[s].token \in 0..NTokens
    <3>1. s \in Slots /\ jobs[s] \in Job \cup {Free}
      BY <1>0 DEF SlotOf, ASVTypeOK
    <3> QED
      BY <1>6, <3>1, FreeIsNone
  <2>4. v \in Conn /\ v.auth = 0 /\ v.admin = c.admin /\ v.state # "free"
    BY <1>2, <1>6, <2>3 DEF Conn
  <2> HIDE DEF v
  <2>5. jobs' = Cancelled(jobs, c.auth) /\ queue' = Unqueued(queue, jobs, c.auth)
    BY <1>1, <1>6, <2>2, TakingIsCancelling
  <2> QED
    BY <1>4, <2>1, <2>4, <2>5
<1> QED
  BY <1>1, <1>3, <1>5, <1>6


LEMMA PollAdminKeeps ==
  ASSUME ServerInv, PollAdmin
  PROVE  ServerInv'
<1> DEFINE c == conns[at]
<1>0. /\ ASVTypeOK /\ WorkerAwake /\ Connected /\ Lives /\ conns \in [Conns -> Conn]
      /\ Asking(jobs, Refer, asker)
  BY DEF ServerInv, ASVTypeOK
<1>1. /\ mpc = "pollAdmin" /\ mpc' = "pollSession"
      /\ UNCHANGED <<root, asker, slot, maintenance, stopping, served, failed, wpc, row, after, epc, token,
                     rows, poisoned, due, at>>
      /\ \/ UNCHANGED <<jobs, queue, conns, told>>
         \/ /\ c.admin # 0 /\ Cancel(c.admin) /\ told' = told
            /\ conns' = [conns EXCEPT ![at].admin = 0]
         \/ \E s \in SlotOf(c.admin) :
               /\ c.admin # 0 /\ jobs[s].state = "DONE"
               /\ jobs' = [jobs EXCEPT ![s] = Free] /\ queue' = queue
               /\ told' = IF jobs[s].code # 0 /\ Discloses(at, jobs[s])
                          THEN [told EXCEPT ![jobs[s].code] = @ \cup {at}] ELSE told
               /\ conns' = [conns EXCEPT ![at].admin = 0]
  BY DEF PollAdmin, worker, store
<1>2. at \in Conns /\ c \in Conn /\ told \in [Tokens -> SUBSET Conns]
  BY <1>0, <1>1 DEF Lives, Polling
<1>3. CASE UNCHANGED <<jobs, queue, conns, told>>
  <2>1. ASVTypeOK' /\ WorkerAwake' /\ Connected'
    BY <1>0, <1>1, <1>3 DEF ASVTypeOK, WorkerAwake, Queued, Connected
  <2> QED
    BY <1>1, <1>2, <1>3, <2>1, Elsewhere
\* The job of the connection ends.
<1>4. ASSUME jobs' = Cancelled(jobs, c.admin), queue' = Unqueued(queue, jobs, c.admin),
             conns' = [conns EXCEPT ![at].admin = 0], told' \in [Tokens -> SUBSET Conns], c.admin # 0
      PROVE  ServerInv'
  <2> DEFINE v == [c EXCEPT !.admin = 0]
  <2>a. conns' = [conns EXCEPT ![at] = v]
    BY <1>0, <1>2, <1>4
  <2>b. v \in Conn /\ v.auth = c.auth /\ v.admin = 0 /\ v.state = c.state /\ v.attempted = c.attempted
    BY <1>2 DEF Conn
  <2>c. c.state # "free"
    BY <1>0, <1>2, <1>4 DEF Connected, NoConnection
  <2> HIDE DEF v
  <2>1. /\ conns' \in [Conns -> Conn] /\ conns'[at] = v
        /\ \A d \in Conns : d # at => conns'[d] = conns[d]
    BY <1>0, <1>2, <2>a, <2>b
  <2>2. AdminOf(at) \in Owners /\ Refer[AdminOf(at)] = c.admin
    BY <1>2, OwnerNames, References
  <2>3. Refer' = [Refer EXCEPT ![AdminOf(at)] = 0]
    <3>1. root' = IF AdminOf(at) = Local THEN 0 ELSE root
      BY <1>1, <1>2, OwnerNames
    <3>2. \A d \in Conns : /\ conns'[d].auth = (IF AdminOf(at) = AuthOf(d) THEN 0 ELSE conns[d].auth)
                           /\ conns'[d].admin = (IF AdminOf(at) = AdminOf(d) THEN 0 ELSE conns[d].admin)
      BY <1>2, <2>b, <2>1, OwnerNames
    <3> QED
      BY <2>2, <3>1, <3>2, ReferBecomes
  <2>4. jobs' = Cancelled(jobs, Refer[AdminOf(at)]) /\ queue' = Unqueued(queue, jobs, Refer[AdminOf(at)])
    BY <1>4, <2>2
  <2>5. /\ jobs' \in [Slots -> Job \cup {Free}] /\ queue' \in Seq(Slots)
        /\ Queueing(jobs, queue)' /\ (mpc # "stopped" => Owning(jobs, Refer))'
        /\ Asking(jobs, Refer, asker)' /\ Running' /\ (queue = <<>> => queue' = <<>>)
    BY <1>1, <2>2, <2>3, <2>4, CancelKeeps
  <2>6. ASVTypeOK'
    BY <1>0, <1>1, <2>1, <2>5 DEF ASVTypeOK
  <2>7. Connected'
    BY <1>0, <1>2, <2>b, <2>c, <2>1 DEF Connected
  <2>8. Lives' /\ WorkerAwake'
    BY <1>0, <1>1, <1>2, <1>4, <2>5 DEF Lives, WorkerAwake, Queued
  <2> QED
    BY <2>5, <2>6, <2>7, <2>8 DEF ServerInv
<1>5. CASE /\ c.admin # 0 /\ Cancel(c.admin) /\ told' = told
           /\ conns' = [conns EXCEPT ![at].admin = 0]
  BY <1>2, <1>4, <1>5 DEF Cancel
<1>6. ASSUME NEW s \in SlotOf(c.admin), c.admin # 0, jobs[s].state = "DONE",
             jobs' = [jobs EXCEPT ![s] = Free], queue' = queue,
             told' = IF jobs[s].code # 0 /\ Discloses(at, jobs[s])
                     THEN [told EXCEPT ![jobs[s].code] = @ \cup {at}] ELSE told,
             conns' = [conns EXCEPT ![at].admin = 0]
      PROVE  ServerInv'
  <2>1. AdminOf(at) \in Owners /\ Refer[AdminOf(at)] = c.admin
    BY <1>2, OwnerNames, References
  <2>2. s \in Slots /\ (jobs[s].code # 0 => jobs[s].code \in Tokens)
    BY <1>0 DEF SlotOf, InUse, Asking, Used
  <2>3. told' \in [Tokens -> SUBSET Conns]
    BY <1>2, <1>6, <2>2
  <2>4. jobs' = Cancelled(jobs, c.admin) /\ queue' = Unqueued(queue, jobs, c.admin)
    BY <1>1, <1>6, <2>1, TakingIsCancelling
  <2> QED
    BY <1>4, <1>6, <2>3, <2>4
<1> QED
  BY <1>1, <1>3, <1>5, <1>6

\* The local administration socket has its answer, or gives up.
LEMMA RootEnds ==
  ASSUME ServerInv, RootPoll \/ RootClose
  PROVE  ServerInv'
<1>0. ASVTypeOK /\ WorkerAwake /\ Connected /\ Lives
  BY DEF ServerInv
<1>1. /\ mpc = "loop" /\ mpc' = "loop" /\ root # 0 /\ root' = 0
      /\ UNCHANGED <<conns, asker, told, slot, maintenance, stopping, served, failed, wpc, row, after, epc, token,
                     rows, poisoned, due, at>>
  BY DEF RootPoll, RootClose, Main, worker, store, history
<1>2. Local \in Owners /\ Refer[Local] = root
  BY OwnerNames, References
<1>3. jobs' = Cancelled(jobs, Refer[Local]) /\ queue' = Unqueued(queue, jobs, Refer[Local])
  <2>1. CASE RootClose
    BY <1>2, <2>1 DEF RootClose, Cancel
  <2>2. CASE RootPoll
    <3>1. PICK s \in SlotOf(Refer[Local]) : jobs[s].state = "DONE" /\ jobs' = [jobs EXCEPT ![s] = Free]
      BY <1>2, <2>2 DEF RootPoll
    <3>2. queue' = queue
      BY <2>2 DEF RootPoll
    <3> QED
      BY <1>1, <1>2, <3>1, <3>2, TakingIsCancelling
  <2> QED
    BY <2>1, <2>2
<1>4. Refer' = [Refer EXCEPT ![Local] = 0]
  <2>1. root' = IF Local = Local THEN 0 ELSE root
    BY <1>1
  <2>2. \A d \in Conns : /\ conns'[d].auth = (IF Local = AuthOf(d) THEN 0 ELSE conns[d].auth)
                         /\ conns'[d].admin = (IF Local = AdminOf(d) THEN 0 ELSE conns[d].admin)
    BY <1>1, OwnerNames
  <2> QED
    BY <1>2, <2>1, <2>2, ReferBecomes
<1>5. /\ jobs' \in [Slots -> Job \cup {Free}] /\ queue' \in Seq(Slots)
      /\ Queueing(jobs, queue)' /\ (mpc # "stopped" => Owning(jobs, Refer))'
      /\ Asking(jobs, Refer, asker)' /\ Running' /\ (queue = <<>> => queue' = <<>>)
  BY <1>1, <1>2, <1>3, <1>4, CancelKeeps
<1>6. ASVTypeOK'
  BY <1>0, <1>1, <1>5 DEF ASVTypeOK
<1>7. Connected' /\ Lives' /\ WorkerAwake'
  BY <1>0, <1>1, <1>5 DEF Connected, Lives, WorkerAwake, Queued, Polling
<1> QED
  BY <1>5, <1>6, <1>7 DEF ServerInv

\* free_newsocket(): both jobs of the connection are cancelled.
LEMMA FreeKeeps ==
  ASSUME ServerInv, NEW c \in Conns, FreeSocket(c)
  PROVE  ServerInv'
<1> DEFINE js == Cancelled(jobs, conns[c].auth)
           r  == Unqueued(queue, jobs, conns[c].auth)
           g  == [Refer EXCEPT ![AuthOf(c)] = 0]
<1>0. /\ ASVTypeOK /\ WorkerAwake /\ Connected /\ Lives /\ conns \in [Conns -> Conn] /\ Running
      /\ Queueing(jobs, queue) /\ Asking(jobs, Refer, asker)
  BY DEF ServerInv, ASVTypeOK
<1>1. /\ mpc = "loop" /\ failed' \in {failed, TRUE}
      /\ jobs' = Cancelled(js, conns[c].admin) /\ queue' = Unqueued(r, js, conns[c].admin)
      /\ conns' = [conns EXCEPT ![c] = NoConnection]
      /\ asker' = [t \in Tokens |-> IF asker[t] = c THEN NoConn ELSE asker[t]]
      /\ UNCHANGED <<root, told, slot, maintenance, stopping, served, wpc, row, after, epc, token,
                     rows, poisoned, due, at, mpc>>
  BY DEF FreeSocket, Main, worker, store
<1>2. /\ Refer \in [Owners -> Ids \cup {0}] /\ jobs \in [Slots -> Job \cup {Free}] /\ Owning(jobs, Refer)
      /\ AuthOf(c) \in Owners /\ AdminOf(c) \in Owners /\ AuthOf(c) # AdminOf(c)
      /\ Refer[AuthOf(c)] = conns[c].auth /\ Refer[AdminOf(c)] = conns[c].admin
  BY <1>0, <1>1, ReferType, OwnerNames, References DEF ServerInv, ASVTypeOK
<1>3. g \in [Owners -> Ids \cup {0}] /\ Differs(g, Refer, Owners, AuthOf(c), 0) /\ g[AdminOf(c)] = conns[c].admin
  BY <1>2 DEF Differs
<1>4. js = Cancelled(jobs, Refer[AuthOf(c)]) /\ r = Unqueued(queue, jobs, Refer[AuthOf(c)])
  BY <1>2
<1> HIDE DEF js, r, g
<1>5. js \in [Slots -> Job \cup {Free}]
  BY <1>0, <1>2, <1>3, <1>4, LetsGo
<1>6. Queueing(js, r)
  BY <1>0, <1>2, <1>3, <1>4, LetsGo
<1>7. Owning(js, g)
  BY <1>0, <1>2, <1>3, <1>4, LetsGo
<1>8. Shrunk(js, jobs)
  BY <1>0, <1>2, <1>3, <1>4, LetsGo
<1>9. \A s \in Slots : js[s].state = "RUNNING" <=> jobs[s].state = "RUNNING"
  BY <1>0, <1>2, <1>3, <1>4, LetsGo
<1>10. queue = <<>> => r = <<>>
  BY <1>0, <1>2, <1>3, <1>4, LetsGo
<1>11. /\ conns' \in [Conns -> Conn] /\ conns'[c] = NoConnection
       /\ \A d \in Conns : d # c => conns'[d] = conns[d]
  <2>1. NoConnection \in Conn
    BY Numbers DEF NoConnection, Conn
  <2> QED
    BY <1>0, <1>1, <2>1
<1>12. Differs(Refer', g, Owners, AdminOf(c), 0)
  <2>1. Refer' = [p \in Owners |-> IF p.field = "auth" THEN conns'[p.conn].auth
                                  ELSE IF p.field = "admin" THEN conns'[p.conn].admin ELSE root']
    BY DEF Refer
  <2>2. Refer'[AuthOf(c)] = 0 /\ Refer'[AdminOf(c)] = 0
    <3>1. NoConnection.auth = 0 /\ NoConnection.admin = 0
      BY DEF NoConnection
    <3>2. Refer'[AuthOf(c)] = conns'[c].auth
      BY <1>2, <2>1 DEF AuthOf
    <3>3. Refer'[AdminOf(c)] = conns'[c].admin
      BY <1>2, <2>1 DEF AdminOf
    <3> QED
      BY <1>11, <3>1, <3>2, <3>3
  <2>3. ASSUME NEW p \in Owners, p # AuthOf(c), p # AdminOf(c) PROVE Refer'[p] = Refer[p]
    <3>1. CASE p = Local
      <4>1. Refer'[p] = root'
        BY <2>1, <3>1 DEF Local
      <4> QED
        BY <1>1, <3>1, <4>1, References
    <3>2. ASSUME NEW d \in Conns, p = AuthOf(d) PROVE Refer'[p] = Refer[p]
      <4>1. Refer'[p] = conns'[d].auth
        BY <2>1, <3>2 DEF AuthOf
      <4> QED
        BY <1>11, <2>3, <3>2, <4>1, References
    <3>3. ASSUME NEW d \in Conns, p = AdminOf(d) PROVE Refer'[p] = Refer[p]
      <4>1. Refer'[p] = conns'[d].admin
        BY <2>1, <3>3 DEF AdminOf
      <4> QED
        BY <1>11, <2>3, <3>3, <4>1, References
    <3> QED
      BY <3>1, <3>2, <3>3, OwnerNames
  <2>4. g[AuthOf(c)] = 0 /\ \A p \in Owners : p # AuthOf(c) => g[p] = Refer[p]
    BY <1>3 DEF Differs
  <2> QED
    BY <2>2, <2>3, <2>4 DEF Differs
<1>13. jobs' = Cancelled(js, g[AdminOf(c)]) /\ queue' = Unqueued(r, js, g[AdminOf(c)])
  BY <1>1, <1>3
<1>14. jobs' \in [Slots -> Job \cup {Free}]
  BY <1>2, <1>3, <1>5, <1>6, <1>7, <1>12, <1>13, LetsGo
<1>15. Queueing(jobs', queue')
  BY <1>2, <1>3, <1>5, <1>6, <1>7, <1>12, <1>13, LetsGo
<1>16. Owning(jobs', Refer')
  BY <1>2, <1>3, <1>5, <1>6, <1>7, <1>12, <1>13, LetsGo
<1>17. Shrunk(jobs', js)
  BY <1>2, <1>3, <1>5, <1>6, <1>7, <1>12, <1>13, LetsGo
<1>18. \A s \in Slots : jobs'[s].state = "RUNNING" <=> js[s].state = "RUNNING"
  BY <1>2, <1>3, <1>5, <1>6, <1>7, <1>12, <1>13, LetsGo
<1>19. r = <<>> => queue' = <<>>
  BY <1>2, <1>3, <1>5, <1>6, <1>7, <1>12, <1>13, LetsGo
<1>20. Asking(jobs', Refer', asker')
  <2>1. Shrunk(jobs', jobs)
    BY <1>8, <1>17 DEF Shrunk
  <2>2. \A p \in Owners : Refer'[p] = 0 \/ Refer'[p] = Refer[p]
    BY <1>3, <1>12 DEF Differs
  <2>3. \A d \in Conns, t \in Tokens : Refer'[AdminOf(d)] # 0 /\ asker[t] = d => asker'[t] = d
    <3>1. Refer'[AdminOf(c)] = 0
      BY <1>12 DEF Differs
    <3> QED
      BY <1>1, <3>1
  <2> QED
    BY <1>0, <1>2, <1>14, <2>1, <2>2, <2>3, StillAsking
<1>21. Running'
  BY <1>0, <1>1, <1>9, <1>18 DEF Running
<1>22. queue' \in Seq(Slots)
  BY <1>15 DEF Queueing
<1>23. Queueing(jobs, queue)' /\ Owning(jobs, Refer)' /\ Asking(jobs, Refer, asker)'
  BY <1>15, <1>16, <1>20 DEF Queueing, Owning, Asking, Used, Once
<1>24. failed' \in BOOLEAN
  BY <1>0, <1>1 DEF ASVTypeOK
<1>25. ASVTypeOK'
  BY <1>0, <1>1, <1>11, <1>14, <1>22, <1>24 DEF ASVTypeOK
<1>26. Connected'
  <2>1. NoConnection.auth = 0
    BY DEF NoConnection
  <2> QED
    BY <1>0, <1>11, <2>1 DEF Connected
<1>27. asker' \in [Tokens -> Conns \cup {NoConn}]
  BY <1>0, <1>1 DEF Lives
<1>28. Lives' /\ WorkerAwake'
  BY <1>0, <1>1, <1>10, <1>19, <1>27 DEF Lives, WorkerAwake, Queued, Polling
<1> QED
  BY <1>21, <1>23, <1>25, <1>26, <1>28 DEF ServerInv

\* access_server_shutdown() has joined the threads and clears every slot.
LEMMA JoinedKeeps ==
  ASSUME ServerInv, Joined
  PROVE  ServerInv'
<1>0. ASVTypeOK /\ Connected /\ Lives
  BY DEF ServerInv
<1>1. /\ mpc' = "stopped" /\ wpc = "exited" /\ jobs' = [s \in Slots |-> Free] /\ queue' = <<>>
      /\ UNCHANGED <<conns, root, asker, told, slot, maintenance, stopping, served, failed, wpc, row, after, epc,
                     token, rows, poisoned, due, at>>
  BY DEF Joined, worker, store, history
<1>2. \A s \in Slots : jobs'[s] = Free /\ jobs'[s].state = "FREE" /\ ~Used(jobs', s)
  BY <1>1, FreeIsNone DEF Used
<1>3. queue' \in Seq(Slots) /\ DOMAIN queue' = {}
  BY <1>1
<1>4. Queueing(jobs, queue)'
  BY <1>2, <1>3 DEF Queueing, Once
<1>5. Asking(jobs, Refer, asker)'
  BY <1>2 DEF Asking, Used
<1>6. Running'
  BY <1>1, <1>2 DEF Running, Busy
<1>7. ASVTypeOK'
  BY <1>0, <1>1, <1>3 DEF ASVTypeOK
<1>8. Connected' /\ Lives' /\ WorkerAwake'
  BY <1>0, <1>1 DEF Connected, Lives, WorkerAwake, Polling
<1> QED
  BY <1>1, <1>4, <1>5, <1>6, <1>7, <1>8 DEF ServerInv


-----------------------------------------------------------------------------
(* The theorems. *)

LEMMA ServerStarts == Init => ServerInv
<1> SUFFICES ASSUME Init PROVE ServerInv
  OBVIOUS
<1> USE DEF Init
<1>1. \A s \in Slots : jobs[s] = Free /\ jobs[s].state = "FREE" /\ ~Used(jobs, s)
  BY FreeIsNone DEF Used
<1>2. Refs = {0} \/ Refs \subseteq {0}
  BY DEF Refs, NoConnection
<1>3. ASVTypeOK
  <2>1. NoConnection \in Conn
    BY Numbers DEF NoConnection, Conn
  <2>2. conns \in [Conns -> Conn] /\ jobs \in [Slots -> Job \cup {Free}]
    BY <2>1
  <2>3. queue \in Seq(Slots)
    OBVIOUS
  <2>4. row \in 0..NTokens /\ after \in 0..NTokens
    BY Numbers
  <2>5. token \in [Tokens -> {"unissued", "active", "revoked", "expired"}]
    OBVIOUS
  <2> QED
    BY <2>2, <2>3, <2>4, <2>5 DEF ASVTypeOK
<1>4. Queueing(jobs, queue)
  BY <1>1 DEF Queueing, Once
<1>5. Running
  BY <1>1 DEF Running, Busy
<1>6. Owning(jobs, Refer)
  <2>1. \A o \in Owners : Refer[o] = 0
    BY <1>2, RefsAre
  <2> QED
    BY <1>1, <2>1 DEF Owning
<1>7. Connected
  BY DEF Connected, NoConnection
<1>8. Asking(jobs, Refer, asker)
  BY <1>1 DEF Asking
<1>9. Lives /\ WorkerAwake
  BY DEF Lives, WorkerAwake, Polling
<1> QED
  BY <1>3, <1>4, <1>5, <1>6, <1>7, <1>8, <1>9 DEF ServerInv

LEMMA ServerKeeps == ServerInv /\ [Next]_vars => ServerInv'
<1> SUFFICES ASSUME ServerInv, [Next]_vars PROVE ServerInv'
  OBVIOUS
<1>1. CASE StartWorker \/ StartExpiry \/ StartFails \/ Tick \/ Shutdown \/ Stopped
  BY <1>1, MainKeeps
<1>2. CASE Worker
  BY <1>2, WorkerKeeps, PicksKeeps, RunsKeeps, EndsKeeps DEF Worker
<1>3. CASE ExpiryThread
  BY <1>3, ExpiryKeeps
<1>4. ASSUME NEW c \in Conns,
             Connect(c) \/ EnterGame(c) \/ ChangePermission(c) \/ Drop(c) \/ FreeSocket(c) \/ PollStart(c)
      PROVE  ServerInv'
  BY <1>4, ConnectionKeeps, FreeKeeps
<1>5. ASSUME NEW c \in Conns, NEW t \in Codes, AccessAuth(c, t) PROVE ServerInv'
  BY <1>5, AuthKeeps
<1>6. ASSUME NEW c \in Conns, NEW t \in Tokens, NEW k \in Kinds, AccessAdmin(c, k, t) PROVE ServerInv'
  BY <1>6, AdminKeeps
<1>7. ASSUME NEW k \in RootKinds, NEW t \in Tokens, RootSubmit(k, t) PROVE ServerInv'
  BY <1>7, RootAsks
<1>8. CASE Poll
  BY <1>8, PollAuthKeeps, PollAdminKeeps, SessionKeeps DEF Poll
<1>9. CASE RootPoll \/ RootClose
  BY <1>9, RootEnds
<1>10. ASSUME NEW t \in Tokens, DeadlinePasses(t) PROVE ServerInv'
  BY <1>10, TimeKeeps
<1>11. CASE Joined
  BY <1>11, JoinedKeeps
<1>12. CASE UNCHANGED vars
  <2>1. ASVTypeOK' /\ WorkerAwake'
    BY <1>12 DEF vars, ServerInv, ASVTypeOK, WorkerAwake, Queued
  <2> QED
    BY <1>12, <2>1, Threads DEF vars
<1> QED
  BY <1>1, <1>2, <1>3, <1>4, <1>5, <1>6, <1>7, <1>8, <1>9, <1>10, <1>11, <1>12 DEF Next

LEMMA ServerAgrees == ServerInv => JobsAgree
<1> SUFFICES ASSUME ServerInv PROVE JobsAgree
  OBVIOUS
<1>1. ASVTypeOK /\ WorkerAwake
  BY DEF ServerInv
<1>2. \A s \in Slots : (\E i \in DOMAIN queue : queue[i] = s) <=> jobs[s].state = "QUEUED"
  BY DEF ServerInv, Queueing
<1>3. \A s \in Slots : jobs[s].state = "RUNNING" <=> wpc \in {"run", "ran"} /\ slot = s
  BY DEF ServerInv, Running, Busy
<1>4. CASE mpc = "stopped"
  <2>1. \A s \in Slots : ~InUse(s)
    BY <1>4, FreeIsNone DEF ServerInv, Lives, InUse
  <2> QED
    BY <1>1, <1>2, <1>3, <1>4, <2>1 DEF JobsAgree, JobsAreOwned
<1>5. CASE mpc # "stopped"
  <2>1. Owning(jobs, Refer)
    BY <1>5 DEF ServerInv
  <2>2. ASSUME NEW s \in Slots, InUse(s)
        PROVE  /\ jobs[s].cancelled => jobs[s].state = "RUNNING"
               /\ ~jobs[s].cancelled => jobs[s].id \in Refs
               /\ \A r \in Slots : InUse(r) /\ jobs[r].id = jobs[s].id => r = s
    BY <2>1, <2>2, RefsAre DEF Owning, InUse, Used
  <2>3. ASSUME NEW i \in Refs \ {0}
        PROVE  \E s \in Slots : InUse(s) /\ jobs[s].id = i /\ ~jobs[s].cancelled
    <3>1. PICK o \in Owners : Refer[o] = i
      BY RefsAre
    <3>2. PICK s \in Slots : Used(jobs, s) /\ jobs[s].id = Refer[o] /\ ~jobs[s].cancelled
      BY <2>1, <3>1 DEF Owning
    <3> QED
      BY <3>1, <3>2 DEF InUse, Used
  <2> QED
    BY <1>1, <1>2, <1>3, <2>2, <2>3 DEF JobsAgree, JobsAreOwned
<1> QED
  BY <1>4, <1>5

LEMMA ServerInvariant == Spec => []ServerInv
  BY ServerStarts, ServerKeeps, PTL DEF Spec

\* However clients come, go and give up and however the worker is interleaved
\* with them, no slot of the job table is lost or shared, every request that
\* is waited for has its slot, and the worker never sleeps over work: submit(),
\* access_server_cancel() and worker_main() keep the table, the queue and the
\* requesters in agreement, for any number of connections and slots.
THEOREM JobsAlwaysAgree == Spec => []JobsAgree
  BY ServerInvariant, ServerAgrees, PTL

LEMMA OnlyValidTokens ==
  ASSUME ServerInv, [Next]_vars, NEW c \in Conns, conns'[c].token # 0, conns'[c].token # conns[c].token
  PROVE  token[conns'[c].token] = "active" /\ conns'[c].token \notin due /\ ~poisoned
<1>0. conns \in [Conns -> Conn]
  BY DEF ServerInv, ASVTypeOK
\* Steps that begin or end a connection leave it without a token.
<1>1. ASSUME NEW d \in Conns, NEW v, conns' = [conns EXCEPT ![d] = v], v.token = 0 \/ v.token = conns[d].token
      PROVE  FALSE
  BY <1>0, <1>1
<1>2. CASE conns' = conns
  BY <1>2
<1>3. ASSUME NEW d \in Conns,
             Connect(d) \/ EnterGame(d) \/ ChangePermission(d) \/ Drop(d) \/ FreeSocket(d) \/ PollStart(d)
      PROVE  FALSE
  <2>0. conns[d] \in Conn
    BY <1>0
  <2>1. CASE Connect(d)
    <3> DEFINE v == [NoConnection EXCEPT !.state = "login"]
    <3>1. v.token = 0
      BY DEF NoConnection
    <3>2. conns' = [conns EXCEPT ![d] = v]
      BY <2>1 DEF Connect
    <3> HIDE DEF v
    <3> QED
      BY <1>1, <3>1, <3>2
  <2>2. CASE EnterGame(d)
    <3>1. PICK p \in BOOLEAN : conns' = [conns EXCEPT ![d].state = "playing", ![d].permitted = p]
      BY <2>2 DEF EnterGame
    <3> DEFINE v == [conns[d] EXCEPT !.state = "playing", !.permitted = p]
    <3>2. v.token = conns[d].token
      BY <2>0 DEF Conn
    <3>3. conns' = [conns EXCEPT ![d] = v]
      BY <1>0, <3>1
    <3> HIDE DEF v
    <3> QED
      BY <1>1, <3>2, <3>3
  <2>3. CASE ChangePermission(d)
    <3> DEFINE v == [conns[d] EXCEPT !.permitted = ~conns[d].permitted]
    <3>1. v.token = conns[d].token
      BY <2>0 DEF Conn
    <3>2. conns' = [conns EXCEPT ![d] = v]
      BY <1>0, <2>3 DEF ChangePermission
    <3> HIDE DEF v
    <3> QED
      BY <1>1, <3>1, <3>2
  <2>4. CASE Drop(d)
    <3>1. PICK s \in {"dead", "zombie"} : conns' = [conns EXCEPT ![d].state = s]
      BY <2>4 DEF Drop
    <3> DEFINE v == [conns[d] EXCEPT !.state = s]
    <3>2. v.token = conns[d].token
      BY <2>0 DEF Conn
    <3>3. conns' = [conns EXCEPT ![d] = v]
      BY <1>0, <3>1
    <3> HIDE DEF v
    <3> QED
      BY <1>1, <3>2, <3>3
  <2>5. CASE FreeSocket(d)
    <3>1. NoConnection.token = 0
      BY DEF NoConnection
    <3>2. conns' = [conns EXCEPT ![d] = NoConnection]
      BY <2>5 DEF FreeSocket
    <3> QED
      BY <1>1, <3>1, <3>2
  <2>6. CASE PollStart(d)
    BY <1>2, <2>6 DEF PollStart
  <2> QED
    BY <1>3, <2>1, <2>2, <2>3, <2>4, <2>5, <2>6
<1>4. ASSUME NEW d \in Conns, NEW t \in Codes, AccessAuth(d, t) PROVE FALSE
  <2>0. conns[d] \in Conn
    BY <1>0
  <2>1. CASE conns' = [conns EXCEPT ![d].attempted = TRUE, ![d].auth = NewId]
    <3> DEFINE v == [conns[d] EXCEPT !.attempted = TRUE, !.auth = NewId]
    <3>1. v.token = conns[d].token
      BY <2>0 DEF Conn
    <3>2. conns' = [conns EXCEPT ![d] = v]
      BY <1>0, <2>1
    <3> HIDE DEF v
    <3> QED
      BY <1>1, <3>1, <3>2
  <2>2. CASE conns' = [conns EXCEPT ![d].attempted = TRUE, ![d].state = "zombie"]
    <3> DEFINE v == [conns[d] EXCEPT !.attempted = TRUE, !.state = "zombie"]
    <3>1. v.token = conns[d].token
      BY <2>0 DEF Conn
    <3>2. conns' = [conns EXCEPT ![d] = v]
      BY <1>0, <2>2
    <3> HIDE DEF v
    <3> QED
      BY <1>1, <3>1, <3>2
  <2> QED
    BY <1>4, <2>1, <2>2 DEF AccessAuth
<1>5. ASSUME NEW d \in Conns, NEW t \in Tokens, NEW k \in Kinds, AccessAdmin(d, k, t) PROVE FALSE
  <2>0. conns[d] \in Conn
    BY <1>0
  <2>1. CASE conns' = [conns EXCEPT ![d].admin = NewId]
    <3> DEFINE v == [conns[d] EXCEPT !.admin = NewId]
    <3>1. v.token = conns[d].token
      BY <2>0 DEF Conn
    <3>2. conns' = [conns EXCEPT ![d] = v]
      BY <1>0, <2>1
    <3> HIDE DEF v
    <3> QED
      BY <1>1, <3>1, <3>2
  <2>2. CASE conns' = [conns EXCEPT ![d].state = "zombie"]
    <3> DEFINE v == [conns[d] EXCEPT !.state = "zombie"]
    <3>1. v.token = conns[d].token
      BY <2>0 DEF Conn
    <3>2. conns' = [conns EXCEPT ![d] = v]
      BY <1>0, <2>2
    <3> HIDE DEF v
    <3> QED
      BY <1>1, <3>1, <3>2
  <2> QED
    BY <1>5, <2>1, <2>2 DEF AccessAdmin
\* The connection that is polled.
<1>6. mpc \in Polling => at \in Conns /\ conns[at] \in Conn
  BY <1>0 DEF ServerInv, Lives
<1>7. CASE PollAuth
  <2>0. at \in Conns /\ conns[at] \in Conn
    BY <1>6, <1>7 DEF PollAuth, Polling
  <2>1. CASE conns' = [conns EXCEPT ![at].auth = 0, ![at].state = IF @ = "login" THEN "dead" ELSE @]
    <3> DEFINE v == [conns[at] EXCEPT !.auth = 0, !.state = IF conns[at].state = "login" THEN "dead" ELSE conns[at].state]
    <3>1. v.token = conns[at].token
      BY <2>0 DEF Conn
    <3>2. conns' = [conns EXCEPT ![at] = v]
      BY <1>0, <2>0, <2>1
    <3> HIDE DEF v
    <3> QED
      BY <1>1, <2>0, <3>1, <3>2
  <2>2. ASSUME NEW s \in SlotOf(conns[at].auth), NEW yes \in Admits(jobs[s]),
               conns' = [conns EXCEPT ![at].auth = 0, ![at].token = IF yes THEN jobs[s].token ELSE @,
                                      ![at].state = IF yes THEN @ ELSE "zombie"]
        PROVE  token[conns'[c].token] = "active" /\ conns'[c].token \notin due /\ ~poisoned
    <3> DEFINE v == [conns[at] EXCEPT !.auth = 0, !.token = IF yes THEN jobs[s].token ELSE conns[at].token,
                                      !.state = IF yes THEN conns[at].state ELSE "zombie"]
    <3>1. v.token = IF yes THEN jobs[s].token ELSE conns[at].token
      BY <2>0 DEF Conn
    <3>2. conns' = [conns EXCEPT ![at] = v]
      BY <1>0, <2>0, <2>2
    <3> HIDE DEF v
    <3>3. c = at /\ yes /\ conns'[c].token = jobs[s].token
      BY <1>0, <2>0, <3>1, <3>2
    <3>4. "VALID" \in CheckResults(jobs[s].token)
      BY <2>2, <3>3 DEF Admits
    <3>5. ~failed /\ ~poisoned /\ token[jobs[s].token] = "active" /\ jobs[s].token \notin due
      BY <3>4 DEF CheckResults
    <3> QED
      BY <3>3, <3>5
  <2> QED
    BY <1>2, <1>7, <2>1, <2>2 DEF PollAuth
<1>8. CASE PollAdmin
  <2>0. at \in Conns /\ conns[at] \in Conn
    BY <1>6, <1>8 DEF PollAdmin, Polling
  <2>1. CASE conns' = [conns EXCEPT ![at].admin = 0]
    <3> DEFINE v == [conns[at] EXCEPT !.admin = 0]
    <3>1. v.token = conns[at].token
      BY <2>0 DEF Conn
    <3>2. conns' = [conns EXCEPT ![at] = v]
      BY <1>0, <2>0, <2>1
    <3> HIDE DEF v
    <3> QED
      BY <1>1, <2>0, <3>1, <3>2
  <2> QED
    BY <1>2, <1>8, <2>1 DEF PollAdmin
<1>9. CASE PollSession
  <2>0. at \in Conns /\ conns[at] \in Conn
    BY <1>6, <1>9 DEF PollSession, Polling
  <2>1. CASE conns' = [conns EXCEPT ![at].state = "dead"]
    <3> DEFINE v == [conns[at] EXCEPT !.state = "dead"]
    <3>1. v.token = conns[at].token
      BY <2>0 DEF Conn
    <3>2. conns' = [conns EXCEPT ![at] = v]
      BY <1>0, <2>0, <2>1
    <3> HIDE DEF v
    <3> QED
      BY <1>1, <2>0, <3>1, <3>2
  <2> QED
    BY <1>2, <1>9, <2>1 DEF PollSession
<1>10. CASE Worker
  BY <1>2, <1>10 DEF Worker, WorkerExits, WorkerMaintains, WorkerPicks, WorkerWaits, Maintain, Route, WorkerRuns,
                     WorkerEnds
<1>11. CASE StartWorker \/ StartExpiry \/ StartFails \/ ExpiryThread \/ RootPoll \/ RootClose \/ Tick \/ Shutdown
            \/ Joined \/ Stopped
  BY <1>2, <1>11 DEF StartWorker, StartExpiry, StartFails, ExpiryThread, RootPoll, RootClose, Tick, Shutdown,
                     Joined, Stopped, vars
<1>12. ASSUME NEW k \in RootKinds, NEW t \in Tokens, RootSubmit(k, t) PROVE FALSE
  BY <1>2, <1>12 DEF RootSubmit
<1>13. ASSUME NEW t \in Tokens, DeadlinePasses(t) PROVE FALSE
  BY <1>2, <1>13 DEF DeadlinePasses
<1>14. CASE UNCHANGED vars
  BY <1>2, <1>14 DEF vars
<1> QED
  BY <1>3, <1>4, <1>5, <1>7, <1>8, <1>9, <1>10, <1>11, <1>12, <1>13, <1>14 DEF Next, Poll

\* A login is admitted by access_server_auth_poll() only while its token is
\* active, before its deadline and while the store answers, however long ago
\* the worker authorised it: what the worker found is checked once more.
THEOREM OnlyCurrentTokensAdmit == Spec => AdmissionsAreCurrent
<1>1. ServerInv /\ [Next]_vars =>
        [\A c \in Conns : conns'[c].token # 0 /\ conns'[c].token # conns[c].token =>
            token[conns'[c].token] = "active" /\ conns'[c].token \notin due /\ ~poisoned]_vars
  BY OnlyValidTokens
<1> QED
  BY <1>1, ServerInvariant, PTL DEF Spec, AdmissionsAreCurrent

LEMMA OnlyTheAsker ==
  ASSUME ServerInv, [Next]_vars, NEW t \in Tokens, NEW c \in Conns, c \in told'[t] \ told[t]
  PROVE  c = asker[t] /\ conns[c].permitted /\ conns[c].state = "playing"
<1>1. told' # told
  OBVIOUS
<1>2. CASE PollAdmin
  <2>1. mpc = "pollAdmin" /\ at \in Conns
    BY <1>2 DEF PollAdmin, ServerInv, Lives, Polling
  <2>2. PICK s \in SlotOf(conns[at].admin) :
           /\ conns[at].admin # 0 /\ conns[at].state = "playing" /\ jobs[s].state = "DONE"
           /\ told' = IF jobs[s].code # 0 /\ Discloses(at, jobs[s])
                      THEN [told EXCEPT ![jobs[s].code] = @ \cup {at}] ELSE told
    BY <1>1, <1>2 DEF PollAdmin
  <2>3. Discloses(at, jobs[s]) /\ jobs[s].code # 0 /\ told' = [told EXCEPT ![jobs[s].code] = @ \cup {at}]
    BY <1>1, <2>2
  <2>4. told \in [Tokens -> SUBSET Conns]
    BY DEF ServerInv, Lives
  <2>5. c = at /\ jobs[s].code = t
    BY <2>3, <2>4
  <2>6. s \in Slots /\ Used(jobs, s) /\ jobs[s].id = Refer[AdminOf(at)]
    BY <2>1, References DEF SlotOf, InUse, Used
  <2>7. Asking(jobs, Refer, asker) /\ Owning(jobs, Refer)
    BY <2>1 DEF ServerInv
  <2>8. jobs[s].kind = "issue" /\ jobs[s].code = jobs[s].token
    BY <2>3, <2>6, <2>7 DEF Asking
  <2>9. ~jobs[s].cancelled
    BY <2>2, <2>6, <2>7 DEF Owning
  <2>10. asker[t] = at
    BY <2>1, <2>5, <2>6, <2>7, <2>8, <2>9 DEF Asking
  <2> QED
    BY <2>2, <2>3, <2>5, <2>10 DEF Discloses
<1>3. CASE Worker
  BY <1>1, <1>3 DEF Worker, WorkerExits, WorkerMaintains, WorkerPicks, WorkerWaits, Maintain, Route, WorkerRuns,
                    WorkerEnds, history
<1>4. CASE StartWorker \/ StartExpiry \/ StartFails \/ ExpiryThread \/ RootPoll \/ RootClose \/ Tick \/ Shutdown
           \/ Joined \/ Stopped
  BY <1>1, <1>4 DEF StartWorker, StartExpiry, StartFails, ExpiryThread, RootPoll, RootClose, Tick, Shutdown,
                    Joined, Stopped, vars, history
<1>5. ASSUME NEW d \in Conns,
             Connect(d) \/ EnterGame(d) \/ ChangePermission(d) \/ Drop(d) \/ FreeSocket(d) \/ PollStart(d)
      PROVE  FALSE
  BY <1>1, <1>5 DEF Connect, EnterGame, ChangePermission, Drop, FreeSocket, PollStart, history
<1>6. ASSUME NEW d \in Conns, NEW u \in Codes, AccessAuth(d, u) PROVE FALSE
  BY <1>1, <1>6 DEF AccessAuth, history
<1>7. ASSUME NEW d \in Conns, NEW u \in Tokens, NEW k \in Kinds, AccessAdmin(d, k, u) PROVE FALSE
  BY <1>1, <1>7 DEF AccessAdmin
<1>8. ASSUME NEW k \in RootKinds, NEW u \in Tokens, RootSubmit(k, u) \/ DeadlinePasses(u) PROVE FALSE
  BY <1>1, <1>8 DEF RootSubmit, DeadlinePasses, history
<1>9. ASSUME NEW u \in Tokens, DeadlinePasses(u) PROVE FALSE
  BY <1>1, <1>9 DEF DeadlinePasses, history
<1>10. CASE PollAuth \/ PollSession
  BY <1>1, <1>10 DEF PollAuth, PollSession, history
<1>11. CASE UNCHANGED vars
  BY <1>1, <1>11 DEF vars
<1> QED
  BY <1>2, <1>3, <1>4, <1>5, <1>6, <1>7, <1>8, <1>9, <1>10, <1>11 DEF Next, Poll

\* The code of an issued token is disclosed by access_server_admin_poll_permitted()
\* to nobody but the connection, in its present life, that asked for the
\* token, and only while its character may use the command: a slot is never
\* answered to a later user of it or of its connection.
THEOREM CodesReachOnlyTheirAsker == Spec => CodesStayWithAsker
<1>1. ServerInv /\ [Next]_vars =>
        [\A t \in Tokens, c \in Conns : c \in told'[t] \ told[t] =>
            c = asker[t] /\ conns[c].permitted /\ conns[c].state = "playing"]_vars
  BY OnlyTheAsker
<1> QED
  BY <1>1, ServerInvariant, PTL DEF Spec, CodesStayWithAsker

=============================================================================
