---------------------------- MODULE RosterProofs ----------------------------
(***************************************************************************)
(* What the server has on disk when it stops or dies, for any number of    *)
(* accounts, characters, connections and request IDs.  First accounts,     *)
(* character files and sessions: RosterSound and NoRollback hold of        *)
(* AccountRoster.  Then the receipts of the shutdown: ReceiptsKept and     *)
(* SavedIsTrue hold of AdminShutdown.                                      *)
(*                                                                         *)
(* Three things make the first inductive.  What a handler relies on        *)
(* between two of its files: an account that is being made is reserved and *)
(* nothing else, a character that is being made has a file and no owner.   *)
(* What a login relies on when it looks at the oldest session only: there  *)
(* is no other one, unless the character was taken over from a session     *)
(* that could not end.  And the memory of such an only session is never    *)
(* older than the file.                                                    *)
(***************************************************************************)
EXTENDS AccountRoster, AdminShutdown, FiniteSetTheorems, TLAPS

NewConns == [phase : {"login"}, account : Accounts]
PlayConns == [phase : {"playing", "dead"}, account : Accounts, char : Chars, mem : 0..MaxVersion,
              pinned : BOOLEAN]

Making == [op : {"provision", "provision-save", "newchar"}, account : Accounts, char : Chars]
Registering == [op : {"register"}, account : Accounts, conn : Conns]
Unreserving == [op : {"unreserve"}, account : Accounts]
\* After a failed provisioning the name of the character is still there.
Undoing == [op : {"unreserve"}, account : Accounts, char : Chars]

Shapes ==
    /\ up \in BOOLEAN
    /\ exists \subseteq Accounts /\ saved \subseteq exists
    /\ roster \in [Accounts -> SUBSET Chars]
    /\ pfile \in [Chars -> -1..MaxVersion]
    /\ conn \in [Conns -> {Free} \cup NewConns \cup PlayConns]
    /\ players \in Seq(Conns)
    /\ job \in {Idle} \cup Making \cup Registering \cup Unreserving \cup Undoing
    /\ version \in 0..MaxVersion
    /\ created \subseteq Accounts \X Chars
    /\ split \subseteq Chars

Once(s) == \A i, j \in 1..Len(s) : s[i] = s[j] => i = j
In(n, s) == \E i \in 1..Len(s) : s[i] = n

\* A connection is in the list once if it controls a player, and not otherwise.
ListSound == Once(players) /\ \A n \in Conns : conn[n] \in PlayConns <=> In(n, players)

\* Who has logged in did so to an account that is saved, and plays what it lists.
ConnSound(n) ==
    /\ conn[n] \in NewConns => conn[n].account \in saved
    /\ conn[n] \in PlayConns =>
         /\ conn[n].char \in roster[conn[n].account]
         /\ conn[n].mem <= version
         /\ conn[n].char \notin split => pfile[conn[n].char] <= conn[n].mem

\* Files and rosters.
FilesSound ==
    /\ \A a \in Accounts : roster[a] # {} => a \in saved
    /\ \A a, b \in Accounts : a # b => roster[a] \cap roster[b] = {}
    /\ \A a \in Accounts : \A c \in roster[a] : pfile[c] # NoFile
    /\ \A c \in Chars : pfile[c] <= version
    /\ \A p \in created : p[2] \in roster[p[1]]

\* What a handler relies on that has changed one file and not yet the next.
JobSound ==
    /\ job.op \in {"provision", "provision-save", "register", "unreserve"} => job.account \notin saved
    /\ job.op \in {"provision", "provision-save", "register"} => job.account \in exists
    /\ job.op \in {"provision-save", "newchar"} =>
         pfile[job.char] = EmptyFile /\ \A a \in Accounts : job.char \notin roster[a]
    /\ job.op = "newchar" => job.account \in saved
    /\ job.op = "register" => conn[job.conn] = Free

\* A character that was not taken over has one session at most.
OneSession ==
    \A m, n \in Conns :
        conn[m] \in PlayConns /\ conn[n] \in PlayConns /\ conn[m].char = conn[n].char
            /\ conn[m].char \notin split => m = n

RosterInv ==
    Shapes /\ ListSound /\ (\A n \in Conns : ConnSound(n)) /\ FilesSound /\ JobSound /\ OneSession

-----------------------------------------------------------------------------
(* The list of players. *)

\* A connection controls a player in two of its phases.
LEMMA ConnPhases ==
    ASSUME NEW k \in {Free} \cup NewConns \cup PlayConns
    PROVE  /\ k.phase \in Phases
           /\ k = Free <=> k.phase = "free"
           /\ k \in NewConns <=> k.phase = "login"
           /\ k \in PlayConns <=> k.phase \in {"playing", "dead"}
BY DEF Free, NewConns, PlayConns, Phases

\* One entry is taken out of a list.
LEMMA RemoveAtFact ==
    ASSUME NEW S, NEW s \in Seq(S), Once(s), NEW k \in 1..Len(s)
    PROVE  LET r == RemoveAt(s, k)
           IN  /\ r \in Seq(S) /\ Once(r)
               /\ \A n \in S : In(n, r) <=> In(n, s) /\ n # s[k]
<1> DEFINE r == RemoveAt(s, k)
<1>1. Len(s) \in Nat
    OBVIOUS
<1> DEFINE a == SubSeq(s, 1, k - 1)
           b == SubSeq(s, k + 1, Len(s))
<1>a. a \in Seq(S) /\ Len(a) = k - 1 /\ \A i \in 1..(k - 1) : a[i] = s[i]
    BY <1>1
<1>b. b \in Seq(S) /\ Len(b) = Len(s) - k /\ \A i \in 1..(Len(s) - k) : b[i] = s[k + i]
    BY <1>1
<1>c. r = a \o b
    BY DEF RemoveAt
<1> HIDE DEF a, b, r
<1>2. r \in Seq(S) /\ Len(r) = Len(s) - 1
  <2>0. a \in Seq(S) /\ b \in Seq(S)
      BY <1>a, <1>b
  <2>1. r \in Seq(S) /\ Len(r) = Len(a) + Len(b)
      BY <1>c, <2>0
  <2> QED
      BY <1>1, <1>a, <1>b, <2>1
<1>3. \A i \in 1..Len(r) : r[i] = IF i < k THEN s[i] ELSE s[i + 1]
  <2> SUFFICES ASSUME NEW i \in 1..Len(r) PROVE r[i] = IF i < k THEN s[i] ELSE s[i + 1]
      OBVIOUS
  <2>1. r[i] = IF i <= Len(a) THEN a[i] ELSE b[i - Len(a)]
      BY <1>1, <1>2, <1>a, <1>b, <1>c
  <2>2. CASE i < k
      BY <1>a, <2>1, <2>2
  <2>3. CASE ~(i < k)
    <3>1. i - (k - 1) \in 1..(Len(s) - k) /\ k + (i - (k - 1)) = i + 1
        BY <1>1, <1>2, <2>3
    <3>2. b[i - (k - 1)] = s[i + 1]
        BY <1>b, <3>1
    <3> QED
        BY <1>1, <1>a, <2>1, <2>3, <3>2
  <2> QED
      BY <2>2, <2>3
<1>4. Once(r)
  <2> SUFFICES ASSUME NEW i \in 1..Len(r), NEW j \in 1..Len(r), r[i] = r[j] PROVE i = j
      BY DEF Once
  <2> DEFINE x == IF i < k THEN i ELSE i + 1
             y == IF j < k THEN j ELSE j + 1
  <2>1. x \in 1..Len(s) /\ y \in 1..Len(s) /\ s[x] = r[i] /\ s[y] = r[j]
      BY <1>1, <1>2, <1>3
  <2>2. x = y
      BY <2>1 DEF Once
  <2> QED
      BY <1>1, <1>2, <2>2
<1>5. ASSUME NEW n \in S, In(n, r) PROVE In(n, s) /\ n # s[k]
  <2>1. PICK i \in 1..Len(r) : r[i] = n
      BY <1>5 DEF In
  <2> DEFINE x == IF i < k THEN i ELSE i + 1
  <2>2. x \in 1..Len(s) /\ s[x] = n /\ x # k
      BY <1>1, <1>2, <1>3, <2>1
  <2> HIDE DEF x
  <2> QED
      BY <2>2 DEF In, Once
<1>6. ASSUME NEW n \in S, In(n, s), n # s[k] PROVE In(n, r)
  <2>1. PICK x \in 1..Len(s) : s[x] = n
      BY <1>6 DEF In
  <2> DEFINE i == IF x < k THEN x ELSE x - 1
  <2>2. x # k
      BY <1>6, <2>1
  <2>3. i \in 1..Len(r) /\ r[i] = n
      BY <1>1, <1>2, <1>3, <2>1, <2>2
  <2> QED
      BY <2>3 DEF In
<1> QED
    BY <1>2, <1>4, <1>5, <1>6 DEF r

\* One that is not in it is put at its end.
LEMMA AppendedFact ==
    ASSUME NEW S, NEW s \in Seq(S), Once(s), NEW m \in S, ~In(m, s)
    PROVE  LET r == s \o <<m>>
           IN  /\ r \in Seq(S) /\ Once(r)
               /\ \A n \in S : In(n, r) <=> In(n, s) \/ n = m
<1> DEFINE r == s \o <<m>>
<1>1. Len(s) \in Nat
    OBVIOUS
<1>2. r \in Seq(S) /\ Len(r) = Len(s) + 1
    BY <1>1
<1>3. \A i \in 1..Len(r) : r[i] = IF i <= Len(s) THEN s[i] ELSE m
    BY <1>1, <1>2
<1> HIDE DEF r
<1>4. Once(r)
    BY <1>1, <1>2, <1>3 DEF Once, In
<1>5. \A n \in S : In(n, r) <=> In(n, s) \/ n = m
    BY <1>1, <1>2, <1>3 DEF In
<1> QED
    BY <1>2, <1>4, <1>5 DEF r

\* What free_player_internal() leaves of the list.
LEMMA WithoutFact ==
    ASSUME Shapes, ListSound, NEW gone \in SUBSET Conns, \A m \in gone : conn[m] \in PlayConns,
           \A m, n \in gone : m = n
    PROVE  LET r == Without(gone)
           IN  /\ r \in Seq(Conns) /\ Once(r)
               /\ \A n \in Conns : In(n, r) <=> conn[n] \in PlayConns /\ n \notin gone
<1>1. players \in Seq(Conns) /\ Once(players)
    BY DEF Shapes, ListSound
<1>2. \A n \in Conns : conn[n] \in PlayConns <=> In(n, players)
    BY DEF ListSound
<1>3. CASE gone = {}
    BY <1>1, <1>2, <1>3 DEF Without
<1>4. CASE gone # {}
  <2> DEFINE k == CHOOSE i \in DOMAIN players : players[i] \in gone
  <2>1. \E i \in DOMAIN players : players[i] \in gone
      BY <1>1, <1>2, <1>4 DEF In
  <2>2. k \in 1..Len(players) /\ players[k] \in gone
      BY <1>1, <2>1
  <2>3. Without(gone) = RemoveAt(players, k)
      BY <1>4 DEF Without
  <2> HIDE DEF k
  <2>4. /\ RemoveAt(players, k) \in Seq(Conns) /\ Once(RemoveAt(players, k))
        /\ \A n \in Conns : In(n, RemoveAt(players, k)) <=> In(n, players) /\ n # players[k]
      BY <1>1, <2>2, RemoveAtFact
  <2>5. \A n \in Conns : n \in gone <=> n = players[k]
      BY <2>2
  <2> QED
      BY <1>2, <2>3, <2>4, <2>5
<1> QED
    BY <1>3, <1>4

\* find_player() finds one session at most, and the only one if there is one.
LEMMA FoundFact ==
    ASSUME RosterInv, NEW c \in Chars
    PROVE  /\ \A n \in Found(c) : n \in Conns /\ conn[n] \in PlayConns /\ conn[n].char = c
           /\ \A m, n \in Found(c) : m = n
           /\ c \notin split => \A n \in Conns : conn[n] \in PlayConns /\ conn[n].char = c => n \in Found(c)
<1> DEFINE places == {i \in DOMAIN players : conn[players[i]].char = c}
<1>1. players \in Seq(Conns) /\ Once(players) /\ DOMAIN players = 1..Len(players) /\ Len(players) \in Nat
    BY DEF RosterInv, Shapes, ListSound
<1>2. \A n \in Conns : conn[n] \in PlayConns <=> In(n, players)
    BY DEF RosterInv, ListSound
<1>3. Found(c) = {players[i] : i \in {x \in places : \A y \in places : x <= y}}
    BY DEF Found, Oldest
<1>4. \A i \in places : i \in 1..Len(players) /\ conn[players[i]].char = c /\ players[i] \in Conns
    BY <1>1
<1>5. \A n \in Found(c) : \E i \in places : n = players[i] /\ \A y \in places : i <= y
    BY <1>3
<1>6. \A i \in places : conn[players[i]] \in PlayConns
    BY <1>1, <1>2, <1>4 DEF In
<1>7. \A n \in Found(c) : n \in Conns /\ conn[n] \in PlayConns /\ conn[n].char = c
    BY <1>4, <1>5, <1>6
<1>8. \A m, n \in Found(c) : m = n
  <2> SUFFICES ASSUME NEW m \in Found(c), NEW n \in Found(c) PROVE m = n
      OBVIOUS
  <2>1. PICK i \in places : m = players[i] /\ \A y \in places : i <= y
      BY <1>5
  <2>2. PICK j \in places : n = players[j] /\ \A y \in places : j <= y
      BY <1>5
  <2>3. i <= j /\ j <= i /\ i \in Nat /\ j \in Nat
      BY <1>4, <2>1, <2>2
  <2>4. i = j
      BY <2>3
  <2> QED
      BY <2>1, <2>2, <2>4
<1>9. ASSUME c \notin split, NEW n \in Conns, conn[n] \in PlayConns, conn[n].char = c PROVE n \in Found(c)
  <2>1. PICK i \in 1..Len(players) : players[i] = n
      BY <1>2, <1>9 DEF In
  <2>2. i \in places
      BY <1>1, <1>9, <2>1
  <2>3. ASSUME NEW y \in places PROVE i = y
    <3>1. players[y] = n
        BY <1>4, <1>6, <1>9 DEF RosterInv, OneSession
    <3> QED
        BY <1>1, <1>4, <2>1, <3>1 DEF Once
  <2>4. \A y \in places : i <= y
      BY <2>3
  <2> QED
      BY <1>3, <2>1, <2>2, <2>4
<1> QED
    BY <1>7, <1>8, <1>9

-----------------------------------------------------------------------------
(* Provisioning and handlers. *)

\* What the handler between two of its files is about.
LEMMA JobKinds ==
    ASSUME Shapes
    PROVE  /\ job.op \in {"provision", "provision-save", "newchar"} =>
                job \in Making /\ job.account \in Accounts /\ job.char \in Chars
           /\ job.op = "register" => job \in Registering /\ job.account \in Accounts /\ job.conn \in Conns
           /\ job.op = "unreserve" => job.account \in Accounts
           /\ Idle.op = "idle"
BY DEF Shapes, Idle, Making, Registering, Unreserving, Undoing

LEMMA RosterInvInit == RosterInit => RosterInv
<1> SUFFICES ASSUME RosterInit PROVE RosterInv
    OBVIOUS
<1>1. /\ up = FALSE /\ exists = {} /\ saved = {} /\ roster = [a \in Accounts |-> {}]
      /\ pfile = [c \in Chars |-> NoFile] /\ conn = [n \in Conns |-> Free] /\ players = <<>>
      /\ job = Idle /\ version = 0 /\ created = {} /\ split = {}
    BY DEF RosterInit
<1>2. MaxVersion \in Nat
    BY BoundsAssumption
<1>3. \A n \in Conns : conn[n] = Free /\ conn[n] \notin PlayConns /\ conn[n] \notin NewConns
    BY <1>1 DEF Free, PlayConns, NewConns
<1>4. Shapes
  <2>1. roster \in [Accounts -> SUBSET Chars] /\ conn \in [Conns -> {Free} \cup NewConns \cup PlayConns]
      BY <1>1
  <2>2. pfile \in [Chars -> -1..MaxVersion]
      BY <1>1, <1>2 DEF NoFile
  <2>3. version \in 0..MaxVersion /\ players \in Seq(Conns)
      BY <1>1, <1>2
  <2> QED
      BY <1>1, <2>1, <2>2, <2>3 DEF Shapes
<1>5. ListSound
    BY <1>1, <1>3 DEF ListSound, Once, In
<1>6. FilesSound
    BY <1>1, <1>2 DEF FilesSound, NoFile
<1>7. JobSound
    BY <1>1, <1>4, JobKinds DEF JobSound
<1> QED
    BY <1>3, <1>4, <1>5, <1>6, <1>7 DEF RosterInv, ConnSound, OneSession

\* A handler reserves the file of an account.
LEMMA InvReserve ==
    ASSUME RosterInv, NEW a \in Accounts, Reserves(a), exists' = exists \cup {a},
           \/ \E c \in Chars : job' = [op |-> "provision", account |-> a, char |-> c]
           \/ \E n \in Conns : conn[n] = Free /\ job' = [op |-> "register", account |-> a, conn |-> n],
           UNCHANGED <<up, saved, roster, pfile, conn, players, history>>
    PROVE  RosterInv'
<1>1. /\ Shapes /\ ListSound /\ (\A n \in Conns : ConnSound(n)) /\ FilesSound /\ OneSession
    BY DEF RosterInv
<1>2. a \notin saved
    BY <1>1 DEF Shapes, Reserves
<1>3. UNCHANGED <<version, created, split>>
    BY DEF history
<1>4. job' \in Making \cup Registering
    BY DEF Making, Registering
<1>5. Shapes'
    BY <1>1, <1>3, <1>4 DEF Shapes
<1>6. JobSound'
    BY <1>2 DEF JobSound
<1> QED
    BY <1>1, <1>3, <1>5, <1>6 DEF RosterInv, ListSound, ConnSound, FilesSound, OneSession

LEMMA InvProvision ==
    ASSUME RosterInv, NEW a \in Accounts, NEW c \in Chars, Provision(a, c) PROVE RosterInv'
BY InvReserve DEF Provision

LEMMA InvRegister ==
    ASSUME RosterInv, NEW n \in Conns, NEW a \in Accounts, Register(n, a) PROVE RosterInv'
BY InvReserve DEF Register

\* The reserved file is removed; nothing was saved in it.
LEMMA InvRelease ==
    ASSUME RosterInv, NEW a \in Accounts, a \notin saved, exists' = exists \ {a}, job' = Idle,
           UNCHANGED <<up, saved, roster, pfile, conn, players, history>>
    PROVE  RosterInv'
<1>1. /\ Shapes /\ ListSound /\ (\A n \in Conns : ConnSound(n)) /\ FilesSound /\ OneSession
    BY DEF RosterInv
<1>2. UNCHANGED <<version, created, split>>
    BY DEF history
<1>3. Shapes'
    BY <1>1, <1>2 DEF Shapes
<1>4. JobSound'
    BY DEF JobSound, Idle
<1> QED
    BY <1>1, <1>2, <1>3, <1>4 DEF RosterInv, ListSound, ConnSound, FilesSound, OneSession

LEMMA InvUnreserve == ASSUME RosterInv, Unreserve PROVE RosterInv'
<1>1. job.account \in Accounts /\ job.account \notin saved
    BY JobKinds DEF RosterInv, JobSound, Unreserve
<1> QED
    BY <1>1, InvRelease DEF Unreserve

\* path_touch() of the file of a character that has none: nobody owns it.
LEMMA InvTouch ==
    ASSUME RosterInv, NEW c \in Chars, pfile[c] = NoFile, pfile' = [pfile EXCEPT ![c] = EmptyFile],
           NEW a \in Accounts,
           \/ job' = [op |-> "provision-save", account |-> a, char |-> c] /\ a \in exists \ saved
           \/ job' = [op |-> "newchar", account |-> a, char |-> c] /\ a \in saved,
           UNCHANGED <<up, exists, saved, roster, conn, players, history>>
    PROVE  RosterInv'
<1>1. /\ Shapes /\ ListSound /\ (\A n \in Conns : ConnSound(n)) /\ FilesSound /\ OneSession
    BY DEF RosterInv
<1>2. UNCHANGED <<version, created, split>>
    BY DEF history
<1>3. MaxVersion \in Nat /\ version \in Nat
    BY <1>1, BoundsAssumption DEF Shapes
<1>4. /\ pfile' \in [Chars -> -1..MaxVersion] /\ pfile'[c] = 0
      /\ \A d \in Chars : d # c => pfile'[d] = pfile[d]
    BY <1>1, <1>3 DEF Shapes, EmptyFile
<1>5. \A b \in Accounts : c \notin roster[b]
    BY <1>1 DEF FilesSound
<1>6. Shapes'
  <2>1. job' \in Making
      BY DEF Making
  <2> QED
      BY <1>1, <1>2, <1>4, <2>1 DEF Shapes
<1>7. \A n \in Conns : ConnSound(n)'
  <2> SUFFICES ASSUME NEW n \in Conns PROVE ConnSound(n)'
      OBVIOUS
  <2>1. ConnSound(n)
      BY <1>1
  <2>2. conn[n] \in PlayConns => conn[n].char \in Chars /\ conn[n].account \in Accounts
      BY DEF PlayConns
  <2>3. conn[n] \in PlayConns => conn[n].char # c
      BY <1>5, <2>1, <2>2 DEF ConnSound
  <2> QED
      BY <1>2, <1>4, <2>1, <2>2, <2>3 DEF ConnSound
<1>8. FilesSound'
  <2>1. \A b \in Accounts : \A d \in roster[b] : d \in Chars /\ pfile'[d] # NoFile
      BY <1>1, <1>4, <1>5 DEF FilesSound, Shapes
  <2>2. \A d \in Chars : pfile'[d] <= version
      BY <1>1, <1>3, <1>4 DEF FilesSound
  <2> QED
      BY <1>1, <1>2, <2>1, <2>2 DEF FilesSound
<1>9. JobSound'
    BY <1>4, <1>5 DEF JobSound, EmptyFile
<1> QED
    BY <1>1, <1>2, <1>6, <1>7, <1>8, <1>9 DEF RosterInv, ListSound, OneSession

LEMMA InvProvisionPlayer == ASSUME RosterInv, ProvisionPlayer PROVE RosterInv'
<1>1. /\ job \in Making /\ job.account \in Accounts /\ job.char \in Chars
      /\ job.account \in exists \ saved /\ job.op = "provision"
    BY JobKinds DEF RosterInv, JobSound, ProvisionPlayer
<1>2. CASE pfile[job.char] = NoFile
  <2>1. [job EXCEPT !.op = "provision-save"] =
            [op |-> "provision-save", account |-> job.account, char |-> job.char]
      BY <1>1 DEF Making
  <2> QED
      BY <1>1, <1>2, <2>1, InvTouch DEF ProvisionPlayer
<1>3. CASE pfile[job.char] # NoFile
    BY <1>1, <1>3, InvRelease DEF ProvisionPlayer
<1> QED
    BY <1>2, <1>3

LEMMA InvNewChar ==
    ASSUME RosterInv, NEW n \in Conns, NEW c \in Chars, NewChar(n, c) PROVE RosterInv'
<1>1. conn[n] \in NewConns
    BY ConnPhases DEF RosterInv, Shapes, NewChar
<1>2. conn[n].account \in Accounts /\ conn[n].account \in saved
    BY <1>1 DEF RosterInv, ConnSound, NewConns
<1> QED
    BY <1>2, InvTouch DEF NewChar, NameFree, Touched

\* The account of a handler is saved with the roster it gets.
LEMMA InvSaved ==
    ASSUME RosterInv, NEW a \in Accounts, NEW list \in SUBSET Chars, roster' = [roster EXCEPT ![a] = list],
           roster[a] \subseteq list, a \in exists, saved' = saved \cup {a}, job' = Idle,
           \A c \in list \ roster[a] : pfile[c] # NoFile /\ \A b \in Accounts : c \notin roster[b],
           conn' \in [Conns -> {Free} \cup NewConns \cup PlayConns],
           \A n \in Conns :
                \/ conn'[n] = conn[n]
                \/ conn[n] = Free /\ conn'[n] \in NewConns /\ conn'[n].account \in saved',
           created' \subseteq Accounts \X Chars, \A p \in created' : p \in created \/ (p[1] = a /\ p[2] \in list),
           UNCHANGED <<up, exists, pfile, players, version, split>>
    PROVE  RosterInv'
<1>1. /\ Shapes /\ ListSound /\ (\A n \in Conns : ConnSound(n)) /\ FilesSound /\ OneSession
    BY DEF RosterInv
<1>2. /\ roster \in [Accounts -> SUBSET Chars] /\ roster' \in [Accounts -> SUBSET Chars] /\ roster'[a] = list
      /\ \A b \in Accounts : b # a => roster'[b] = roster[b]
    BY <1>1 DEF Shapes
<1>3. \A b \in Accounts : roster[b] \subseteq roster'[b]
    BY <1>2
<1>4. Shapes'
    BY <1>1, <1>2 DEF Shapes
<1>5. \A n \in Conns : conn'[n] \in PlayConns <=> conn[n] \in PlayConns
    BY DEF Free, NewConns, PlayConns
<1>6. \A n \in Conns : conn[n] \in PlayConns => conn'[n] = conn[n]
    BY DEF Free, PlayConns
<1>7. ListSound'
    BY <1>1, <1>5 DEF ListSound
<1>8. \A n \in Conns : ConnSound(n)'
  <2> SUFFICES ASSUME NEW n \in Conns PROVE ConnSound(n)'
      OBVIOUS
  <2>1. ConnSound(n)
      BY <1>1
  <2>2. conn[n] \in PlayConns => conn[n].account \in Accounts
      BY DEF PlayConns
  <2>3. conn'[n] \in NewConns => conn'[n].account \in saved'
      BY <2>1 DEF ConnSound
  <2>4. conn[n] \in PlayConns => conn[n].char \in roster'[conn[n].account]
      BY <1>3, <2>1, <2>2 DEF ConnSound
  <2> QED
      BY <1>5, <1>6, <2>1, <2>3, <2>4 DEF ConnSound
<1>9. FilesSound'
  <2>1. \A b \in Accounts : roster'[b] # {} => b \in saved'
      BY <1>1, <1>2 DEF FilesSound
  <2>2. \A b \in Accounts : b # a => list \cap roster[b] = {}
      BY <1>1 DEF FilesSound
  <2>3. \A b, d \in Accounts : b # d => roster'[b] \cap roster'[d] = {}
      BY <1>1, <1>2, <2>2 DEF FilesSound
  <2>4. \A b \in Accounts : \A c \in roster'[b] : pfile[c] # NoFile
      BY <1>1, <1>2 DEF FilesSound
  <2>5. \A p \in created : p[1] \in Accounts /\ p[2] \in roster[p[1]]
      BY <1>1 DEF FilesSound, Shapes
  <2>6. \A p \in created' : p[2] \in roster'[p[1]]
      BY <1>2, <1>3, <2>5
  <2>7. \A c \in Chars : pfile[c] <= version
      BY <1>1 DEF FilesSound
  <2> QED
      BY <2>1, <2>3, <2>4, <2>6, <2>7 DEF FilesSound
<1>10. JobSound'
    BY DEF JobSound, Idle
<1>11. OneSession'
    BY <1>1, <1>5, <1>6 DEF OneSession
<1> QED
    BY <1>4, <1>7, <1>8, <1>9, <1>10, <1>11 DEF RosterInv

\* An account that is not saved lists nobody.
LEMMA UnsavedLists ==
    ASSUME RosterInv, NEW a \in Accounts, a \notin saved
    PROVE  roster[a] = {}
BY DEF RosterInv, FilesSound

LEMMA InvRegisterSave == ASSUME RosterInv, RegisterSave PROVE RosterInv'
<1>1. /\ job.op = "register" /\ job.account \in Accounts /\ job.conn \in Conns
      /\ job.account \in exists \ saved /\ conn[job.conn] = Free
    BY JobKinds DEF RosterInv, JobSound, RegisterSave
<1>2. Shapes
    BY DEF RosterInv
<1>3. CASE /\ saved' = saved \cup {job.account}
           /\ roster' = [roster EXCEPT ![job.account] = {}]
           /\ conn' = [conn EXCEPT ![job.conn] = [phase |-> "login", account |-> job.account]]
           /\ job' = Idle
  <2> DEFINE k == [phase |-> "login", account |-> job.account]
  <2>1. k \in NewConns /\ k.account = job.account
      BY <1>1 DEF NewConns
  <2>2. conn' = [conn EXCEPT ![job.conn] = k]
      BY <1>3
  <2> HIDE DEF k
  <2>3. /\ conn' \in [Conns -> {Free} \cup NewConns \cup PlayConns]
        /\ \A n \in Conns :
                \/ conn'[n] = conn[n]
                \/ conn[n] = Free /\ conn'[n] \in NewConns /\ conn'[n].account \in saved'
      BY <1>1, <1>2, <1>3, <2>1, <2>2 DEF Shapes
  <2>4. roster[job.account] = {}
      BY <1>1, UnsavedLists
  <2>5. UNCHANGED <<up, exists, pfile, players, created, version, split>>
      BY DEF RegisterSave
  <2>6. created' \subseteq Accounts \X Chars
      BY <1>2, <2>5 DEF Shapes
  <2> QED
      BY <1>1, <1>3, <2>3, <2>4, <2>5, <2>6, InvSaved
<1>4. CASE job' = [op |-> "unreserve", account |-> job.account] /\ UNCHANGED <<saved, roster, conn>>
  <2>1. UNCHANGED <<up, exists, saved, roster, pfile, conn, players, created, version, split>>
      BY <1>4 DEF RegisterSave
  <2>2. job' \in Unreserving /\ job'.op = "unreserve" /\ job'.account = job.account
      BY <1>1, <1>4 DEF Unreserving
  <2>3. Shapes'
      BY <1>2, <2>1, <2>2 DEF Shapes
  <2>4. JobSound'
      BY <1>1, <2>1, <2>2 DEF JobSound
  <2> QED
      BY <2>1, <2>3, <2>4 DEF RosterInv, ListSound, ConnSound, FilesSound, OneSession
<1> QED
    BY <1>3, <1>4 DEF RegisterSave

LEMMA InvNewCharSave == ASSUME RosterInv, NewCharSave PROVE RosterInv'
<1>1. /\ job.account \in Accounts /\ job.char \in Chars /\ job.account \in saved
      /\ pfile[job.char] = EmptyFile /\ \A a \in Accounts : job.char \notin roster[a]
    BY JobKinds DEF RosterInv, JobSound, NewCharSave
<1>2. Shapes
    BY DEF RosterInv
<1>3. /\ job' = Idle
      /\ UNCHANGED <<up, exists, saved, pfile, conn, players, version, split>>
    BY DEF NewCharSave
<1>4. /\ job.account \in exists /\ saved' = saved \cup {job.account}
      /\ conn' \in [Conns -> {Free} \cup NewConns \cup PlayConns]
      /\ roster[job.account] \in SUBSET Chars
    BY <1>1, <1>2, <1>3 DEF Shapes
<1>5. CASE /\ roster' = [roster EXCEPT ![job.account] = @ \cup {job.char}]
           /\ created' = created \cup {<<job.account, job.char>>}
  <2> DEFINE list == roster[job.account] \cup {job.char}
  <2>1. list \in SUBSET Chars /\ roster[job.account] \subseteq list /\ job.char \in list
      BY <1>1, <1>4
  <2>2. roster' = [roster EXCEPT ![job.account] = list]
      BY <1>5
  <2>3. \A c \in list \ roster[job.account] : pfile[c] # NoFile /\ \A b \in Accounts : c \notin roster[b]
      BY <1>1 DEF NoFile, EmptyFile
  <2> HIDE DEF list
  <2>4. /\ created' \subseteq Accounts \X Chars
        /\ \A p \in created' : p \in created \/ (p[1] = job.account /\ p[2] \in list)
      BY <1>1, <1>2, <1>5, <2>1 DEF Shapes
  <2> QED
      BY <1>1, <1>3, <1>4, <2>1, <2>2, <2>3, <2>4, InvSaved
<1>6. CASE UNCHANGED <<roster, created>>
  <2>1. roster' = [roster EXCEPT ![job.account] = roster[job.account]]
      BY <1>2, <1>6 DEF Shapes
  <2>2. created' \subseteq Accounts \X Chars /\ \A p \in created' : p \in created
      BY <1>2, <1>6 DEF Shapes
  <2> QED
      BY <1>1, <1>3, <1>4, <2>1, <2>2, InvSaved
<1> QED
    BY <1>5, <1>6 DEF NewCharSave

\* If the account cannot be saved, the player's file goes and its own follows.
LEMMA InvProvisionSave == ASSUME RosterInv, ProvisionSave PROVE RosterInv'
<1>1. /\ job \in Making /\ job.account \in Accounts /\ job.char \in Chars /\ job.account \in exists \ saved
      /\ pfile[job.char] = EmptyFile /\ \A a \in Accounts : job.char \notin roster[a]
    BY JobKinds DEF RosterInv, JobSound, ProvisionSave
<1>2. /\ Shapes /\ ListSound /\ (\A n \in Conns : ConnSound(n)) /\ FilesSound /\ OneSession
    BY DEF RosterInv
<1>3. CASE /\ saved' = saved \cup {job.account}
           /\ roster' = [roster EXCEPT ![job.account] = {job.char}]
           /\ created' = created \cup {<<job.account, job.char>>}
           /\ job' = Idle /\ UNCHANGED <<exists, pfile>>
  <2>1. UNCHANGED <<up, exists, pfile, conn, players, version, split>>
      BY <1>3 DEF ProvisionSave
  <2>2. roster[job.account] = {}
      BY <1>1, UnsavedLists
  <2>3. /\ created' \subseteq Accounts \X Chars
        /\ \A p \in created' : p \in created \/ (p[1] = job.account /\ p[2] \in {job.char})
      BY <1>1, <1>2, <1>3 DEF Shapes
  <2>4. conn' \in [Conns -> {Free} \cup NewConns \cup PlayConns] /\ conn' = conn
      BY <1>2, <2>1 DEF Shapes
  <2> DEFINE list == {job.char}
  <2>5. \A c \in list \ roster[job.account] : pfile[c] # NoFile /\ \A b \in Accounts : c \notin roster[b]
      BY <1>1 DEF NoFile, EmptyFile
  <2>6. list \in SUBSET Chars /\ roster[job.account] \subseteq list
      BY <1>1, <2>2
  <2>7. /\ roster' = [roster EXCEPT ![job.account] = list]
        /\ \A p \in created' : p \in created \/ (p[1] = job.account /\ p[2] \in list)
      BY <1>3, <2>3
  <2> HIDE DEF list
  <2>8. saved' = saved \cup {job.account} /\ job' = Idle /\ created' \subseteq Accounts \X Chars
      BY <1>3, <2>3
  <2> QED
      BY <1>1, <2>1, <2>4, <2>5, <2>6, <2>7, <2>8, InvSaved
<1>4. CASE /\ pfile' = [pfile EXCEPT ![job.char] = NoFile]
           /\ job' = [job EXCEPT !.op = "unreserve"]
           /\ UNCHANGED <<exists, saved, roster, created>>
  <2>1. UNCHANGED <<up, exists, saved, roster, created, conn, players, version, split>>
      BY <1>4 DEF ProvisionSave
  <2>2. job' \in Undoing /\ job'.op = "unreserve" /\ job'.account = job.account
      BY <1>1, <1>4 DEF Making, Undoing
  <2>3. MaxVersion \in Nat /\ version \in Nat
      BY <1>2, BoundsAssumption DEF Shapes
  <2>4. /\ pfile' \in [Chars -> -1..MaxVersion] /\ pfile'[job.char] = -1
        /\ \A d \in Chars : d # job.char => pfile'[d] = pfile[d]
      BY <1>1, <1>2, <1>4, <2>3 DEF Shapes, NoFile
  <2>5. Shapes'
      BY <1>2, <2>1, <2>2, <2>4 DEF Shapes
  <2>6. JobSound'
      BY <1>1, <2>1, <2>2 DEF JobSound
  <2>7. \A n \in Conns : ConnSound(n)'
    <3> SUFFICES ASSUME NEW n \in Conns PROVE ConnSound(n)'
        OBVIOUS
    <3>1. ConnSound(n)
        BY <1>2
    <3>2. conn[n] \in PlayConns => conn[n].char \in Chars /\ conn[n].account \in Accounts
        BY DEF PlayConns
    <3>3. conn[n] \in PlayConns => conn[n].char # job.char
        BY <1>1, <3>1, <3>2 DEF ConnSound
    <3> QED
        BY <2>1, <2>4, <3>1, <3>2, <3>3 DEF ConnSound
  <2>8. FilesSound'
    <3>1. \A b \in Accounts : \A d \in roster[b] : d \in Chars /\ d # job.char /\ pfile'[d] # NoFile
        BY <1>1, <1>2, <2>4 DEF FilesSound, Shapes
    <3>2. \A d \in Chars : pfile'[d] <= version
        BY <1>2, <2>3, <2>4 DEF FilesSound
    <3> QED
        BY <1>2, <2>1, <3>1, <3>2 DEF FilesSound
  <2> QED
      BY <1>2, <2>1, <2>5, <2>6, <2>7, <2>8 DEF RosterInv, ListSound, OneSession
<1> QED
    BY <1>3, <1>4 DEF ProvisionSave

-----------------------------------------------------------------------------
(* Sessions. *)

\* Between handlers, what a step of the sessions has to respect.
LEMMA InvSession ==
    ASSUME RosterInv, job' = Idle, up' \in BOOLEAN,
           conn' \in [Conns -> {Free} \cup NewConns \cup PlayConns],
           players' \in Seq(Conns), Once(players'),
           \A n \in Conns : conn'[n] \in PlayConns <=> In(n, players'),
           \A n \in Conns : ConnSound(n)',
           pfile' \in [Chars -> -1..MaxVersion],
           \A a \in Accounts : \A c \in roster[a] : pfile'[c] # NoFile,
           \A c \in Chars : pfile'[c] <= version',
           version' \in 0..MaxVersion, split' \subseteq Chars, OneSession',
           UNCHANGED <<exists, saved, roster, created>>
    PROVE  RosterInv'
<1>1. Shapes /\ FilesSound
    BY DEF RosterInv
<1>2. Shapes'
    BY <1>1 DEF Shapes
<1>3. ListSound'
    BY DEF ListSound
<1>4. FilesSound'
    BY <1>1 DEF FilesSound
<1>5. JobSound'
    BY DEF JobSound, Idle
<1> QED
    BY <1>2, <1>3, <1>4, <1>5 DEF RosterInv

\* One connection changes, and neither the list nor the files.
LEMMA InvOne ==
    ASSUME RosterInv, NEW n \in Conns, NEW k \in {Free} \cup NewConns \cup PlayConns,
           conn' = [conn EXCEPT ![n] = k], k \in PlayConns <=> conn[n] \in PlayConns,
           k \in NewConns => k.account \in saved,
           k \in PlayConns => /\ k.char = conn[n].char /\ k.account = conn[n].account
                              /\ conn[n].mem <= k.mem /\ k.mem <= version',
           version' \in 0..MaxVersion, version <= version', job' = Idle,
           UNCHANGED <<up, files, players, created, split>>
    PROVE  RosterInv'
<1>1. /\ Shapes /\ ListSound /\ (\A m \in Conns : ConnSound(m)) /\ FilesSound /\ OneSession
    BY DEF RosterInv
<1>2. UNCHANGED <<exists, saved, roster, pfile>>
    BY DEF files
<1>3. /\ conn' \in [Conns -> {Free} \cup NewConns \cup PlayConns] /\ conn'[n] = k
      /\ \A m \in Conns : m # n => conn'[m] = conn[m]
    BY <1>1 DEF Shapes
<1>4. /\ \A m \in Conns : conn'[m] \in PlayConns <=> conn[m] \in PlayConns
      /\ \A m \in Conns : conn[m] \in PlayConns => conn'[m].char = conn[m].char
    BY <1>3
<1>5. players' \in Seq(Conns) /\ Once(players') /\ \A m \in Conns : conn'[m] \in PlayConns <=> In(m, players')
    BY <1>1, <1>4 DEF Shapes, ListSound
<1>6. version \in Nat /\ version' \in Nat
    BY <1>1, BoundsAssumption DEF Shapes
<1>7. \A m \in Conns : ConnSound(m)'
  <2> SUFFICES ASSUME NEW m \in Conns PROVE ConnSound(m)'
      OBVIOUS
  <2>1. ConnSound(m)
      BY <1>1
  <2>2. conn[m] \in PlayConns => conn[m].mem \in Nat /\ conn[m].char \in Chars
      BY DEF PlayConns
  <2>3. \A c \in Chars : pfile[c] \in Int
      BY <1>1 DEF Shapes
  <2>4. CASE m # n
      BY <1>2, <1>3, <1>6, <2>1, <2>2, <2>4 DEF ConnSound
  <2>5. CASE m = n
    <3>1. k \in PlayConns => k.mem \in Nat
        BY DEF PlayConns
    <3>2. k \in PlayConns /\ k.char \notin split => pfile[k.char] <= k.mem
        BY <2>1, <2>2, <2>3, <2>5, <3>1 DEF ConnSound
    <3>3. k \in PlayConns => k.char \in roster[k.account]
        BY <2>1, <2>5 DEF ConnSound
    <3> QED
        BY <1>2, <1>3, <2>5, <3>2, <3>3 DEF ConnSound
  <2> QED
      BY <2>4, <2>5
<1>8. OneSession'
    BY <1>1, <1>4 DEF OneSession
<1>9. /\ pfile' \in [Chars -> -1..MaxVersion]
      /\ \A a \in Accounts : \A c \in roster[a] : pfile'[c] # NoFile
    BY <1>1, <1>2 DEF Shapes, FilesSound
<1>10. \A c \in Chars : pfile'[c] <= version'
  <2> SUFFICES ASSUME NEW c \in Chars PROVE pfile'[c] <= version'
      OBVIOUS
  <2>1. pfile[c] \in Int /\ pfile[c] <= version
      BY <1>1 DEF Shapes, FilesSound
  <2> QED
      BY <1>2, <1>6, <2>1
<1>11. up' \in BOOLEAN /\ split' \subseteq Chars
    BY <1>1 DEF Shapes
<1> QED
    BY <1>2, <1>3, <1>5, <1>7, <1>8, <1>9, <1>10, <1>11, InvSession

LEMMA InvLogin ==
    ASSUME RosterInv, NEW n \in Conns, NEW a \in Accounts, Login(n, a) PROVE RosterInv'
<1> DEFINE k == [phase |-> "login", account |-> a]
<1>1. /\ conn[n] = Free /\ a \in saved /\ job = Idle /\ conn' = [conn EXCEPT ![n] = k]
      /\ UNCHANGED <<up, files, players, job, version, created, split>>
    BY DEF Login, Serving, history
<1>2. k \in NewConns /\ k.account = a /\ k \notin PlayConns
    BY DEF NewConns, PlayConns
<1> HIDE DEF k
<1>3. conn[n] \notin PlayConns
    BY <1>1 DEF Free, PlayConns
<1>4. version' \in 0..MaxVersion /\ version <= version'
    BY <1>1, BoundsAssumption DEF RosterInv, Shapes
<1> QED
    BY <1>1, <1>2, <1>3, <1>4, InvOne

\* What is known of a connection that controls a player.
LEMMA PlayFact ==
    ASSUME RosterInv, NEW n \in Conns, conn[n].phase \in {"playing", "dead"}
    PROVE  /\ conn[n] \in PlayConns /\ conn[n].char \in Chars /\ conn[n].account \in Accounts
           /\ conn[n].mem \in 0..version /\ version \in 0..MaxVersion /\ MaxVersion \in Nat
           /\ conn[n].char \in roster[conn[n].account]
           /\ conn[n].char \notin split => pfile[conn[n].char] <= conn[n].mem
<1>1. conn[n] \in PlayConns
    BY ConnPhases DEF RosterInv, Shapes
<1>2. MaxVersion \in Nat /\ version \in 0..MaxVersion
    BY BoundsAssumption DEF RosterInv, Shapes
<1>3. ConnSound(n)
    BY DEF RosterInv
<1>4. conn[n].char \in Chars /\ conn[n].account \in Accounts /\ conn[n].mem \in Nat
    BY <1>1, <1>2 DEF PlayConns
<1> QED
    BY <1>1, <1>2, <1>3, <1>4 DEF ConnSound

LEMMA InvPlays == ASSUME RosterInv, NEW n \in Conns, Play(n) PROVE RosterInv'
<1>1. /\ conn[n].phase = "playing" /\ version < MaxVersion /\ version' = version + 1 /\ job' = Idle
      /\ conn' = [conn EXCEPT ![n].mem = version + 1]
      /\ UNCHANGED <<up, files, players, created, split>>
    BY DEF Play, Serving
<1>2. conn[n] \in PlayConns /\ conn[n].mem \in 0..version /\ version \in 0..MaxVersion /\ MaxVersion \in Nat
    BY <1>1, PlayFact
<1>3. version' \in 0..MaxVersion /\ version <= version' /\ conn[n].mem <= version'
    BY <1>1, <1>2
<1> DEFINE k == [conn[n] EXCEPT !.mem = version']
<1>4. conn' = [conn EXCEPT ![n] = k]
    BY <1>1 DEF RosterInv, Shapes
<1>5. /\ k \in PlayConns /\ k.char = conn[n].char /\ k.account = conn[n].account /\ k.mem = version'
    BY <1>2, <1>3 DEF PlayConns
<1> HIDE DEF k
<1>6. k \notin NewConns /\ k.mem <= version'
    BY <1>3, <1>5 DEF PlayConns, NewConns
<1> QED
    BY <1>1, <1>2, <1>3, <1>4, <1>5, <1>6, InvOne

\* A transaction is opened or closed, or the connection ends: the player stays.
LEMMA InvSame ==
    ASSUME RosterInv, NEW n \in Conns, conn[n] \in PlayConns, NEW k \in PlayConns,
           k.char = conn[n].char, k.account = conn[n].account, k.mem = conn[n].mem,
           conn' = [conn EXCEPT ![n] = k], job' = Idle, UNCHANGED <<up, files, players, history>>
    PROVE  RosterInv'
<1>1. conn[n].phase \in {"playing", "dead"}
    BY DEF PlayConns
<1>2. conn[n].mem \in 0..version /\ version \in 0..MaxVersion /\ MaxVersion \in Nat
    BY <1>1, PlayFact
<1>3. UNCHANGED <<version, created, split>>
    BY DEF history
<1>4. k \notin NewConns /\ conn[n].mem <= k.mem /\ k.mem <= version'
    BY <1>2, <1>3 DEF PlayConns, NewConns
<1>5. version' \in 0..MaxVersion /\ version <= version'
    BY <1>2, <1>3
<1> QED
    BY <1>3, <1>4, <1>5, InvOne

LEMMA InvOpen == ASSUME RosterInv, NEW n \in Conns, OpenTransaction(n) PROVE RosterInv'
<1>1. conn[n] \in PlayConns
    BY PlayFact DEF OpenTransaction
<1> DEFINE k == [conn[n] EXCEPT !.pinned = TRUE]
<1>2. k \in PlayConns /\ k.char = conn[n].char /\ k.account = conn[n].account /\ k.mem = conn[n].mem
    BY <1>1 DEF PlayConns
<1>3. conn' = [conn EXCEPT ![n] = k] /\ job' = Idle /\ UNCHANGED <<up, files, players, history>>
    BY DEF OpenTransaction, Serving, RosterInv, Shapes
<1> HIDE DEF k
<1> QED
    BY <1>1, <1>2, <1>3, InvSame

LEMMA InvClose == ASSUME RosterInv, NEW n \in Conns, Close(n) PROVE RosterInv'
<1>1. conn[n] \in PlayConns
  <2>1. n \in Range(players)
      BY DEF Close
  <2>2. In(n, players)
      BY <2>1 DEF Range, In, RosterInv, Shapes
  <2> QED
      BY <2>2 DEF RosterInv, ListSound
<1> DEFINE k == [conn[n] EXCEPT !.pinned = FALSE]
<1>2. k \in PlayConns /\ k.char = conn[n].char /\ k.account = conn[n].account /\ k.mem = conn[n].mem
    BY <1>1 DEF PlayConns
<1>3. conn' = [conn EXCEPT ![n] = k] /\ job' = Idle /\ UNCHANGED <<up, files, players, history>>
    BY DEF Close, Serving, Unpinned
<1> HIDE DEF k
<1> QED
    BY <1>1, <1>2, <1>3, InvSame

LEMMA InvDisconnect == ASSUME RosterInv, NEW n \in Conns, Disconnect(n) PROVE RosterInv'
<1>1. /\ job' = Idle /\ UNCHANGED <<up, files, players, history>>
      /\ conn[n].phase \in {"login", "playing"}
    BY DEF Disconnect, Serving
<1>2. CASE conn[n].phase = "login"
  <2>1. conn' = [conn EXCEPT ![n] = Free]
      BY <1>2 DEF Disconnect
  <2>2. conn[n] \notin PlayConns /\ Free \notin PlayConns /\ Free \notin NewConns
      BY <1>2 DEF Free, PlayConns, NewConns
  <2>3. UNCHANGED <<version, created, split>>
      BY <1>1 DEF history
  <2>4. version' \in 0..MaxVersion /\ version <= version'
      BY <2>3, BoundsAssumption DEF RosterInv, Shapes
  <2> QED
      BY <1>1, <2>1, <2>2, <2>3, <2>4, InvOne
<1>3. CASE conn[n].phase = "playing"
  <2>1. conn[n] \in PlayConns
      BY <1>3, PlayFact
  <2> DEFINE k == [conn[n] EXCEPT !.phase = "dead"]
  <2>2. k \in PlayConns /\ k.char = conn[n].char /\ k.account = conn[n].account /\ k.mem = conn[n].mem
      BY <2>1 DEF PlayConns
  <2>3. conn' = [conn EXCEPT ![n] = k]
      BY <1>3 DEF Disconnect
  <2> HIDE DEF k
  <2> QED
      BY <1>1, <2>1, <2>2, <2>3, InvSame
<1> QED
    BY <1>1, <1>2, <1>3

\* A version is written to the file of a character.
LEMMA WrittenFact ==
    ASSUME RosterInv, NEW c \in Chars, NEW v \in 0..version, pfile' = [pfile EXCEPT ![c] = v]
    PROVE  /\ pfile' \in [Chars -> -1..MaxVersion] /\ pfile'[c] = v
           /\ \A d \in Chars : d # c => pfile'[d] = pfile[d]
           /\ \A a \in Accounts : \A d \in roster[a] : pfile'[d] # NoFile
           /\ \A d \in Chars : pfile'[d] <= version
<1>1. Shapes /\ FilesSound
    BY DEF RosterInv
<1>2. MaxVersion \in Nat /\ version \in 0..MaxVersion /\ v \in -1..MaxVersion /\ v # NoFile
    BY <1>1, BoundsAssumption DEF Shapes, NoFile
<1>3. /\ pfile' \in [Chars -> -1..MaxVersion] /\ pfile'[c] = v
      /\ \A d \in Chars : d # c => pfile'[d] = pfile[d]
    BY <1>1, <1>2 DEF Shapes
<1>4. \A a \in Accounts : \A d \in roster[a] : d \in Chars /\ pfile'[d] # NoFile
    BY <1>1, <1>2, <1>3 DEF Shapes, FilesSound
<1>5. \A d \in Chars : pfile'[d] <= version
    BY <1>1, <1>2, <1>3 DEF FilesSound
<1> QED
    BY <1>3, <1>4, <1>5

\* A character that is listed has a version in its file.
LEMMA ListedFile ==
    ASSUME RosterInv, NEW a \in Accounts, NEW c \in roster[a]
    PROVE  c \in Chars /\ pfile[c] \in 0..version
<1>1. c \in Chars /\ pfile[c] # NoFile
    BY DEF RosterInv, Shapes, FilesSound
<1>2. pfile[c] \in -1..MaxVersion /\ MaxVersion \in Nat /\ version \in 0..MaxVersion /\ pfile[c] <= version
    BY <1>1, BoundsAssumption DEF RosterInv, Shapes, FilesSound
<1> QED
    BY <1>1, <1>2 DEF NoFile

\* player_save_checked() is the only session's if the character has one.
LEMMA InvSave == ASSUME RosterInv, NEW n \in Conns, Save(n) PROVE RosterInv'
<1> DEFINE c == conn[n].char
<1>1. /\ conn[n].phase = "playing" /\ job' = Idle /\ pfile' = [pfile EXCEPT ![c] = conn[n].mem]
      /\ UNCHANGED <<up, exists, saved, roster, conn, players, version, created, split>>
    BY DEF Save, Serving, history
<1>2. /\ Shapes /\ ListSound /\ (\A m \in Conns : ConnSound(m)) /\ OneSession
    BY DEF RosterInv
<1>3. c \in Chars /\ conn[n].mem \in 0..version /\ conn[n] \in PlayConns
    BY <1>1, PlayFact
<1>4. /\ pfile' \in [Chars -> -1..MaxVersion] /\ pfile'[c] = conn[n].mem
      /\ \A d \in Chars : d # c => pfile'[d] = pfile[d]
      /\ \A a \in Accounts : \A d \in roster[a] : pfile'[d] # NoFile
      /\ \A d \in Chars : pfile'[d] <= version
    BY <1>1, <1>3, WrittenFact
<1>5. \A m \in Conns : ConnSound(m)'
  <2> SUFFICES ASSUME NEW m \in Conns PROVE ConnSound(m)'
      OBVIOUS
  <2>1. ConnSound(m)
      BY <1>2
  <2>2. conn[m] \in PlayConns => conn[m].char \in Chars /\ conn[m].mem \in 0..MaxVersion
      BY DEF PlayConns
  <2>3. conn[m] \in PlayConns /\ conn[m].char \notin split => pfile'[conn[m].char] <= conn[m].mem
    <3>1. CASE conn[m].char # c
        BY <1>4, <2>1, <2>2, <3>1 DEF ConnSound
    <3>2. CASE conn[m].char = c
      <4>1. conn[m] \in PlayConns /\ c \notin split => m = n
          BY <1>2, <1>3, <3>2 DEF OneSession
      <4>2. conn[n].mem <= conn[n].mem
          BY <1>3
      <4> QED
          BY <1>4, <3>2, <4>1, <4>2
    <3> QED
        BY <3>1, <3>2
  <2> QED
      BY <1>1, <2>1, <2>3 DEF ConnSound
<1>6. OneSession'
    BY <1>1, <1>2 DEF OneSession
<1>7. /\ up' \in BOOLEAN /\ conn' \in [Conns -> {Free} \cup NewConns \cup PlayConns]
      /\ players' \in Seq(Conns) /\ version' \in 0..MaxVersion /\ split' \subseteq Chars
    BY <1>1, <1>2 DEF Shapes
<1>8. Once(players') /\ \A m \in Conns : conn'[m] \in PlayConns <=> In(m, players')
    BY <1>1, <1>2 DEF ListSound
<1>9. \A d \in Chars : pfile'[d] <= version'
    BY <1>1, <1>4
<1> HIDE DEF c
<1> QED
    BY <1>1, <1>4, <1>5, <1>6, <1>7, <1>8, <1>9, InvSession

\* What a logout leaves in the file.
LEMMA LeavesFact ==
    ASSUME RosterInv, NEW n \in Conns, conn[n] \in PlayConns, NEW kept \in Leaves(n)
    PROVE  /\ conn[n].char \in Chars /\ kept \in 0..version
           /\ conn[n].char \notin split => pfile[conn[n].char] <= kept
<1>1. conn[n].phase \in {"playing", "dead"}
    BY DEF PlayConns
<1>2. /\ conn[n].char \in Chars /\ conn[n].account \in Accounts /\ conn[n].mem \in 0..version
      /\ conn[n].char \in roster[conn[n].account]
      /\ conn[n].char \notin split => pfile[conn[n].char] <= conn[n].mem
    BY <1>1, PlayFact
<1>3. pfile[conn[n].char] \in 0..version
    BY <1>2, ListedFile
<1>4. kept = pfile[conn[n].char] \/ kept = conn[n].mem
    BY DEF Leaves
<1>5. pfile[conn[n].char] <= pfile[conn[n].char]
    BY <1>3
<1> QED
    BY <1>2, <1>3, <1>4, <1>5

LEMMA InvLogout == ASSUME RosterInv, NEW n \in Conns, Logout(n) PROVE RosterInv'
<1> DEFINE c == conn[n].char
<1>1. /\ conn[n].phase = "dead" /\ job' = Idle /\ conn' = [conn EXCEPT ![n] = Free]
      /\ players' = Without({n})
      /\ UNCHANGED <<up, exists, saved, roster, version, created, split>>
    BY DEF Logout, Serving, history
<1>2. /\ Shapes /\ ListSound /\ (\A m \in Conns : ConnSound(m)) /\ OneSession
    BY DEF RosterInv
<1>3. conn[n] \in PlayConns
    BY <1>1, PlayFact
<1>4. PICK kept \in Leaves(n) : pfile' = [pfile EXCEPT ![c] = kept]
    BY DEF Logout
<1>5. c \in Chars /\ kept \in 0..version
    BY <1>3, LeavesFact
<1>6. /\ pfile' \in [Chars -> -1..MaxVersion]
      /\ \A d \in Chars : d # c => pfile'[d] = pfile[d]
      /\ \A a \in Accounts : \A d \in roster[a] : pfile'[d] # NoFile
      /\ \A d \in Chars : pfile'[d] <= version
    BY <1>4, <1>5, WrittenFact
<1>7. Free \notin PlayConns /\ Free \notin NewConns
    BY DEF Free, PlayConns, NewConns
<1>8. /\ conn' \in [Conns -> {Free} \cup NewConns \cup PlayConns] /\ conn'[n] = Free
      /\ \A m \in Conns : m # n => conn'[m] = conn[m]
    BY <1>1, <1>2 DEF Shapes
<1>9. /\ players' \in Seq(Conns) /\ Once(players')
      /\ \A m \in Conns : In(m, players') <=> conn[m] \in PlayConns /\ m \notin {n}
  <2> DEFINE gone == {n}
  <2>1. gone \in SUBSET Conns /\ (\A m \in gone : conn[m] \in PlayConns) /\ \A m, k \in gone : m = k
      BY <1>3
  <2>2. players' = Without(gone)
      BY <1>1
  <2> HIDE DEF gone
  <2>3. /\ players' \in Seq(Conns) /\ Once(players')
        /\ \A m \in Conns : In(m, players') <=> conn[m] \in PlayConns /\ m \notin gone
      BY <1>2, <2>1, <2>2, WithoutFact
  <2> QED
      BY <2>3 DEF gone
<1>10. \A m \in Conns : conn'[m] \in PlayConns <=> In(m, players')
    BY <1>7, <1>8, <1>9
<1>11. \A m \in Conns : ConnSound(m)'
  <2> SUFFICES ASSUME NEW m \in Conns PROVE ConnSound(m)'
      OBVIOUS
  <2>1. ConnSound(m)
      BY <1>2
  <2>2. CASE m = n
      BY <1>7, <1>8, <2>2 DEF ConnSound
  <2>3. CASE m # n
    <3>1. conn'[m] = conn[m]
        BY <1>8, <2>3
    <3>2. conn[m] \in PlayConns => conn[m].char \in Chars
        BY DEF PlayConns
    <3>3. conn[m] \in PlayConns /\ conn[m].char \notin split => conn[m].char # c
        BY <1>2, <1>3, <2>3 DEF OneSession
    <3>4. conn[m] \in PlayConns /\ conn[m].char \notin split => pfile'[conn[m].char] <= conn[m].mem
        BY <1>6, <2>1, <3>2, <3>3 DEF ConnSound
    <3> QED
        BY <1>1, <2>1, <3>1, <3>4 DEF ConnSound
  <2> QED
      BY <2>2, <2>3
<1>12. OneSession'
    BY <1>1, <1>2, <1>7, <1>8 DEF OneSession
<1>13. up' \in BOOLEAN /\ version' \in 0..MaxVersion /\ split' \subseteq Chars
    BY <1>1, <1>2 DEF Shapes
<1>14. \A d \in Chars : pfile'[d] <= version'
    BY <1>1, <1>6
<1> HIDE DEF c
<1> QED
    BY <1>1, <1>6, <1>8, <1>9, <1>10, <1>11, <1>12, <1>13, <1>14, InvSession

LEMMA InvStart == ASSUME RosterInv, Start PROVE RosterInv'
<1>1. /\ up' = TRUE /\ job = Idle
      /\ UNCHANGED <<exists, saved, roster, pfile, conn, players, job, version, created, split>>
    BY DEF Start, files, history
<1>2. Shapes'
    BY <1>1 DEF RosterInv, Shapes
<1> QED
    BY <1>1, <1>2 DEF RosterInv, ListSound, ConnSound, FilesSound, JobSound, OneSession

LEMMA InvEnd == ASSUME RosterInv, End PROVE RosterInv'
<1>1. /\ up' = FALSE /\ job' = Idle /\ conn' = [n \in Conns |-> Free] /\ players' = <<>>
      /\ UNCHANGED <<exists, saved, roster, pfile, version, created, split>>
    BY DEF End, files, history
<1>2. Free \notin PlayConns /\ Free \notin NewConns
    BY DEF Free, PlayConns, NewConns
<1>3. conn' \in [Conns -> {Free} \cup NewConns \cup PlayConns] /\ \A n \in Conns : conn'[n] = Free
    BY <1>1
<1>4. players' \in Seq(Conns) /\ Once(players') /\ \A n \in Conns : ~In(n, players')
    BY <1>1 DEF Once, In
<1>5. (\A n \in Conns : ConnSound(n)') /\ OneSession'
    BY <1>2, <1>3 DEF ConnSound, OneSession
<1>6. /\ pfile' \in [Chars -> -1..MaxVersion] /\ version' \in 0..MaxVersion /\ split' \subseteq Chars
      /\ \A a \in Accounts : \A c \in roster[a] : pfile'[c] # NoFile
      /\ \A c \in Chars : pfile'[c] <= version'
    BY <1>1 DEF RosterInv, Shapes, FilesSound
<1>7. \A n \in Conns : conn'[n] \in PlayConns <=> In(n, players')
    BY <1>2, <1>3, <1>4
<1>8. up' \in BOOLEAN
    BY <1>1
<1> QED
    BY <1>1, <1>3, <1>4, <1>5, <1>6, <1>7, <1>8, InvSession

\* The session that is found and cannot end, and what may be left in the file.
Unended(c) == {o \in Found(c) : conn[o].pinned}
Left(c) == IF Found(c) = Unended(c) THEN {pfile[c]} ELSE UNION {Leaves(o) : o \in Found(c)}

\* What player_login() finds, and what it leaves in the file.
LEMMA LoginFact ==
    ASSUME RosterInv, NEW n \in Conns, NEW c \in Chars, LoginChar(n, c), NEW kept \in Left(c)
    PROVE  /\ conn[n] \in NewConns /\ conn[n].account \in Accounts /\ c \in roster[conn[n].account]
           /\ Found(c) \in SUBSET Conns /\ (\A m, o \in Found(c) : m = o) /\ n \notin Found(c)
           /\ \A m \in Found(c) : conn[m] \in PlayConns /\ conn[m].char = c
           /\ c \notin split => \A m \in Conns : conn[m] \in PlayConns /\ conn[m].char = c => m \in Found(c)
           /\ Unended(c) = {} \/ Unended(c) = Found(c)
           /\ kept \in 0..version
           /\ c \notin split => pfile[c] <= kept
           /\ Unended(c) # {} => kept = pfile[c]
<1> DEFINE old == Found(c)
           open == Unended(c)
<1>0. open = {o \in old : conn[o].pinned}
    BY DEF Unended
<1>1. conn[n].phase = "login" /\ c \in roster[conn[n].account]
    BY DEF LoginChar
<1>2. conn[n] \in NewConns /\ conn[n].account \in Accounts
  <2>1. conn[n] \in NewConns
      BY <1>1, ConnPhases DEF RosterInv, Shapes
  <2> QED
      BY <2>1 DEF NewConns
<1>3. /\ old \in SUBSET Conns /\ \A m, o \in old : m = o
      /\ \A m \in old : conn[m] \in PlayConns /\ conn[m].char = c
      /\ c \notin split => \A m \in Conns : conn[m] \in PlayConns /\ conn[m].char = c => m \in old
    BY FoundFact
<1>a. kept \in IF old = open THEN {pfile[c]} ELSE UNION {Leaves(o) : o \in old}
    BY DEF Left
<1> HIDE DEF old, open
<1>4. n \notin old
    BY <1>2, <1>3 DEF NewConns, PlayConns
<1>5. open = {} \/ open = old
    BY <1>0, <1>3
<1>6. pfile[c] \in 0..version /\ pfile[c] <= pfile[c]
  <2>1. pfile[c] \in 0..version
      BY <1>1, <1>2, ListedFile
  <2> QED
      BY <2>1
<1>7. CASE old = open
    BY <1>1, <1>2, <1>3, <1>4, <1>5, <1>6, <1>7, <1>a DEF old, open
<1>8. CASE old # open
  <2>1. PICK o \in old : kept \in Leaves(o)
      BY <1>8, <1>a
  <2>2. o \in Conns /\ conn[o] \in PlayConns /\ conn[o].char = c
      BY <1>3, <2>1
  <2>3. kept \in 0..version /\ (c \notin split => pfile[c] <= kept)
      BY <2>1, <2>2, LeavesFact
  <2> QED
      BY <1>1, <1>2, <1>3, <1>4, <1>5, <1>8, <2>3 DEF old, open
<1> QED
    BY <1>7, <1>8

LEMMA InvLoginChar ==
    ASSUME RosterInv, NEW n \in Conns, NEW c \in Chars, LoginChar(n, c)
    PROVE  RosterInv'
<1> DEFINE old == Found(c)
           open == Unended(c)
           gone == old \ open
<1>1. PICK kept \in Left(c), refused \in BOOLEAN :
        /\ pfile' = [pfile EXCEPT ![c] = kept]
        /\ conn' = [o \in Conns |->
                      IF o = n
                      THEN IF refused THEN Free
                           ELSE [phase |-> "playing", account |-> conn[n].account, char |-> c,
                                 mem |-> Loaded(c, kept), pinned |-> FALSE]
                      ELSE IF o \in open THEN TakenOver(o)
                      ELSE IF o \in old THEN Free ELSE conn[o]]
        /\ players' = Without(gone) \o (IF refused THEN <<>> ELSE <<n>>)
        /\ split' = IF open = {} \/ refused THEN split ELSE split \cup {c}
    BY ZenonT(60) DEF LoginChar, Left, Unended
<1>2. /\ conn[n] \in NewConns /\ conn[n].account \in Accounts /\ c \in roster[conn[n].account]
      /\ old \in SUBSET Conns /\ (\A m, o \in old : m = o) /\ n \notin old
      /\ \A m \in old : conn[m] \in PlayConns /\ conn[m].char = c
      /\ c \notin split => \A m \in Conns : conn[m] \in PlayConns /\ conn[m].char = c => m \in old
      /\ open = {} \/ open = old
      /\ kept \in 0..version
      /\ c \notin split => pfile[c] <= kept
      /\ open # {} => kept = pfile[c]
    BY LoginFact
<1>3. job' = Idle /\ UNCHANGED <<up, exists, saved, roster, version, created>>
    BY DEF LoginChar, Serving
<1>4. /\ Shapes /\ ListSound /\ (\A m \in Conns : ConnSound(m)) /\ OneSession
    BY DEF RosterInv
<1> DEFINE k == [phase |-> "playing", account |-> conn[n].account, char |-> c, mem |-> kept, pinned |-> FALSE]
<1>5. k \in PlayConns /\ k.char = c /\ k.mem = kept /\ k.account = conn[n].account
  <2>1. kept \in 0..MaxVersion
      BY <1>2, <1>4, BoundsAssumption DEF Shapes
  <2> QED
      BY <1>2, <2>1 DEF PlayConns
<1>6. conn'[n] = IF refused THEN Free ELSE k
    BY <1>1 DEF Loaded
<1> HIDE DEF k
<1>7. /\ \A m \in open : conn'[m] = TakenOver(m)
      /\ \A m \in gone : conn'[m] = Free
      /\ \A m \in Conns : m # n /\ m \notin old => conn'[m] = conn[m]
    BY <1>1, <1>2
<1>8. open \subseteq old /\ gone \subseteq old /\ gone \in SUBSET Conns /\ old \subseteq open \cup gone
    BY <1>2 DEF Unended
<1>9. gone = {} \/ open = {}
    BY <1>2
<1>10. \A m \in gone : m \notin open
    OBVIOUS
<1>11. /\ players' = Without(gone) \o (IF refused THEN <<>> ELSE <<n>>)
       /\ split' = IF open = {} \/ refused THEN split ELSE split \cup {c}
       /\ pfile' = [pfile EXCEPT ![c] = kept]
       /\ conn' = [o \in Conns |-> conn'[o]]
    BY <1>1
<1> HIDE DEF old, open, gone
\* What becomes of the connections.
<1>12. \A m \in open : /\ conn'[m] \in PlayConns /\ conn'[m].char = c
                       /\ conn'[m].account = conn[m].account /\ conn'[m].mem = conn[m].mem
  <2> SUFFICES ASSUME NEW m \in open
               PROVE  /\ conn'[m] \in PlayConns /\ conn'[m].char = c
                      /\ conn'[m].account = conn[m].account /\ conn'[m].mem = conn[m].mem
      OBVIOUS
  <2>1. conn[m] \in PlayConns /\ conn[m].char = c /\ conn'[m] = [conn[m] EXCEPT !.phase = "dead"]
      BY <1>2, <1>7, <1>8 DEF TakenOver
  <2> QED
      BY <2>1 DEF PlayConns
<1>13. Free \notin PlayConns /\ Free \notin NewConns /\ k \notin NewConns /\ conn[n] \notin PlayConns
    BY <1>2, <1>5 DEF Free, PlayConns, NewConns
<1>14. \A m \in Conns : m = n \/ m \in open \/ m \in gone \/ (m # n /\ m \notin old)
    BY <1>8
<1>15. conn' \in [Conns -> {Free} \cup NewConns \cup PlayConns]
  <2>1. \A m \in Conns : conn'[m] \in {Free} \cup NewConns \cup PlayConns
    <3> SUFFICES ASSUME NEW m \in Conns PROVE conn'[m] \in {Free} \cup NewConns \cup PlayConns
        OBVIOUS
    <3>1. conn[m] \in {Free} \cup NewConns \cup PlayConns
        BY <1>4 DEF Shapes
    <3> QED
        BY <1>5, <1>6, <1>7, <1>12, <1>14, <3>1
  <2> QED
      BY <1>11, <2>1
\* The list.
<1>16. /\ Without(gone) \in Seq(Conns) /\ Once(Without(gone))
       /\ \A m \in Conns : In(m, Without(gone)) <=> conn[m] \in PlayConns /\ m \notin gone
  <2>1. (\A m \in gone : conn[m] \in PlayConns) /\ \A m, o \in gone : m = o
      BY <1>2, <1>8
  <2> QED
      BY <1>4, <1>8, <2>1, WithoutFact
<1> DEFINE r == Without(gone)
<1>17. /\ players' \in Seq(Conns) /\ Once(players')
       /\ \A m \in Conns : conn'[m] \in PlayConns <=> In(m, players')
  <2>1. \A m \in Conns : m # n => (conn'[m] \in PlayConns <=> conn[m] \in PlayConns /\ m \notin gone)
      BY <1>2, <1>7, <1>8, <1>9, <1>10, <1>12, <1>13, <1>14
  <2>2. ~In(n, Without(gone))
      BY <1>13, <1>16
  <2>3. CASE refused
    <3>1. players' = Without(gone)
      <4>1. players' = Without(gone) \o <<>>
          BY <1>11, <2>3
      <4> HIDE DEF r
      <4>2. r \in Seq(Conns)
          BY <1>16 DEF r
      <4>3. r \o <<>> = r
          BY <4>2
      <4> QED
          BY <4>1, <4>3 DEF r
    <3> QED
        BY <1>6, <1>13, <1>16, <2>1, <2>2, <2>3, <3>1
  <2>4. CASE ~refused
    <3>1. players' = Without(gone) \o <<n>>
        BY <1>11, <2>4
    <3>2. /\ players' \in Seq(Conns) /\ Once(players')
          /\ \A m \in Conns : In(m, players') <=> In(m, Without(gone)) \/ m = n
        BY <1>16, <2>2, <3>1, AppendedFact
    <3> QED
        BY <1>5, <1>6, <1>16, <2>1, <2>4, <3>2
  <2> QED
      BY <2>3, <2>4
\* The files.
<1>18. /\ pfile' \in [Chars -> -1..MaxVersion] /\ pfile'[c] = kept
       /\ \A d \in Chars : d # c => pfile'[d] = pfile[d]
       /\ \A a \in Accounts : \A d \in roster[a] : pfile'[d] # NoFile
       /\ \A d \in Chars : pfile'[d] <= version
    BY <1>2, <1>11, WrittenFact
<1>19. split \subseteq split' /\ split' \subseteq Chars /\ (c \notin split' => c \notin split /\ (open = {} \/ refused))
    BY <1>4, <1>11 DEF Shapes
<1>20. kept <= kept /\ kept <= version
    BY <1>2
\* The only session of the character, if it was not taken over.
<1>21. ASSUME c \notin split', NEW m \in Conns, conn'[m] \in PlayConns, conn'[m].char = c
       PROVE  (m = n /\ ~refused /\ open = {}) \/ (m \in open /\ refused)
  <2>1. m # n /\ m \notin old => conn[m] \in PlayConns /\ conn[m].char = c
      BY <1>7, <1>21
  <2>2. m = n \/ m \in old
      BY <1>2, <1>19, <1>21, <2>1
  <2>3. m \notin gone
      BY <1>7, <1>13, <1>21
  <2>4. m = n => ~refused
      BY <1>6, <1>13, <1>21
  <2> QED
      BY <1>8, <1>19, <1>21, <2>2, <2>3, <2>4
<1>22. OneSession'
  <2> SUFFICES ASSUME NEW m \in Conns, NEW o \in Conns, conn'[m] \in PlayConns, conn'[o] \in PlayConns,
                      conn'[m].char = conn'[o].char, conn'[m].char \notin split'
               PROVE  m = o
      BY DEF OneSession
  <2>1. CASE conn'[m].char = c
      BY <1>2, <1>8, <1>21, <2>1
  <2>2. CASE conn'[m].char # c
    <3>1. \A x \in {m, o} : conn'[x] = conn[x]
        BY <1>5, <1>6, <1>7, <1>12, <1>13, <1>14, <2>2
    <3> QED
        BY <1>4, <1>19, <3>1 DEF OneSession
  <2> QED
      BY <2>1, <2>2
<1>23. \A m \in Conns : ConnSound(m)'
  <2> SUFFICES ASSUME NEW m \in Conns PROVE ConnSound(m)'
      OBVIOUS
  <2>1. ConnSound(m)
      BY <1>4
  <2>2. conn[m] \in PlayConns => conn[m].char \in Chars
      BY DEF PlayConns
  <2>3. CASE m = n
    <3>1. CASE refused
        BY <1>6, <1>13, <2>3, <3>1 DEF ConnSound
    <3>2. CASE ~refused
        BY <1>2, <1>3, <1>5, <1>6, <1>13, <1>18, <1>20, <2>3, <3>2 DEF ConnSound
    <3> QED
        BY <3>1, <3>2
  <2>4. CASE m \in open
    <3>1. conn[m] \in PlayConns /\ conn[m].char = c
        BY <1>2, <1>8, <2>4
    <3>2. conn'[m] \in PlayConns /\ conn'[m] \notin NewConns /\ conn'[m].char = c
          /\ conn'[m].account = conn[m].account /\ conn'[m].mem = conn[m].mem
        BY <1>12, <2>4 DEF PlayConns, NewConns
    <3>3. pfile'[c] = pfile[c]
        BY <1>2, <1>18, <2>4
    <3>4. c \notin split' => c \notin split
        BY <1>19
    <3> QED
        BY <1>3, <2>1, <3>1, <3>2, <3>3, <3>4 DEF ConnSound
  <2>5. CASE m \in gone
      BY <1>7, <1>13, <2>5 DEF ConnSound
  <2>6. CASE m # n /\ m \notin old
    <3>1. conn'[m] = conn[m]
        BY <1>7, <2>6
    <3>2. conn[m] \in PlayConns /\ conn[m].char \notin split' =>
            conn[m].char # c /\ conn[m].char \notin split
        BY <1>2, <1>19, <2>6
    <3>3. conn[m] \in PlayConns /\ conn[m].char \notin split' => pfile'[conn[m].char] <= conn[m].mem
        BY <1>18, <2>1, <2>2, <3>2 DEF ConnSound
    <3> QED
        BY <1>3, <2>1, <3>1, <3>3 DEF ConnSound
  <2> QED
      BY <1>14, <2>3, <2>4, <2>5, <2>6
<1>24. up' \in BOOLEAN /\ version' \in 0..MaxVersion
    BY <1>3, <1>4 DEF Shapes
<1>25. \A d \in Chars : pfile'[d] <= version'
    BY <1>3, <1>18
<1> QED
    BY <1>3, <1>15, <1>17, <1>18, <1>19, <1>22, <1>23, <1>24, <1>25, InvSession

-----------------------------------------------------------------------------
(* The theorems. *)

LEMMA RosterInvNext == ASSUME RosterInv, [RosterNext]_roster_vars PROVE RosterInv'
<1>1. CASE RosterNext
    BY <1>1, InvProvision, InvProvisionPlayer, InvProvisionSave, InvUnreserve, InvStart, InvRegisterSave,
       InvNewCharSave, InvRegister, InvLogin, InvNewChar, InvLoginChar, InvPlays, InvOpen, InvClose,
       InvSave, InvDisconnect, InvLogout, InvEnd
    DEF RosterNext
<1>2. CASE UNCHANGED roster_vars
  <2>1. UNCHANGED <<up, exists, saved, roster, pfile, conn, players, job, version, created, split>>
      BY <1>2 DEF roster_vars, files, history
  <2> QED
      BY <2>1 DEF RosterInv, Shapes, ListSound, ConnSound, FilesSound, JobSound, OneSession
<1> QED
    BY <1>1, <1>2

\* The sessions of a character are the players that are it.
LEMMA SessionsFact ==
    ASSUME RosterInv, NEW c
    PROVE  \A n : n \in Sessions(c) <=> n \in Conns /\ conn[n] \in PlayConns /\ conn[n].char = c
<1>1. players \in Seq(Conns) /\ \A n \in Conns : conn[n] \in PlayConns <=> In(n, players)
    BY DEF RosterInv, Shapes, ListSound
<1>2. \A n : n \in Range(players) <=> n \in Conns /\ In(n, players)
    BY <1>1 DEF Range, In
<1> QED
    BY <1>1, <1>2 DEF Sessions

LEMMA RosterInvSound == RosterInv => RosterSound
<1> SUFFICES ASSUME RosterInv PROVE RosterSound
    OBVIOUS
<1>1. /\ Shapes /\ ListSound /\ (\A n \in Conns : ConnSound(n)) /\ FilesSound /\ OneSession
    BY DEF RosterInv
<1>2. ARTypeOK
  <2>1. \A n \in Conns : /\ conn[n].phase \in Phases
                         /\ conn[n].phase \in {"playing", "dead"} <=> n \in Range(players)
    <3> SUFFICES ASSUME NEW n \in Conns
                 PROVE  /\ conn[n].phase \in Phases
                        /\ conn[n].phase \in {"playing", "dead"} <=> n \in Range(players)
        OBVIOUS
    <3>1. conn[n].phase \in Phases /\ (conn[n] \in PlayConns <=> conn[n].phase \in {"playing", "dead"})
        BY <1>1, ConnPhases DEF Shapes
    <3>2. conn[n] \in PlayConns <=> In(n, players)
        BY <1>1 DEF ListSound
    <3>3. In(n, players) <=> n \in Range(players)
        BY SMTT(30), <1>1 DEF Shapes, In, Range
    <3> QED
        BY <3>1, <3>2, <3>3
  <2>2. \A c \in Chars, n \in Conns : n \in Sessions(c) => c \in roster[conn[n].account]
      BY <1>1, SessionsFact DEF ConnSound
  <2>3. \A a \in Accounts : roster[a] \subseteq Chars /\ (roster[a] # {} => a \in saved)
      BY <1>1 DEF Shapes, FilesSound
  <2>4. \A c \in Chars : pfile[c] \in -1..MaxVersion
      BY <1>1 DEF Shapes
  <2> QED
      BY <1>1, <2>1, <2>2, <2>3, <2>4 DEF ARTypeOK, Shapes
<1>3. RosterHasFiles /\ OneOwner
    BY <1>1 DEF RosterHasFiles, OneOwner, FilesSound
<1>4. CreatedStay
  <2>1. \A p \in created : p[1] \in Accounts /\ p[2] \in roster[p[1]]
      BY <1>1 DEF Shapes, FilesSound
  <2> QED
      BY <1>1, <2>1 DEF CreatedStay, FilesSound
<1>5. OneAlive
  <2> SUFFICES ASSUME NEW c \in Chars \ split
               PROVE  Cardinality({n \in Sessions(c) : conn[n].phase = "playing"}) <= 1
      BY DEF OneAlive
  <2> DEFINE alive == {n \in Sessions(c) : conn[n].phase = "playing"}
  <2>1. \A m, n \in alive : m = n
      BY <1>1, SessionsFact DEF OneSession
  <2>2. CASE alive = {}
      BY <2>2, FS_EmptySet
  <2>3. CASE alive # {}
    <3>1. PICK n : alive = {n}
        BY <2>1, <2>3
    <3> HIDE DEF alive
    <3>2. Cardinality({n}) = 1
        BY FS_Singleton
    <3>3. Cardinality(alive) = 1
        BY <3>1, <3>2
    <3> QED
        BY <3>3 DEF alive
  <2> QED
      BY <2>2, <2>3
<1> QED
    BY <1>2, <1>3, <1>4, <1>5 DEF RosterSound

\* Accounts, character files and sessions agree, whatever fails between two
\* files of a handler and wherever the process ends: an account lists only
\* characters that have a file, a character has one account, one that was
\* reported as created stays, and unless it was taken over from a session whose
\* logout was deferred it is played by one session at a time.
THEOREM RosterIsSound == RosterSpec => []RosterSound
<1>1. RosterInit => RosterInv
    BY RosterInvInit
<1>2. RosterInv /\ [RosterNext]_roster_vars => RosterInv'
    BY RosterInvNext
<1>3. RosterInv => RosterSound
    BY RosterInvSound
<1> QED
    BY <1>1, <1>2, <1>3, PTL DEF RosterSpec

\* A step that leaves a file as it was takes nothing back.
LEMMA SameFiles ==
    ASSUME RosterInv, UNCHANGED pfile
    PROVE  \A c \in Chars : ~(pfile'[c] < pfile[c])
BY DEF RosterInv, Shapes

\* One step: a file goes back only if nobody lists the character.
LEMMA StepForward ==
    ASSUME RosterInv, RosterNext
    PROVE  \A c \in Chars \ split' :
              pfile'[c] < pfile[c] => pfile[c] = EmptyFile /\ \A a \in Accounts : c \notin roster[a]
<1> DEFINE Goal == \A d \in Chars \ split' :
              pfile'[d] < pfile[d] => pfile[d] = EmptyFile /\ \A a \in Accounts : d \notin roster[a]
<1>1. \A d \in Chars : pfile[d] \in Int
    BY DEF RosterInv, Shapes
<1>2. pfile \in [Chars -> -1..MaxVersion]
    BY DEF RosterInv, Shapes
<1>3. ASSUME NEW c \in Chars, NEW v \in Int, pfile' = [pfile EXCEPT ![c] = v],
             c \notin split' => pfile[c] <= v
      PROVE  Goal
  <2>1. pfile'[c] = v /\ \A d \in Chars : d # c => pfile'[d] = pfile[d]
      BY <1>2, <1>3
  <2> QED
      BY <1>1, <1>3, <2>1
<1>4. ASSUME UNCHANGED pfile PROVE Goal
    BY <1>4, SameFiles
<1>5. ASSUME ProvisionPlayer PROVE Goal
  <2>1. job.char \in Chars
      BY <1>5, JobKinds DEF RosterInv, ProvisionPlayer
  <2>2. CASE pfile[job.char] = NoFile
    <3>1. PICK v \in Int : v = 0
        OBVIOUS
    <3>2. pfile' = [pfile EXCEPT ![job.char] = v] /\ pfile[job.char] <= v
        BY <1>5, <2>2, <3>1 DEF ProvisionPlayer, EmptyFile, NoFile
    <3> QED
        BY <1>3, <2>1, <3>2
  <2>3. CASE pfile[job.char] # NoFile
    <3>1. UNCHANGED pfile
        BY <1>5, <2>3 DEF ProvisionPlayer
    <3> QED
        BY <1>4, <3>1
  <2> QED
      BY <2>2, <2>3
<1>6. ASSUME ProvisionSave PROVE Goal
  <2>1. /\ job.char \in Chars /\ pfile[job.char] = EmptyFile
        /\ \A a \in Accounts : job.char \notin roster[a]
      BY <1>6, JobKinds DEF RosterInv, JobSound, ProvisionSave
  <2>2. CASE UNCHANGED pfile
      BY <1>4, <2>2
  <2>3. CASE pfile' = [pfile EXCEPT ![job.char] = NoFile]
    <3>1. \A d \in Chars : d # job.char => pfile'[d] = pfile[d]
        BY <1>2, <2>3
    <3> QED
        BY <1>1, <2>1, <3>1
  <2> QED
      BY <1>6, <2>2, <2>3 DEF ProvisionSave
<1>7. ASSUME NEW n \in Conns, NEW c \in Chars, NewChar(n, c) PROVE Goal
  <2>1. PICK v \in Int : v = 0
      OBVIOUS
  <2>2. pfile' = [pfile EXCEPT ![c] = v] /\ pfile[c] <= v
      BY <1>7, <2>1 DEF NewChar, NameFree, Touched, EmptyFile, NoFile
  <2> QED
      BY <1>3, <1>7, <2>2
<1>8. ASSUME NEW n \in Conns, NEW c \in Chars, LoginChar(n, c) PROVE Goal
  <2>1. PICK kept \in Left(c) :
          /\ pfile' = [pfile EXCEPT ![c] = kept]
          /\ split' = split \/ split' = split \cup {c}
      BY <1>8 DEF LoginChar, Left, Unended
  <2>2. kept \in 0..version /\ (c \notin split => pfile[c] <= kept)
      BY <1>8, LoginFact
  <2>3. kept \in Int /\ (c \notin split' => pfile[c] <= kept)
      BY <2>1, <2>2
  <2> QED
      BY <1>3, <2>1, <2>3
<1>9. ASSUME NEW n \in Conns, Save(n) PROVE Goal
  <2>1. /\ conn[n].char \in Chars /\ conn[n].mem \in Int
        /\ conn[n].char \notin split => pfile[conn[n].char] <= conn[n].mem
    <3>1. /\ conn[n].char \in Chars /\ conn[n].mem \in 0..version
          /\ conn[n].char \notin split => pfile[conn[n].char] <= conn[n].mem
        BY <1>9, PlayFact DEF Save
    <3> QED
        BY <3>1
  <2>2. pfile' = [pfile EXCEPT ![conn[n].char] = conn[n].mem] /\ split' = split
      BY <1>9 DEF Save, history
  <2> QED
      BY <1>3, <2>1, <2>2
<1>10. ASSUME NEW n \in Conns, Logout(n) PROVE Goal
  <2>1. conn[n] \in PlayConns
      BY <1>10, PlayFact DEF Logout
  <2>2. PICK kept \in Leaves(n) : pfile' = [pfile EXCEPT ![conn[n].char] = kept]
      BY <1>10 DEF Logout
  <2>3. /\ conn[n].char \in Chars /\ kept \in 0..version
        /\ conn[n].char \notin split => pfile[conn[n].char] <= kept
      BY <2>1, LeavesFact
  <2>4. split' = split
      BY <1>10 DEF Logout, history
  <2>5. kept \in Int
      BY <2>3
  <2> QED
      BY <1>3, <2>2, <2>3, <2>4, <2>5
<1>11. \/ UNCHANGED pfile \/ ProvisionPlayer \/ ProvisionSave
       \/ \E n \in Conns : Save(n) \/ Logout(n) \/ \E c \in Chars : NewChar(n, c) \/ LoginChar(n, c)
    BY DEF RosterNext, Provision, Unreserve, Start, Register, RegisterSave, Login, NewCharSave, Play,
           OpenTransaction, Close, Disconnect, End, files
<1> HIDE DEF Goal
<1>12. Goal
    BY <1>4, <1>5, <1>6, <1>7, <1>8, <1>9, <1>10, <1>11
<1> QED
    BY <1>12 DEF Goal

\* A character never goes back to an older version, by a logout, a save, a
\* login that takes it over or a failed provisioning; the exceptions are a
\* character that was taken over while its logout was deferred, and the empty
\* file of one that no account lists.
THEOREM NothingRollsBack == RosterSpec => NoRollback
<1>1. RosterInit => RosterInv
    BY RosterInvInit
<1>2. RosterInv /\ [RosterNext]_roster_vars => RosterInv'
    BY RosterInvNext
<1>3. RosterInv /\ [RosterNext]_roster_vars =>
        [\A c \in Chars \ split' :
            pfile'[c] < pfile[c] => pfile[c] = EmptyFile /\ \A a \in Accounts : c \notin roster[a]]_roster_vars
    BY StepForward
<1> QED
    BY <1>1, <1>2, <1>3, PTL DEF RosterSpec, NoRollback

-----------------------------------------------------------------------------
(***************************************************************************)
(* The receipts of the administrative shutdown, for every set of request   *)
(* IDs and every length of the countdowns.                                 *)
(***************************************************************************)

\* What is in memory without a process, and while a receipt is published.
ProcessSound ==
    /\ Running <=> status = "running"
    /\ status = "none" => scheduled = {}
    /\ ~Running => pending = None /\ ~failed /\ ~expired /\ reply = None
    /\ pc = "exit" => pending = None
    /\ pc \in Publishing => pub.text # "none" /\ pub.then # "none"
    /\ pc = "sync" /\ pub.ok => result[pending.id] # "none"

\* The directory holds what a power failure leaves, and more; what was
\* scheduled has its receipt, or is pending.
ReceiptsSound ==
    /\ \A i \in Ids : durable[i] \in {"none", result[i]}
    /\ reply \in scheduled \cup {None}
    /\ pending # None => pending.id \in scheduled
    /\ Running /\ ~failed =>
          \A i \in scheduled : durable[i] # "none" \/ (pending # None /\ pending.id = i)
    /\ CleanExitHasReceipts

\* The pending request owns the countdown, which is at zero once the request
\* has expired; a receipt that says saved belongs to such a request.
CountdownSound ==
    /\ pending # None => active /\ origin = pending.id
    /\ expired => \/ pc = "exit"
                  \/ pc \in {"saving"} \cup Publishing /\ pending # None /\ left = 0
    /\ pc \in Publishing /\ pub.text = "saved" => expired /\ ~lost

AdminInv == SHTypeOK /\ ProcessSound /\ ReceiptsSound /\ CountdownSound

\* The variables that are true or false.
Flags ==
    /\ endpoint \in BOOLEAN /\ active \in BOOLEAN /\ requested \in BOOLEAN
    /\ unhealthy \in BOOLEAN /\ expired \in BOOLEAN /\ failed \in BOOLEAN /\ lost \in BOOLEAN

\* The other variables' types.
AdminShapes ==
    /\ pc \in {"down", "check", "poll", "rest", "saving", "exit"} \cup Publishing
    /\ left \in {0} \cup UNION {0..s : s \in Secs}
    /\ pending \in Requests \cup {None}
    /\ pub \in [text : {"none", "saved", "failed", "cancelled"}, ok : BOOLEAN,
                then : {"none", "start", "stop", "finish"}, secs : Secs \cup {0}]
    /\ pc \in Publishing => pub # NoPub /\ pending # None
    /\ client \in {"none", "reading", "executing", "sending"}
    /\ reply \in Ids \cup {None}
    /\ tmp \subseteq Ids /\ scheduled \subseteq Ids /\ heard \subseteq scheduled
    /\ result \in [Ids -> {"none", "saved", "failed", "cancelled"}]
    /\ durable \in [Ids -> {"none", "saved", "failed", "cancelled"}]
    /\ status \in {"none", "running", "success", "failure", "crashed"}
    /\ origin \in Ids \cup {None, "manual"}

\* The type invariant is the two together.
LEMMA TypeParts == (SHTypeOK <=> Flags /\ AdminShapes) /\ (SHTypeOK' <=> Flags' /\ AdminShapes')
<1>1. {endpoint, active, requested, unhealthy, expired, failed, lost} \subseteq BOOLEAN <=> Flags
  BY Zenon DEF Flags
<1>2. {endpoint, active, requested, unhealthy, expired, failed, lost}' \subseteq BOOLEAN <=> Flags'
  BY Zenon DEF Flags
<1>3. SHTypeOK <=> Flags /\ AdminShapes
  BY <1>1 DEF SHTypeOK, AdminShapes
<1>4. SHTypeOK' <=> Flags' /\ AdminShapes'
  BY <1>2 DEF SHTypeOK, AdminShapes
<1> QED
  BY <1>3, <1>4

\* The first state has no process and no receipt.
LEMMA Initially == Init => AdminInv
<1> SUFFICES ASSUME Init PROVE AdminInv
  OBVIOUS
<1> USE DEF Init
<1>1. Flags
  BY Zenon DEF Flags
<1>2. AdminShapes
  BY DEF AdminShapes, NoPub, Publishing
<1>3. ProcessSound /\ ReceiptsSound /\ CountdownSound
  BY DEF ProcessSound, ReceiptsSound, CountdownSound, CleanExitHasReceipts, Running, Publishing
<1> QED
  BY <1>1, <1>2, <1>3, TypeParts DEF AdminInv

\* Every flag keeps its type.
LEMMA FlagsKeep == ASSUME Flags, Next PROVE Flags'
<1> USE DEF Flags, timer, disk, peer
<1>1. ASSUME StartServer \/ RemoveEndpoint \/ (\E i \in Ids : RemoveReceipt(i)) PROVE Flags'
  BY <1>1, ZenonT(40) DEF StartServer, RemoveEndpoint, RemoveReceipt
<1>2. ASSUME NEW ok \in BOOLEAN, Published(ok), UNCHANGED <<endpoint, requested, unhealthy, lost>>
      PROVE  Flags'
  BY <1>2, Zenon DEF Published, Latched, Continue
<1>3. ASSUME PublishCreate PROVE Flags'
  BY <1>2, <1>3, Zenon DEF PublishCreate
<1>4. ASSUME PublishWrite \/ PublishLink PROVE Flags'
  BY <1>4, Zenon DEF PublishWrite, PublishLink
<1>5. ASSUME PublishSync PROVE Flags'
  <2>1. PICK ok \in BOOLEAN : Published(ok)
    BY <1>5, Zenon DEF PublishSync
  <2> QED
    BY <1>2, <1>5, <2>1, Zenon DEF PublishSync
<1>6. ASSUME Check PROVE Flags'
  BY <1>6, Zenon DEF Check, Expires, TimerDue
<1>7. ASSUME Poll PROVE Flags'
  <2>1. UNCHANGED <<endpoint, requested, unhealthy, failed, lost>>
    BY <1>7 DEF Poll
  <2>2. NotScheduled \/ \E req \in Requests : Schedule(req)
    BY <1>7, Zenon DEF Poll, HandleOther, Handle, Repeat
  <2> QED
    BY <2>1, <2>2, Zenon DEF NotScheduled, Schedule
<1>8. ASSUME NEW t, NEW n, Manual(t, n) PROVE Flags'
  BY <1>8, Zenon DEF Manual, Continue
<1>9. ASSUME NEW t, LoopEnd(t) PROVE Flags'
  BY <1>9, Zenon DEF LoopEnd
<1>10. ASSUME SaveAll PROVE Flags'
  BY <1>10, Zenon DEF SaveAll
<1>11. ASSUME Gone, endpoint' \in BOOLEAN PROVE Flags'
  BY <1>11, Zenon DEF Gone
<1>12. ASSUME Exit PROVE Flags'
  BY <1>11, <1>12, Zenon DEF Exit
<1>13. ASSUME Signal \/ Sicken PROVE Flags'
  BY <1>13, Zenon DEF Signal, Sicken
<1>14. ASSUME Crash \/ PowerFailure PROVE Flags'
  BY <1>11, <1>14, Zenon DEF Crash, PowerFailure, Dies
<1> QED
  BY <1>1, <1>3, <1>4, <1>5, <1>6, <1>7, <1>8, <1>9, <1>10, <1>12, <1>13, <1>14, Zenon
     DEF Next, Publish, Loop, Commands

\* What the steps below keep; the flags are FlagsKeep's.
AdminRest == AdminShapes /\ ProcessSound /\ ReceiptsSound /\ CountdownSound

\* A process starts, with nothing in memory.
LEMMA StartServerKeeps == ASSUME Flags, AdminRest, StartServer PROVE AdminRest'
<1>1. /\ pc = "down" /\ pc' = "check" /\ status' = "running" /\ scheduled' = {} /\ heard' = {}
      /\ UNCHANGED <<active, left, pending, expired, failed, pub, client, reply, lost, origin, tmp,
                     result, durable>>
  BY DEF StartServer, timer, disk
<1> USE <1>1 DEF AdminRest
<1>2. AdminShapes'
  BY DEF AdminShapes, Publishing
<1>3. ProcessSound' /\ ReceiptsSound' /\ CountdownSound'
  BY DEF AdminShapes, Publishing, ProcessSound, ReceiptsSound, CountdownSound, CleanExitHasReceipts, Running
<1> QED
  BY <1>2, <1>3

\* The operator removes the endpoint.
LEMMA RemoveEndpointKeeps == ASSUME Flags, AdminRest, RemoveEndpoint PROVE AdminRest'
<1>1. UNCHANGED <<pc, active, left, pending, expired, failed, pub, client, reply, heard, lost, origin,
                  tmp, result, durable, status, scheduled>>
  BY DEF RemoveEndpoint, timer, disk, peer
<1> QED
  BY <1>1 DEF AdminRest, AdminShapes, Publishing, ProcessSound, ReceiptsSound, CountdownSound,
              CleanExitHasReceipts, Running

\* The operator removes a receipt, and the request with it.
LEMMA RemoveReceiptKeeps ==
  ASSUME Flags, AdminRest, NEW i \in Ids, RemoveReceipt(i)
  PROVE  AdminRest'
<1>1. /\ pc = "down"
      /\ result' = [result EXCEPT ![i] = "none"] /\ durable' = [durable EXCEPT ![i] = "none"]
      /\ scheduled' = scheduled \ {i} /\ heard' = heard \ {i}
      /\ UNCHANGED <<pc, active, left, pending, expired, failed, pub, client, reply, tmp, lost, status,
                     origin>>
  BY DEF RemoveReceipt, timer
<1> USE <1>1 DEF AdminRest
<1>2. AdminShapes'
  BY DEF AdminShapes, Publishing
<1>3. \A j \in Ids : durable'[j] \in {"none", result'[j]}
  BY DEF AdminShapes, ReceiptsSound
<1>4. CleanExitHasReceipts'
  BY DEF AdminShapes, ReceiptsSound, CleanExitHasReceipts
<1>5. ProcessSound' /\ ReceiptsSound' /\ CountdownSound'
  BY <1>3, <1>4 DEF AdminShapes, Publishing, ProcessSound, ReceiptsSound, CountdownSound, Running
<1> QED
  BY <1>2, <1>5

\* The end of a publication: only a receipt that is on disk leaves no trace.
LEMMA PublishedKeeps ==
  ASSUME Flags, AdminRest, pc \in Publishing, NEW ok \in BOOLEAN, Published(ok),
         UNCHANGED <<client, reply, heard, result, lost, status, scheduled>>,
         tmp' \subseteq Ids, durable' \in {result, durable},
         ok => durable' = result /\ result[pending.id] # "none"
  PROVE  AdminRest'
<1> USE NoneAssumption DEF AdminRest
<1>1. /\ pending \in Requests /\ pending.id \in Ids /\ pub.then \in {"start", "stop", "finish"}
      /\ pub.secs \in Secs \cup {0}
      /\ Running /\ status = "running"
  BY DEF AdminShapes, ProcessSound, Running, Requests, Publishing
<1>2. /\ (failed' <=> failed \/ ~ok) /\ pending' = None /\ pub' = NoPub
      /\ (pub.then # "finish" => ~expired') /\ (pub.then = "finish" => expired' = expired)
  BY DEF Published, Latched
<1>3. /\ pc' = (IF pub.then = "finish" THEN "exit" ELSE "rest")
      /\ left' \in {left} \cup Secs \cup {0} /\ origin' \in {origin, "manual"}
  BY <1>1 DEF Published, Continue, timer
<1>4. left' \in {0} \cup UNION {0..s : s \in Secs}
  BY <1>1, <1>3, SecsAssumption DEF AdminShapes
<1>5. AdminShapes'
  BY <1>2, <1>3, <1>4 DEF AdminShapes, NoPub, Publishing
<1>6. ProcessSound'
  BY <1>1, <1>2, <1>3 DEF ProcessSound, Running, Publishing
<1>7. \A i \in Ids : durable'[i] \in {"none", result'[i]}
  BY DEF AdminShapes, ReceiptsSound
<1>8. ~failed' => \A i \in scheduled : durable'[i] # "none"
  <2> SUFFICES ASSUME ~failed', NEW i \in scheduled PROVE durable'[i] # "none"
    OBVIOUS
  <2>1. ok /\ ~failed /\ durable' = result /\ result[pending.id] # "none"
    BY <1>2
  <2>2. durable[i] # "none" \/ pending.id = i
    BY <1>1, <2>1 DEF ReceiptsSound
  <2> QED
    BY <2>1, <2>2 DEF AdminShapes, ReceiptsSound
<1>9. ReceiptsSound'
  BY <1>1, <1>2, <1>7, <1>8 DEF ReceiptsSound, CleanExitHasReceipts
<1>10. CountdownSound'
  BY <1>2, <1>3 DEF CountdownSound, Publishing
<1> QED
  BY <1>5, <1>6, <1>9, <1>10

\* The temporary file is made, or the publication ends without a receipt.
LEMMA PublishCreateKeeps == ASSUME Flags, AdminRest, PublishCreate PROVE AdminRest'
<1>1. /\ pc = "create" /\ pc \in Publishing
      /\ UNCHANGED <<client, reply, heard, result, durable, lost, status, scheduled>>
  BY DEF PublishCreate, peer, Publishing
<1>2. CASE Published(FALSE) /\ UNCHANGED tmp
  <2>1. tmp' \subseteq Ids /\ durable' \in {result, durable}
    BY <1>1, <1>2 DEF AdminRest, AdminShapes
  <2> QED
    BY <1>1, <1>2, <2>1, PublishedKeeps
<1>3. CASE /\ tmp' = tmp \cup {pending.id} /\ pc' = "write"
           /\ UNCHANGED <<timer, pending, expired, failed, pub, origin>>
  <2>1. UNCHANGED <<active, left>> /\ tmp' \subseteq Ids
    BY <1>1, <1>3, NoneAssumption DEF timer, AdminRest, AdminShapes, Requests
  <2>2. AdminShapes'
    BY <1>1, <1>3, <2>1 DEF AdminRest, AdminShapes, Publishing
  <2> QED
    BY <1>1, <1>3, <2>1, <2>2 DEF AdminRest, Publishing, ProcessSound, ReceiptsSound, CountdownSound,
                                  CleanExitHasReceipts, Running
<1> QED
  BY <1>2, <1>3 DEF PublishCreate

\* The receipt is written to the temporary file, or not.
LEMMA PublishWriteKeeps == ASSUME Flags, AdminRest, PublishWrite PROVE AdminRest'
<1>1. /\ pc = "write"
      /\ UNCHANGED <<active, left, pending, expired, failed, client, reply, heard, tmp, result, durable,
                     lost, status, origin, scheduled>>
  BY DEF PublishWrite, timer, peer, disk
<1>2. PICK ok \in BOOLEAN : pub' = [pub EXCEPT !.ok = ok] /\ pc' = IF ok THEN "link" ELSE "sync"
  BY DEF PublishWrite
<1>3. /\ pub' \in [text : {"none", "saved", "failed", "cancelled"}, ok : BOOLEAN,
                   then : {"none", "start", "stop", "finish"}, secs : Secs \cup {0}]
      /\ pub'.text = pub.text /\ pub'.then = pub.then /\ (pc' = "sync" => ~pub'.ok)
      /\ pc' \in Publishing
  BY <1>2 DEF AdminRest, AdminShapes, Publishing
<1>4. pub' # NoPub /\ pub.text # "none" /\ pub.then # "none"
  BY <1>1, <1>3 DEF AdminRest, ProcessSound, NoPub, Publishing
<1>5. AdminShapes'
  BY <1>1, <1>3, <1>4 DEF AdminRest, AdminShapes, Publishing
<1> QED
  BY <1>1, <1>3, <1>4, <1>5 DEF AdminRest, Publishing, ProcessSound, ReceiptsSound, CountdownSound,
                                CleanExitHasReceipts, Running

\* The receipt appears under its name, or the publication has failed.
LEMMA PublishLinkKeeps == ASSUME Flags, AdminRest, PublishLink PROVE AdminRest'
<1>1. /\ pc = "link" /\ pc' = "sync"
      /\ UNCHANGED <<active, left, pending, expired, failed, client, reply, heard, tmp, durable,
                     lost, status, origin, scheduled>>
  BY DEF PublishLink, timer, peer
<1>2. pending \in Requests /\ pending.id \in Ids /\ pub.text # "none" /\ pub.then # "none"
  BY <1>1, NoneAssumption DEF AdminRest, AdminShapes, ProcessSound, Requests, Publishing
<1>3. CASE result[pending.id] = "none" /\ result' = [result EXCEPT ![pending.id] = pub.text]
           /\ UNCHANGED pub
  <2>1. AdminShapes'
    BY <1>1, <1>2, <1>3 DEF AdminRest, AdminShapes, Publishing
  <2>2. /\ result'[pending.id] # "none"
        /\ \A i \in Ids : durable'[i] \in {"none", result'[i]}
    BY <1>1, <1>2, <1>3 DEF AdminRest, AdminShapes, ReceiptsSound
  <2> QED
    BY <1>1, <1>2, <1>3, <2>1, <2>2
       DEF AdminRest, Publishing, ProcessSound, ReceiptsSound, CountdownSound, CleanExitHasReceipts, Running
<1>4. CASE pub' = [pub EXCEPT !.ok = FALSE] /\ UNCHANGED result
  <2>1. /\ pub' \in [text : {"none", "saved", "failed", "cancelled"}, ok : BOOLEAN,
                     then : {"none", "start", "stop", "finish"}, secs : Secs \cup {0}]
        /\ pub'.text = pub.text /\ pub'.then = pub.then /\ ~pub'.ok /\ pub' # NoPub
    BY <1>2, <1>4 DEF AdminRest, AdminShapes, NoPub
  <2>2. AdminShapes'
    BY <1>1, <1>2, <1>4, <2>1 DEF AdminRest, AdminShapes, Publishing
  <2> QED
    BY <1>1, <1>2, <1>4, <2>1, <2>2
       DEF AdminRest, Publishing, ProcessSound, ReceiptsSound, CountdownSound, CleanExitHasReceipts, Running
<1> QED
  BY <1>3, <1>4 DEF PublishLink

\* The directory is synchronised, or not, and the publication ends.
LEMMA PublishSyncKeeps == ASSUME Flags, AdminRest, PublishSync PROVE AdminRest'
<1>1. /\ pc = "sync" /\ pc \in Publishing
      /\ UNCHANGED <<client, reply, heard, result, lost, status, scheduled>>
  BY DEF PublishSync, peer, Publishing
<1>2. PICK unlinked \in BOOLEAN, synced \in BOOLEAN :
          /\ tmp' = IF unlinked THEN tmp \ {pending.id} ELSE tmp
          /\ durable' = IF synced THEN result ELSE durable
          /\ Published(pub.ok /\ unlinked /\ synced)
  BY DEF PublishSync, Synced
<1> DEFINE ok == pub.ok /\ unlinked /\ synced
<1>3. tmp' \subseteq Ids /\ durable' \in {result, durable}
  BY <1>2 DEF AdminRest, AdminShapes
<1>4. ok \in BOOLEAN /\ Published(ok)
  BY <1>2, Zenon
<1>5. ok => durable' = result /\ result[pending.id] # "none"
  BY <1>1, <1>2 DEF AdminRest, ProcessSound
<1> HIDE DEF ok
<1> QED
  BY <1>1, <1>3, <1>4, <1>5, PublishedKeeps

\* The main loop looks at signals, the timer and the other subsystems.
LEMMA CheckKeeps == ASSUME Flags, AdminRest, Check PROVE AdminRest'
<1>1. /\ pc = "check" /\ pc' \in {"saving", "poll"}
      /\ UNCHANGED <<active, left, pending, failed, pub, client, reply, heard, tmp, result, durable,
                     lost, status, origin, scheduled>>
  BY DEF Check, timer, peer, disk
<1>2. ~expired /\ (expired' => pc' = "saving" /\ pending # None /\ left = 0)
  <2>1. ~expired
    BY <1>1 DEF AdminRest, CountdownSound, Publishing
  <2>2. CASE pc' = "saving" /\ expired' = (expired \/ (Expires /\ pending # None))
    <3>1. expired' => expired \/ (Expires /\ pending # None)
      BY <2>2
    <3> QED
      BY <2>1, <2>2, <3>1 DEF Expires, TimerDue
  <2>3. CASE expired' = expired
    BY <2>1, <2>3
  <2> QED
    BY <2>2, <2>3 DEF Check
<1>3. AdminShapes'
  BY <1>1 DEF AdminRest, AdminShapes, Publishing
<1> QED
  BY <1>1, <1>2, <1>3 DEF AdminRest, Publishing, ProcessSound, ReceiptsSound, CountdownSound,
                          CleanExitHasReceipts, Running

\* A request is scheduled only when nothing is pending and nothing failed,
\* and only what was scheduled is answered with SCHEDULED.
LEMMA PollEffect ==
  ASSUME Flags, AdminRest, Poll
  PROVE  /\ pc = "poll" /\ pc' = "rest"
         /\ UNCHANGED <<failed, pub, tmp, result, durable, lost, status>>
         /\ client' \in {"none", "reading", "executing", "sending"}
         /\ reply' \in scheduled' \cup {None} /\ heard' \subseteq scheduled'
         /\ \/ NotScheduled
            \/ pending = None /\ ~failed /\ ~active /\ \E req \in Requests : Schedule(req)
<1>1. /\ pc = "poll" /\ pc' = "rest" /\ UNCHANGED <<failed, pub, tmp, result, durable, lost, status>>
  BY DEF Poll, disk
<1>2. reply \in scheduled \cup {None} /\ heard \subseteq scheduled
  BY DEF AdminRest, AdminShapes, ReceiptsSound
<1>3. ASSUME NEW r, Send(r), r \in scheduled' \cup {None}, scheduled \subseteq scheduled'
      PROVE  /\ client' \in {"none", "reading", "executing", "sending"}
             /\ reply' \in scheduled' \cup {None} /\ heard' \subseteq scheduled'
  BY <1>2, <1>3 DEF Send
<1>4. NotScheduled => scheduled' = scheduled
  BY DEF NotScheduled
<1>5. CASE \E req \in Requests : Handle(req)
  <2>1. PICK req \in Requests : Handle(req)
    BY <1>5
  <2>2. CASE Send(None) /\ NotScheduled
    BY <1>1, <1>3, <1>4, <2>2
  <2>3. CASE pending # None /\ Matches(req) /\ Send(req.id) /\ Repeat(req)
    <3>1. req.id \in scheduled /\ NotScheduled
      BY <2>3 DEF Matches, Repeat, AdminRest, ReceiptsSound
    <3> QED
      BY <1>1, <1>3, <1>4, <2>3, <3>1
  <2>4. CASE ~failed /\ pending = None /\ ~Busy /\ Send(req.id) /\ Schedule(req)
    <3>1. scheduled' = scheduled \cup {req.id} /\ ~active
      BY <2>4 DEF Schedule, Busy
    <3> QED
      BY <1>1, <1>3, <2>1, <2>4, <3>1
  <2> QED
    BY <2>1, <2>2, <2>3, <2>4 DEF Handle
<1>6. CASE HandleOther
  BY <1>1, <1>2, <1>3, <1>4, <1>6 DEF HandleOther
<1>7. CASE NotScheduled /\ (Send(None) \/ Send(reply))
  BY <1>1, <1>2, <1>3, <1>4, <1>7
<1>8. CASE /\ NotScheduled /\ client' \in {"none", "reading", "executing"} /\ UNCHANGED heard
           /\ reply' \in {reply, None}
  BY <1>1, <1>2, <1>4, <1>8
<1> QED
  BY <1>5, <1>6, <1>7, <1>8 DEF Poll

\* The control connection.
LEMMA PollKeeps == ASSUME Flags, AdminRest, Poll PROVE AdminRest'
<1> USE PollEffect DEF AdminRest
<1>1. scheduled \subseteq Ids /\ Running /\ status = "running" /\ ~expired
  BY DEF AdminShapes, ProcessSound, Running, CountdownSound, Publishing
<1>2. CASE NotScheduled
  <2>1. UNCHANGED <<active, left, pending, expired, origin, scheduled>>
    BY <1>2 DEF NotScheduled, timer
  <2>2. AdminShapes'
    BY <1>1, <2>1 DEF AdminShapes, Publishing
  <2> QED
    BY <1>1, <2>1, <2>2 DEF Publishing, ProcessSound, ReceiptsSound, CountdownSound,
                            CleanExitHasReceipts, Running
<1>3. CASE pending = None /\ ~failed /\ \E req \in Requests : Schedule(req)
  <2>1. PICK req \in Requests : Schedule(req)
    BY <1>3
  <2>2. /\ active' /\ left' = req.seconds /\ origin' = req.id /\ pending' = req /\ ~expired'
        /\ scheduled' = scheduled \cup {req.id} /\ req.id \in Ids /\ req.seconds \in Secs
        /\ pending' # None
    BY <2>1, NoneAssumption DEF Schedule, Requests
  <2>3. left' \in UNION {0..s : s \in Secs}
    <3>1. left' = req.seconds /\ req.seconds \in Secs
      BY <2>2
    <3>2. \A s \in Secs : s \in 0..s
      BY SecsAssumption
    <3> QED
      BY <3>1, <3>2
  <2>4. AdminShapes'
    BY <1>1, <2>2, <2>3 DEF AdminShapes, Publishing
  <2>5. ProcessSound' /\ CountdownSound'
    BY <1>1, <2>2 DEF ProcessSound, CountdownSound, Publishing, Running
  <2>6. ReceiptsSound'
    BY <1>1, <1>3, <2>2 DEF ReceiptsSound, CleanExitHasReceipts
  <2> QED
    BY <2>4, <2>5, <2>6
<1> QED
  BY <1>2, <1>3

\* A manual start or stop first cancels the pending request.
LEMMA ManualKeeps ==
  ASSUME Flags, AdminRest, NEW t \in {"start", "stop"}, NEW n \in Secs \cup {0}, Manual(t, n)
  PROVE  AdminRest'
<1>1. /\ pc = "rest"
      /\ UNCHANGED <<pending, expired, failed, client, reply, heard, tmp, result, durable, lost, status,
                     scheduled>>
  BY DEF Manual, peer, disk
<1>2. ~expired
  BY <1>1 DEF AdminRest, CountdownSound, Publishing
<1>3. CASE /\ pending # None /\ pc' = "create"
           /\ pub' = [text |-> "cancelled", ok |-> FALSE, then |-> t, secs |-> n]
           /\ UNCHANGED <<timer, origin>>
  <2>1. UNCHANGED <<active, left, origin>> /\ pub' # NoPub
    BY <1>3 DEF timer, NoPub
  <2>2. AdminShapes'
    BY <1>1, <1>3, <2>1 DEF AdminRest, AdminShapes, Publishing
  <2> QED
    BY <1>1, <1>2, <1>3, <2>1, <2>2
       DEF AdminRest, Publishing, ProcessSound, ReceiptsSound, CountdownSound, CleanExitHasReceipts, Running
<1>4. CASE pending = None /\ Continue(t, n) /\ UNCHANGED pub
  <2>1. /\ pc' = "rest" /\ left' \in {left} \cup Secs \cup {0} /\ origin' \in {origin, "manual"}
    BY <1>4 DEF Continue
  <2>2. left' \in {0} \cup UNION {0..s : s \in Secs}
    BY <2>1, SecsAssumption DEF AdminRest, AdminShapes
  <2>3. AdminShapes'
    BY <1>1, <1>4, <2>1, <2>2 DEF AdminRest, AdminShapes, Publishing
  <2> QED
    BY <1>1, <1>2, <1>4, <2>1, <2>3
       DEF AdminRest, Publishing, ProcessSound, ReceiptsSound, CountdownSound, CleanExitHasReceipts, Running
<1> QED
  BY <1>3, <1>4 DEF Manual, Displaces

\* The countdown goes on.
LEMMA LoopEndKeeps == ASSUME Flags, AdminRest, NEW t \in BOOLEAN, LoopEnd(t) PROVE AdminRest'
<1>1. /\ pc = "rest" /\ pc' = "check" /\ left' \in {left, IF left > 0 THEN left - 1 ELSE left}
      /\ UNCHANGED <<active, pending, expired, failed, pub, client, reply, heard, tmp, result, durable,
                     lost, status, origin, scheduled>>
  BY DEF LoopEnd, peer, disk
<1>2. ~expired
  BY <1>1 DEF AdminRest, CountdownSound, Publishing
<1>3. left' \in {0} \cup UNION {0..s : s \in Secs}
  BY <1>1, SecsAssumption DEF AdminRest, AdminShapes
<1>4. AdminShapes'
  BY <1>1, <1>3 DEF AdminRest, AdminShapes, Publishing
<1> QED
  BY <1>1, <1>2, <1>4 DEF AdminRest, Publishing, ProcessSound, ReceiptsSound, CountdownSound,
                          CleanExitHasReceipts, Running

\* Only an expired request whose saves all went well gets the word saved.
LEMMA SaveAllKeeps == ASSUME Flags, AdminRest, SaveAll PROVE AdminRest'
<1>1. /\ pc = "saving"
      /\ UNCHANGED <<active, left, pending, expired, failed, client, reply, heard, tmp, result, durable,
                     status, origin, scheduled>>
  BY DEF SaveAll, timer, peer, disk
<1>2. CASE pending # None
  <2>1. PICK x \in BOOLEAN :
          lost' = x /\ pub' = [text |-> Verdict(~x), ok |-> FALSE, then |-> "finish", secs |-> 0]
    BY <1>2 DEF SaveAll
  <2>2. pc' = "create"
    BY <1>2 DEF SaveAll
  <2>3. /\ pub'.text \in {"saved", "failed", "cancelled"}
        /\ pub'.text = "saved" => expired /\ ~lost'
    BY <2>1 DEF Verdict
  <2>4. /\ pub' \in [text : {"none", "saved", "failed", "cancelled"}, ok : BOOLEAN,
                     then : {"none", "start", "stop", "finish"}, secs : Secs \cup {0}]
        /\ pub' # NoPub /\ pub'.then = "finish"
    BY <2>1, <2>3 DEF NoPub
  <2>5. AdminShapes'
    BY <1>1, <1>2, <2>2, <2>4 DEF AdminRest, AdminShapes, Publishing
  <2> QED
    BY <1>1, <1>2, <2>2, <2>3, <2>4, <2>5
       DEF AdminRest, Publishing, ProcessSound, ReceiptsSound, CountdownSound, CleanExitHasReceipts, Running
<1>3. CASE pending = None
  <2>1. pc' = "exit" /\ pub' = pub
    BY <1>3 DEF SaveAll
  <2>2. AdminShapes'
    BY <1>1, <1>3, <2>1 DEF AdminRest, AdminShapes, Publishing
  <2> QED
    BY <1>1, <1>3, <2>1, <2>2
       DEF AdminRest, Publishing, ProcessSound, ReceiptsSound, CountdownSound, CleanExitHasReceipts, Running
<1> QED
  BY <1>2, <1>3

\* The process ends: a clean exit has its receipts on disk.
LEMMA GoneKeeps ==
  ASSUME Flags, AdminRest, Gone, tmp' \subseteq Ids,
         status' \in {"success", "failure", "crashed"},
         result' \in [Ids -> {"none", "saved", "failed", "cancelled"}],
         durable' \in [Ids -> {"none", "saved", "failed", "cancelled"}],
         \A i \in Ids : durable'[i] \in {"none", result'[i]},
         status' = "success" => Running /\ ~failed /\ pending = None /\ durable' = durable
  PROVE  AdminRest'
<1>1. /\ pc' = "down" /\ left' = 0 /\ pending' = None /\ ~expired' /\ ~failed' /\ pub' = NoPub
      /\ client' = "none" /\ reply' = None /\ origin' = None /\ UNCHANGED <<scheduled, heard>>
  BY DEF Gone
<1>2. AdminShapes'
  BY <1>1 DEF AdminRest, AdminShapes, Publishing, NoPub
<1>3. CleanExitHasReceipts'
  BY <1>1 DEF AdminRest, ReceiptsSound, CleanExitHasReceipts
<1> QED
  BY <1>1, <1>2, <1>3 DEF AdminRest, ProcessSound, ReceiptsSound, CountdownSound, Publishing, Running

\* The process exits, crashes, or loses power.
LEMMA ExitKeeps == ASSUME Flags, AdminRest, Exit PROVE AdminRest'
<1>1. pc = "exit" /\ Gone /\ UNCHANGED <<tmp, result, durable>>
  BY DEF Exit, disk
<1>2. status' \in {"success", "failure"} /\ (status' = "success" => ~failed)
  BY DEF Exit
<1>3. pending = None /\ Running
  BY <1>1 DEF AdminRest, ProcessSound, Running
<1>4. /\ tmp' \subseteq Ids /\ \A i \in Ids : durable'[i] \in {"none", result'[i]}
      /\ result' \in [Ids -> {"none", "saved", "failed", "cancelled"}]
      /\ durable' \in [Ids -> {"none", "saved", "failed", "cancelled"}]
  BY <1>1 DEF AdminRest, AdminShapes, ReceiptsSound
<1> QED
  BY <1>1, <1>2, <1>3, <1>4, GoneKeeps

LEMMA CrashKeeps == ASSUME Flags, AdminRest, Crash \/ PowerFailure PROVE AdminRest'
<1>1. Gone /\ status' = "crashed"
  BY DEF Crash, PowerFailure, Dies
<1>2. tmp' \subseteq Ids
  BY DEF Crash, PowerFailure, disk, AdminRest, AdminShapes
<1>3. /\ result' \in [Ids -> {"none", "saved", "failed", "cancelled"}]
      /\ durable' \in [Ids -> {"none", "saved", "failed", "cancelled"}]
      /\ \A i \in Ids : durable'[i] \in {"none", result'[i]}
  BY DEF Crash, PowerFailure, disk, AdminRest, AdminShapes, ReceiptsSound
<1> QED
  BY <1>1, <1>2, <1>3, GoneKeeps

\* A signal, or another subsystem's failure, changes a flag.
LEMMA NoticeKeeps == ASSUME Flags, AdminRest, Signal \/ Sicken PROVE AdminRest'
<1>1. UNCHANGED <<pc, active, left, pending, expired, failed, pub, client, reply, heard, lost, origin,
                  tmp, result, durable, status, scheduled>>
  BY DEF Signal, Sicken, timer, disk, peer
<1> QED
  BY <1>1 DEF AdminRest, AdminShapes, Publishing, ProcessSound, ReceiptsSound, CountdownSound,
              CleanExitHasReceipts, Running

\* The inductive invariant.
LEMMA AdminInductive == AdminInv /\ [Next]_vars => AdminInv'
<1> SUFFICES ASSUME AdminInv, [Next]_vars PROVE AdminInv'
  OBVIOUS
<1>1. Flags /\ AdminRest
  BY TypeParts DEF AdminInv, AdminRest
<1>2. CASE Next
  <2>1. Flags'
    BY <1>1, <1>2, FlagsKeep
  <2>2. AdminRest'
    <3>1. CASE Commands
      <4>1. PICK t \in {"start", "stop"}, n \in Secs \cup {0} : Manual(t, n)
        BY <3>1 DEF Commands
      <4> QED
        BY <1>1, <4>1, ManualKeeps
    <3>2. CASE Loop
      BY <1>1, <3>2, CheckKeeps, PollKeeps, SaveAllKeeps, ExitKeeps, LoopEndKeeps DEF Loop
    <3>3. CASE Publish
      BY <1>1, <3>3, PublishCreateKeeps, PublishWriteKeeps, PublishLinkKeeps, PublishSyncKeeps
         DEF Publish
    <3> QED
      BY <1>1, <1>2, <3>1, <3>2, <3>3, StartServerKeeps, RemoveEndpointKeeps, RemoveReceiptKeeps, NoticeKeeps,
         CrashKeeps DEF Next
  <2> QED
    BY <2>1, <2>2, TypeParts DEF AdminInv, AdminRest
<1>3. CASE UNCHANGED vars
  <2>1. Flags'
    BY <1>1, <1>3, Zenon DEF vars, Flags
  <2>2. AdminRest'
    BY <1>1, <1>3 DEF vars, AdminRest, AdminShapes, Publishing, ProcessSound, ReceiptsSound, CountdownSound,
                      CleanExitHasReceipts, Running
  <2> QED
    BY <2>1, <2>2, TypeParts DEF AdminInv, AdminRest
<1> QED
  BY <1>2, <1>3

\* What was heard is kept because what was scheduled is: while the process
\* runs, and after a clean exit.
LEMMA AdminImplies == AdminInv => ReceiptsKept
<1> SUFFICES ASSUME AdminInv PROVE ReceiptsKept
  OBVIOUS
<1>1. SHTypeOK /\ CleanExitHasReceipts /\ PendingHasCountdown
  BY DEF AdminInv, ReceiptsSound, CountdownSound, PendingHasCountdown
<1>2. HeardIsKept
  <2> SUFFICES ASSUME NEW i \in heard, ~failed, status \notin {"crashed", "failure"},
                      ~(Running /\ pending # None /\ pending.id = i)
               PROVE  result[i] # "none"
    BY DEF HeardIsKept
  <2>1. i \in scheduled /\ i \in Ids
    BY TypeParts DEF AdminInv, AdminShapes
  <2>2. durable[i] # "none"
    BY <2>1, TypeParts DEF AdminInv, AdminShapes, ProcessSound, ReceiptsSound, CleanExitHasReceipts
  <2> QED
    BY <2>1, <2>2 DEF AdminInv, ReceiptsSound
<1> QED
  BY <1>1, <1>2 DEF ReceiptsKept

\* At every point where the process may end, crash or lose power, what the
\* clients of admin_shutdown.c were told agrees with the receipts: after exit
\* zero every scheduled request has a durable receipt, a pending request owns
\* the countdown, and a request whose SCHEDULED response arrived has a receipt,
\* is pending, or its process is known to have failed.
THEOREM ReceiptsAreKept == Spec => []ReceiptsKept
<1>1. Spec => []AdminInv
  BY Initially, AdminInductive, PTL DEF Spec
<1> QED
  BY <1>1, AdminImplies, PTL

\* The part of SavedIsTrue about one step.
SavedStep ==
    /\ \A i \in Ids : result'[i] = "saved" /\ result[i] # "saved" =>
          origin = i /\ active /\ left = 0 /\ expired /\ ~lost
    /\ pending # None /\ pending' = pending /\ Running => left' <= left

\* Only PublishLink adds a receipt, and what else changes receipts keeps a
\* part of them; only a request a poll accepts starts a countdown that a pending
\* request could see, and then nothing was pending.
LEMMA SavedStepHolds == AdminInv /\ [Next]_vars => SavedStep \/ UNCHANGED vars
<1> SUFFICES ASSUME AdminInv, Next PROVE SavedStep
  OBVIOUS
<1>1. Flags /\ AdminRest
  BY TypeParts DEF AdminInv, AdminRest
<1>2. left \in Nat
  BY <1>1, SecsAssumption DEF AdminRest, AdminShapes
<1> USE <1>1, <1>2 DEF SavedStep
<1>3. ASSUME result' = result, left' = left PROVE SavedStep
  BY <1>3
<1>4. ASSUME result' = result, pending' = None PROVE SavedStep
  BY <1>4
<1>5. ASSUME StartServer \/ RemoveEndpoint \/ PublishWrite \/ Check \/ SaveAll \/ Signal \/ Sicken PROVE SavedStep
  <2>1. UNCHANGED <<result, left>>
    BY <1>5 DEF StartServer, RemoveEndpoint, PublishWrite, Check, SaveAll, Signal, Sicken, timer, disk
  <2> QED
    BY <1>3, <2>1
<1>6. ASSUME NEW i \in Ids, RemoveReceipt(i) PROVE SavedStep
  BY <1>6 DEF RemoveReceipt, timer, AdminRest, AdminShapes, Running
<1>7. ASSUME PublishCreate \/ PublishSync PROVE SavedStep
  BY <1>3, <1>4, <1>7 DEF PublishCreate, PublishSync, Published, timer
<1>8. ASSUME PublishLink PROVE SavedStep
  <2>1. pc = "link" /\ left' = left
    BY <1>8 DEF PublishLink, timer
  <2>2. pending \in Requests /\ pending.id \in Ids /\ pending # None
    BY <2>1, NoneAssumption DEF AdminRest, AdminShapes, Requests, Publishing
  <2>3. result' = result \/ result' = [result EXCEPT ![pending.id] = pub.text]
    BY <1>8 DEF PublishLink
  <2>4. pub.text = "saved" => origin = pending.id /\ active /\ left = 0 /\ expired /\ ~lost
    BY <2>1, <2>2 DEF AdminRest, CountdownSound, Publishing
  <2>5. \A i \in Ids : result'[i] = "saved" /\ result[i] # "saved" => i = pending.id /\ pub.text = "saved"
    BY <2>2, <2>3 DEF AdminRest, AdminShapes
  <2> QED
    BY <2>1, <2>4, <2>5
<1>9. ASSUME Poll PROVE SavedStep
  <2>1. result' = result /\ (NotScheduled \/ pending = None)
    BY <1>9, PollEffect
  <2> QED
    BY <2>1 DEF NotScheduled, timer
<1>10. ASSUME NEW t, NEW n, Manual(t, n) PROVE SavedStep
  <2>1. result' = result /\ (pending = None \/ left' = left)
    BY <1>10 DEF Manual, Displaces, timer, disk
  <2> QED
    BY <2>1
<1>11. ASSUME NEW t, LoopEnd(t) PROVE SavedStep
  BY <1>11 DEF LoopEnd, disk
<1>12. ASSUME Exit \/ Crash PROVE SavedStep
  BY <1>4, <1>12 DEF Exit, Crash, Dies, Gone, disk
<1>13. ASSUME PowerFailure PROVE SavedStep
  <2>1. pending' = None
    BY <1>13 DEF PowerFailure, Dies, Gone
  <2>2. \A i \in Ids : result'[i] \in {result[i], "none"}
    BY <1>13 DEF PowerFailure, AdminRest, ReceiptsSound
  <2> QED
    BY <2>1, <2>2
<1> QED
  BY <1>5, <1>6, <1>7, <1>8, <1>9, <1>10, <1>11, <1>12, <1>13 DEF Next, Publish, Loop, Commands

\* A receipt of admin_shutdown_finish() says saved only if the countdown that
\* this very request started ran out and nothing failed to be saved, and no
\* retry, command or poll ever lengthens the countdown of a pending request.
THEOREM SavedReceiptsAreTrue == Spec => SavedIsTrue
<1>1. Spec => []AdminInv
  BY Initially, AdminInductive, PTL DEF Spec
<1>2. AdminInv /\ [Next]_vars => [SavedStep]_vars
  BY SavedStepHolds
<1>3. Spec => [][SavedStep]_vars
  BY <1>1, <1>2, PTL DEF Spec
<1> QED
  BY <1>3, Zenon DEF SavedIsTrue, SavedStep
=============================================================================
