---------------------------- MODULE AssetProofs -----------------------------
(***************************************************************************)
(* The assets on both sides, for any loads, requests, connections and      *)
(* limits: the face loader keeps its loads, counters, turns and signals    *)
(* (LoadsKept); users, batches and streams agree about the requests        *)
(* (RequestsKept), and no face gets a stream out of its turn               *)
(* (StreamsByRight); the server's ticks serve the connections in rotation  *)
(* (RotationFair).                                                         *)
(***************************************************************************)
EXTENDS FaceLoader, AssetRequests, AssetService, FiniteSetTheorems,
        WellFoundedInduction, TLAPS

(* The loads. *)

Single(s) == \A i, j \in DOMAIN s : s[i] = s[j] => i = j

\* a stands before b in s.
Precedes(s, a, b) == \E i, j \in DOMAIN s : i < j /\ s[i] = a /\ s[j] = b

\* A list of loads, each once.
Lists == {s \in Seq(Tokens) : Single(s)}
Queues == [fg : Lists, bg : Lists]

\* The loads that are visible and were never promoted: they keep their order.
Ordinary == foreground \ urgent

\* Each load is in one place.
Placed ==
    /\ loads \in Lists /\ jobs \in Queues /\ results \in Queues
    /\ active \in Tokens \cup {NoToken}
    /\ Members(jobs) \cap Members(results) = {}
    /\ ToSet(jobs.fg) \cap ToSet(jobs.bg) = {} /\ ToSet(results.fg) \cap ToSet(results.bg) = {}
    /\ active \notin Members(jobs) \cup Members(results)
    /\ ToSet(loads) = Members(jobs) \cup Members(results) \cup ({active} \ {NoToken})

\* The flags are those of loads.
Flagged ==
    /\ foreground \subseteq ToSet(loads) /\ urgent \subseteq foreground
    /\ cancelled \subseteq {active} \ {NoToken}
    /\ ToSet(jobs.fg) \cup ToSet(results.fg) \subseteq foreground
    /\ (ToSet(jobs.bg) \cup ToSet(results.bg)) \cap foreground = {}

\* The counters.
Counted ==
    /\ outstanding = Len(loads) /\ background = Cardinality(ToSet(loads) \ foreground)
    /\ outstanding <= OutstandingMax /\ background <= BackgroundMax

\* Ordinary loads are in turn: results, the load under way, then jobs.
InTurn ==
    \A a, b \in Ordinary :
        (\/ Precedes(jobs.fg, a, b) \/ Precedes(results.fg, a, b)
         \/ a \in ToSet(results.fg) /\ b \in ToSet(jobs.fg) \cup {active}
         \/ a = active /\ b \in ToSet(jobs.fg))
        => Precedes(loads, a, b)

\* A queue passes over its oldest only with an urgent one.
Streak(s, passes, streak) == passes \in Nat /\ streak \in 0..2 /\ passes <= streak /\ (s = <<>> => passes = 0)
Streaks == Streak(jobs.fg, jobPassed, jobStreak) /\ Streak(results.fg, resultPassed, resultStreak)

\* The lives of the caller and the worker.
Alive ==
    /\ caller \in {"stopped", "idle", "join"} /\ worker \in {"none", "lock", "wait", "work", "exited"}
    /\ stopping \in BOOLEAN /\ (stopping <=> caller = "join")
    /\ (worker = "none" <=> caller = "stopped") /\ (worker = "exited" => caller = "join")
    /\ worker = "work" <=> active # NoToken
    /\ caller = "stopped" => loads = <<>>
    /\ NoMissedSignal

LoaderInv == Placed /\ Flagged /\ Counted /\ InTurn /\ Streaks /\ Alive

-----------------------------------------------------------------------------
(* Lists: sequences in which each load stands once. *)

LEMMA ListIs ==
  ASSUME NEW s \in Lists
  PROVE  /\ s \in Seq(Tokens) /\ Len(s) \in Nat /\ DOMAIN s = 1..Len(s) /\ Single(s)
         /\ ToSet(s) = {s[i] : i \in 1..Len(s)} /\ ToSet(s) \subseteq Tokens
         /\ \A i \in 1..Len(s) : s[i] \in Tokens /\ s[i] \in ToSet(s)
         /\ s = <<>> <=> Len(s) = 0
         /\ s = <<>> <=> ToSet(s) = {}
<1>1. s \in Seq(Tokens) /\ Single(s)
  BY DEF Lists
<1>2. Len(s) \in Nat /\ DOMAIN s = 1..Len(s) /\ (s = <<>> <=> Len(s) = 0) /\ \A i \in 1..Len(s) : s[i] \in Tokens
  BY <1>1
<1>3. ToSet(s) = {s[i] : i \in 1..Len(s)}
  BY <1>2 DEF ToSet
<1>4. Len(s) # 0 => s[1] \in ToSet(s)
  BY <1>2, <1>3
<1>5. Len(s) = 0 => ToSet(s) = {}
  BY <1>2, <1>3
<1> QED
  BY <1>1, <1>2, <1>3, <1>4, <1>5

LEMMA MakeList ==
  ASSUME NEW s \in Seq(Tokens), Single(s) PROVE s \in Lists
  BY DEF Lists

LEMMA EmptyList == <<>> \in Lists /\ ToSet(<<>>) = {} /\ \A a, b : ~Precedes(<<>>, a, b)
<1>1. <<>> \in Seq(Tokens) /\ DOMAIN <<>> = {} /\ Len(<<>>) = 0
  OBVIOUS
<1> QED
  BY <1>1 DEF Lists, Single, Precedes, ToSet

\* As many loads as places.
LEMMA ListCount ==
  ASSUME NEW s \in Lists
  PROVE  IsFiniteSet(ToSet(s)) /\ Cardinality(ToSet(s)) = Len(s)
<1>1. s \in Bijection(1..Len(s), ToSet(s))
  <2>1. s \in [1..Len(s) -> ToSet(s)]
    BY ListIs
  <2>2. \A i, j \in 1..Len(s) : s[i] = s[j] => i = j
    BY ListIs DEF Single
  <2>3. \A t \in ToSet(s) : \E i \in 1..Len(s) : s[i] = t
    BY ListIs
  <2> QED
    BY <2>1, <2>2, <2>3 DEF Bijection, Injection, Surjection, IsInjective
<1>2. ExistsBijection(1..Len(s), ToSet(s))
  BY <1>1 DEF ExistsBijection
<1>3. ASSUME NEW n \in Nat PROVE IsFiniteSet(1..n) /\ Cardinality(1..n) = n
  <2>1. n \in Int /\ 1 \in Int
    OBVIOUS
  <2>2. IsFiniteSet(1..n) /\ Cardinality(1..n) = IF 1 > n THEN 0 ELSE n - 1 + 1
    BY <2>1, FS_Interval
  <2> QED
    BY <2>2
<1>4. IsFiniteSet(1..Len(s)) /\ Cardinality(1..Len(s)) = Len(s)
  BY <1>3, ListIs
<1> QED
  BY <1>2, <1>4, FS_Bijection

\* The order of a list.
LEMMA Ordered ==
  ASSUME NEW s \in Lists, NEW a, NEW b
  PROVE  /\ Precedes(s, a, b) => a \in ToSet(s) /\ b \in ToSet(s) /\ a # b /\ ~Precedes(s, b, a)
         /\ a \in ToSet(s) /\ b \in ToSet(s) /\ a # b => Precedes(s, a, b) \/ Precedes(s, b, a)
<1>1. Len(s) \in Nat /\ DOMAIN s = 1..Len(s)
  BY ListIs
<1>2. ASSUME Precedes(s, a, b) PROVE a \in ToSet(s) /\ b \in ToSet(s) /\ a # b /\ ~Precedes(s, b, a)
  <2>1. PICK i, j \in 1..Len(s) : i < j /\ s[i] = a /\ s[j] = b
    BY <1>1, <1>2 DEF Precedes
  <2>2. a # b
    BY <1>1, <2>1, ListIs DEF Single
  <2>3. ASSUME NEW k \in 1..Len(s), NEW l \in 1..Len(s), k < l, s[k] = b, s[l] = a PROVE FALSE
    BY <1>1, <2>1, <2>3, ListIs DEF Single
  <2> QED
    BY <1>1, <2>1, <2>2, <2>3, ListIs DEF Precedes
<1>3. ASSUME a \in ToSet(s), b \in ToSet(s), a # b PROVE Precedes(s, a, b) \/ Precedes(s, b, a)
  <2>1. PICK i \in 1..Len(s) : s[i] = a
    BY <1>3, ListIs
  <2>2. PICK j \in 1..Len(s) : s[j] = b
    BY <1>3, ListIs
  <2>3. i < j \/ j < i
    BY <1>1, <1>3, <2>1, <2>2
  <2> QED
    BY <1>1, <2>1, <2>2, <2>3 DEF Precedes
<1> QED
  BY <1>2, <1>3

\* Some positive numbers have a least one.
LEMMA LeastNumber ==
  ASSUME NEW n \in Nat, NEW S \in SUBSET (1..n), S # {}
  PROVE  \E x \in S : \A y \in S : x <= y
<1>1. S \subseteq Nat
  OBVIOUS
<1>2. IsWellFoundedOn(OpToRel(<, Nat), Nat)
  BY NatLessThanWellFounded
<1>3. PICK x \in S : \A y \in S : ~(<<y, x>> \in OpToRel(<, Nat))
  BY <1>1, <1>2, WFMin
<1>4. \A y \in S : x <= y
  <2> SUFFICES ASSUME NEW y \in S, ~(x <= y) PROVE FALSE
    OBVIOUS
  <2>1. <<y, x>> \in Nat \X Nat /\ <<y, x>>[1] < <<y, x>>[2]
    BY <1>1
  <2> QED
    BY <1>3, <2>1 DEF OpToRel
<1> QED
  BY <1>4

LEMMA PlaceIs ==
  ASSUME NEW s \in Lists, NEW S, ToSet(s) \cap S # {}
  PROVE  /\ Place(s, S) \in 1..Len(s) /\ s[Place(s, S)] \in S
         /\ \A j \in 1..(Place(s, S) - 1) : s[j] \notin S
<1> DEFINE P == {i \in 1..Len(s) : s[i] \in S}
<1>1. Len(s) \in Nat /\ DOMAIN s = 1..Len(s)
  BY ListIs
<1>2. P # {}
  BY ListIs
<1>3. PICK x \in P : \A y \in P : x <= y
  BY <1>1, <1>2, LeastNumber
<1>4. x \in DOMAIN s /\ s[x] \in S /\ \A j \in 1..(x - 1) : s[j] \notin S
  BY <1>1, <1>3
<1>5. Place(s, S) \in DOMAIN s /\ s[Place(s, S)] \in S /\ \A j \in 1..(Place(s, S) - 1) : s[j] \notin S
  BY <1>4 DEF Place
<1> QED
  BY <1>1, <1>5

\* The first that is in a set stands before the others.
LEMMA FirstIs ==
  ASSUME NEW s \in Lists, NEW S, ToSet(s) \cap S # {}
  PROVE  /\ First(s, S) \in ToSet(s) \cap S
         /\ \A b \in ToSet(s) \cap S : b # First(s, S) => Precedes(s, First(s, S), b)
<1>1. Len(s) \in Nat /\ DOMAIN s = 1..Len(s)
  BY ListIs
<1>2. Place(s, S) \in 1..Len(s) /\ First(s, S) = s[Place(s, S)]
  BY PlaceIs DEF First
<1>3. First(s, S) \in ToSet(s) \cap S
  BY <1>2, PlaceIs, ListIs
<1>4. ASSUME NEW b \in ToSet(s) \cap S, b # First(s, S) PROVE Precedes(s, First(s, S), b)
  <2>1. PICK j \in 1..Len(s) : s[j] = b
    BY ListIs
  <2>2. ~(j \in 1..(Place(s, S) - 1)) /\ j # Place(s, S)
    BY <1>2, <1>4, <2>1, PlaceIs
  <2> QED
    BY <1>1, <1>2, <2>1, <2>2 DEF Precedes
<1> QED
  BY <1>3, <1>4

\* The head stands before all others.
LEMMA HeadIs ==
  ASSUME NEW s \in Lists, s # <<>>
  PROVE  /\ Head(s) \in ToSet(s)
         /\ \A b \in ToSet(s) : b # Head(s) => Precedes(s, Head(s), b)
<1>1. Len(s) \in Nat /\ DOMAIN s = 1..Len(s) /\ Len(s) # 0
  BY ListIs
<1>2. Head(s) = s[1] /\ 1 \in 1..Len(s)
  BY <1>1, ListIs
<1>3. ASSUME NEW b \in ToSet(s), b # Head(s) PROVE Precedes(s, Head(s), b)
  <2>1. PICK j \in 1..Len(s) : s[j] = b
    BY ListIs
  <2> QED
    BY <1>1, <1>2, <1>3, <2>1 DEF Precedes
<1> QED
  BY <1>2, <1>3, ListIs

LEMMA AppendIs ==
  ASSUME NEW s \in Lists, NEW t \in Tokens \ ToSet(s)
  PROVE  /\ Append(s, t) \in Lists /\ ToSet(Append(s, t)) = ToSet(s) \cup {t}
         /\ Len(Append(s, t)) = Len(s) + 1
         /\ \A a, b : Precedes(Append(s, t), a, b) <=> Precedes(s, a, b) \/ (a \in ToSet(s) /\ b = t)
<1> DEFINE r == Append(s, t)
           n == Len(s)
<1>1. n \in Nat /\ DOMAIN s = 1..n /\ s \in Seq(Tokens)
  BY ListIs
<1>2. r \in Seq(Tokens) /\ Len(r) = n + 1 /\ DOMAIN r = 1..(n + 1) /\ r[n + 1] = t /\ \A i \in 1..n : r[i] = s[i]
  BY <1>1
<1> HIDE DEF r, n
<1>3. \A i \in 1..(n + 1) : i \in 1..n \/ i = n + 1
  BY <1>1
<1>n. Len(s) = n
  BY DEF n
<1>4. \A i \in 1..n : s[i] # t /\ s[i] \in ToSet(s)
  BY ListIs, <1>n
<1>5. Single(r)
  <2> SUFFICES ASSUME NEW i \in 1..(n + 1), NEW j \in 1..(n + 1), r[i] = r[j] PROVE i = j
    BY <1>2 DEF Single
  <2>1. CASE i \in 1..n /\ j \in 1..n
    BY <1>1, <1>2, <2>1, ListIs DEF Single
  <2> QED
    BY <1>2, <1>3, <1>4, <2>1
<1>6. ToSet(r) = ToSet(s) \cup {t}
  <2>1. ToSet(r) = {r[i] : i \in 1..(n + 1)} /\ ToSet(s) = {s[i] : i \in 1..n}
    BY <1>1, <1>2 DEF ToSet
  <2>2. n + 1 \in 1..(n + 1) /\ \A i \in 1..n : i \in 1..(n + 1)
    BY <1>1
  <2> QED
    BY <1>2, <1>3, <2>1, <2>2
<1>7. ASSUME NEW a, NEW b PROVE Precedes(r, a, b) <=> Precedes(s, a, b) \/ (a \in ToSet(s) /\ b = t)
  <2>1. ASSUME Precedes(r, a, b) PROVE Precedes(s, a, b) \/ (a \in ToSet(s) /\ b = t)
    <3>1. PICK i, j \in 1..(n + 1) : i < j /\ r[i] = a /\ r[j] = b
      BY <1>2, <2>1 DEF Precedes
    <3>2. i \in 1..n
      BY <1>1, <3>1
    <3>3. CASE j = n + 1
      BY <1>2, <1>4, <3>1, <3>2, <3>3
    <3>4. CASE j \in 1..n
      BY <1>1, <1>2, <3>1, <3>2, <3>4 DEF Precedes
    <3> QED
      BY <1>3, <3>3, <3>4
  <2>2. ASSUME Precedes(s, a, b) PROVE Precedes(r, a, b)
    <3>1. PICK i, j \in 1..n : i < j /\ s[i] = a /\ s[j] = b
      BY <1>1, <2>2 DEF Precedes
    <3> QED
      BY <1>1, <1>2, <3>1 DEF Precedes
  <2>3. ASSUME a \in ToSet(s), b = t PROVE Precedes(r, a, b)
    <3>1. PICK i \in 1..n : s[i] = a
      BY <2>3, ListIs, <1>n
    <3>2. i \in DOMAIN r /\ n + 1 \in DOMAIN r /\ i < n + 1
      BY <1>1, <1>2, <3>1
    <3> QED
      BY <1>2, <2>3, <3>1, <3>2 DEF Precedes
  <2> QED
    BY <2>1, <2>2, <2>3
<1> QED
  BY <1>2, <1>5, <1>6, <1>7, MakeList DEF r, n

\* A load is put in front of a list.
LEMMA FrontIs ==
  ASSUME NEW s \in Lists, NEW t \in Tokens \ ToSet(s)
  PROVE  /\ <<t>> \o s \in Lists /\ ToSet(<<t>> \o s) = ToSet(s) \cup {t} /\ Len(<<t>> \o s) = Len(s) + 1
         /\ \A a, b : Precedes(<<t>> \o s, a, b) <=> Precedes(s, a, b) \/ (a = t /\ b \in ToSet(s))
<1> DEFINE r == <<t>> \o s
           n == Len(s)
<1>1. n \in Nat /\ DOMAIN s = 1..n /\ s \in Seq(Tokens)
  BY ListIs
<1>2. r \in Seq(Tokens) /\ Len(r) = n + 1 /\ DOMAIN r = 1..(n + 1) /\ r[1] = t /\ \A i \in 1..n : r[i + 1] = s[i]
  <2>1. <<t>> \in Seq(Tokens) /\ Len(<<t>>) = 1 /\ <<t>>[1] = t
    OBVIOUS
  <2>2. r \in Seq(Tokens) /\ Len(r) = 1 + n /\ \A i \in 1..(1 + n) : r[i] = IF i <= 1 THEN <<t>>[i] ELSE s[i - 1]
    BY <1>1, <2>1
  <2> QED
    BY <1>1, <2>1, <2>2
<1> HIDE DEF r, n
<1>n. Len(s) = n
  BY DEF n
<1>3. \A i \in 1..(n + 1) : i = 1 \/ (i - 1 \in 1..n /\ r[i] = s[i - 1])
  <2> SUFFICES ASSUME NEW i \in 1..(n + 1), i # 1 PROVE i - 1 \in 1..n /\ r[i] = s[i - 1]
    OBVIOUS
  <2>1. i - 1 \in 1..n /\ (i - 1) + 1 = i
    BY <1>1
  <2> QED
    BY <1>2, <2>1
<1>4. \A i \in 1..n : s[i] # t /\ s[i] \in ToSet(s)
  BY ListIs, <1>n
<1>5. Single(r)
  <2> SUFFICES ASSUME NEW i \in 1..(n + 1), NEW j \in 1..(n + 1), r[i] = r[j] PROVE i = j
    BY <1>2 DEF Single
  <2>1. CASE i # 1 /\ j # 1
    <3>1. i - 1 \in 1..n /\ j - 1 \in 1..n /\ s[i - 1] = s[j - 1]
      BY <1>3, <2>1
    <3>2. i - 1 = j - 1
      BY <1>1, <3>1, ListIs DEF Single
    <3> QED
      BY <1>1, <3>2
  <2> QED
    BY <1>2, <1>3, <1>4, <2>1
<1>6. ToSet(r) = ToSet(s) \cup {t}
  <2>1. ToSet(r) = {r[i] : i \in 1..(n + 1)} /\ ToSet(s) = {s[i] : i \in 1..n}
    BY <1>1, <1>2 DEF ToSet
  <2>2. 1 \in 1..(n + 1) /\ \A i \in 1..n : i + 1 \in 1..(n + 1)
    BY <1>1
  <2> QED
    BY <1>2, <1>3, <2>1, <2>2
<1>7. ASSUME NEW a, NEW b PROVE Precedes(r, a, b) <=> Precedes(s, a, b) \/ (a = t /\ b \in ToSet(s))
  <2>1. ASSUME Precedes(r, a, b) PROVE Precedes(s, a, b) \/ (a = t /\ b \in ToSet(s))
    <3>1. PICK i, j \in 1..(n + 1) : i < j /\ r[i] = a /\ r[j] = b
      BY <1>2, <2>1 DEF Precedes
    <3>2. j # 1 /\ j - 1 \in 1..n /\ s[j - 1] = b
      BY <1>1, <1>3, <3>1
    <3>3. CASE i = 1
      BY <1>2, <1>4, <3>1, <3>2, <3>3
    <3>4. CASE i # 1
      <4>1. i - 1 \in 1..n /\ s[i - 1] = a /\ i - 1 < j - 1
        BY <1>1, <1>3, <3>1, <3>4
      <4> QED
        BY <1>1, <3>2, <4>1 DEF Precedes
    <3> QED
      BY <3>3, <3>4
  <2>2. ASSUME Precedes(s, a, b) PROVE Precedes(r, a, b)
    <3>1. PICK i, j \in 1..n : i < j /\ s[i] = a /\ s[j] = b
      BY <1>1, <2>2 DEF Precedes
    <3>2. i + 1 \in DOMAIN r /\ j + 1 \in DOMAIN r /\ i + 1 < j + 1 /\ r[i + 1] = a /\ r[j + 1] = b
      BY <1>1, <1>2, <3>1
    <3> QED
      BY <3>2 DEF Precedes
  <2>3. ASSUME b \in ToSet(s), a = t PROVE Precedes(r, a, b)
    <3>1. PICK j \in 1..n : s[j] = b
      BY <2>3, ListIs, <1>n
    <3>2. 1 \in DOMAIN r /\ j + 1 \in DOMAIN r /\ 1 < j + 1 /\ r[j + 1] = b
      BY <1>1, <1>2, <3>1
    <3> QED
      BY <1>2, <2>3, <3>2 DEF Precedes
  <2> QED
    BY <2>1, <2>2, <2>3
<1> QED
  BY <1>2, <1>5, <1>6, <1>7, MakeList DEF r, n

\* A place is taken out of a list.
LEMMA RemovedIs ==
  ASSUME NEW s \in Lists, NEW k \in 1..Len(s)
  PROVE  /\ RemoveAt(s, k) \in Lists /\ ToSet(RemoveAt(s, k)) = ToSet(s) \ {s[k]}
         /\ Len(RemoveAt(s, k)) = Len(s) - 1
         /\ \A a, b : Precedes(RemoveAt(s, k), a, b) <=> Precedes(s, a, b) /\ a # s[k] /\ b # s[k]
<1> DEFINE n == Len(s)
           t == s[k]
           r == RemoveAt(s, k)
           x == SubSeq(s, 1, k - 1)
           y == SubSeq(s, k + 1, n)
           Old(i) == IF i < k THEN i ELSE i + 1
<1>1. n \in Nat /\ DOMAIN s = 1..n /\ s \in Seq(Tokens)
  BY ListIs
<1>2. k \in 1..n /\ s[k] = t
  OBVIOUS
<1>4. x \in Seq(Tokens) /\ Len(x) = k - 1 /\ \A i \in 1..(k - 1) : x[i] = s[i]
  BY <1>1
<1>5. y \in Seq(Tokens) /\ Len(y) = n - k /\ \A i \in 1..(n - k) : y[i] = s[k + i]
  <2>1. y \in Seq(Tokens)
    BY <1>1
  <2>2. Len(y) = n - k
    <3>1. Len(y) = IF k + 1 <= n THEN n - (k + 1) + 1 ELSE 0
      BY <1>1
    <3>2. n \in Nat /\ k \in 1..n
      BY <1>1
    <3> HIDE DEF n, y
    <3> QED
      BY <3>1, <3>2
  <2>3. ASSUME NEW i \in 1..(n - k) PROVE y[i] = s[k + i]
    <3>1. y[i] = s[k + 1 + i - 1]
      BY <1>1
    <3> QED
      BY <1>1, <3>1
  <2> QED
    BY <2>1, <2>2, <2>3
<1>6. r = x \o y
  BY DEF RemoveAt
<1>n. n = Len(s)
  OBVIOUS
<1> HIDE DEF x, y, r, n, t
<1>7. r \in Seq(Tokens) /\ Len(r) = n - 1 /\ DOMAIN r = 1..(n - 1)
  <2>1. x \in Seq(Tokens) /\ y \in Seq(Tokens)
    BY <1>4, <1>5
  <2>2. r \in Seq(Tokens) /\ Len(r) = Len(x) + Len(y)
    BY <1>6, <2>1
  <2> QED
    BY <1>1, <1>2, <1>4, <1>5, <2>2
<1>8. \A i \in 1..(n - 1) : Old(i) \in 1..n /\ Old(i) # k /\ r[i] = s[Old(i)]
  <2> SUFFICES ASSUME NEW i \in 1..(n - 1) PROVE Old(i) \in 1..n /\ Old(i) # k /\ r[i] = s[Old(i)]
    OBVIOUS
  <2>1. r[i] = IF i <= Len(x) THEN x[i] ELSE y[i - Len(x)]
    BY SMTT(30), <1>1, <1>7, <1>4, <1>5, <1>6
  <2>2. CASE i < k
    BY <1>1, <1>2, <1>4, <2>1, <2>2
  <2>3. CASE ~(i < k)
    <3>0. n \in Nat /\ k \in 1..n /\ i \in 1..(n - 1) /\ ~(i < k)
      BY <1>1, <1>2, <2>3
    <3>1. i - (k - 1) \in 1..(n - k) /\ k + (i - (k - 1)) = i + 1
      BY <3>0
    <3>2. y[i - (k - 1)] = s[i + 1]
      BY <1>5, <3>1
    <3> QED
      BY <1>1, <1>2, <1>4, <2>1, <2>3, <3>2
  <2> QED
    BY <2>2, <2>3
<1>9. \A j \in 1..n : j # k => \E i \in 1..(n - 1) : Old(i) = j
  <2> SUFFICES ASSUME NEW j \in 1..n, j # k PROVE \E i \in 1..(n - 1) : Old(i) = j
    OBVIOUS
  <2>1. CASE j < k
    <3>1. j \in 1..(n - 1) /\ Old(j) = j
      BY <1>1, <1>2, <2>1
    <3> QED
      BY <3>1
  <2>2. CASE j > k
    <3>1. j - 1 \in 1..(n - 1) /\ ~(j - 1 < k) /\ (j - 1) + 1 = j
      BY <1>1, <1>2, <2>2
    <3>2. Old(j - 1) = j
      BY <3>1
    <3> QED
      BY <3>1, <3>2
  <2> QED
    BY <1>1, <1>2, <2>1, <2>2
<1>10. \A i, j \in 1..(n - 1) : i < j <=> Old(i) < Old(j)
  BY <1>1, <1>2
<1> HIDE DEF Old
<1>11. \A i \in 1..n : s[i] = t => i = k
  BY <1>1, <1>2, ListIs DEF Single
<1>12. Single(r)
  <2> SUFFICES ASSUME NEW i \in 1..(n - 1), NEW j \in 1..(n - 1), r[i] = r[j] PROVE i = j
    BY <1>7 DEF Single
  <2>1. Old(i) = Old(j)
    BY <1>1, <1>8, ListIs DEF Single
  <2>2. ~(i < j) /\ ~(j < i)
    BY <1>1, <1>8, <1>10, <2>1
  <2> QED
    BY <1>1, <2>2
<1>13. ToSet(r) = ToSet(s) \ {t}
  <2>1. ToSet(r) = {r[i] : i \in 1..(n - 1)} /\ ToSet(s) = {s[i] : i \in 1..n}
    BY <1>1, <1>7 DEF ToSet
  <2>2. ASSUME NEW i \in 1..(n - 1) PROVE r[i] \in ToSet(s) \ {t}
    BY <1>8, <1>11, <2>1
  <2>3. ASSUME NEW j \in 1..n, s[j] # t PROVE s[j] \in ToSet(r)
    BY <1>2, <1>8, <1>9, <2>1, <2>3
  <2> QED
    BY <2>1, <2>2, <2>3
<1>14. ASSUME NEW a, NEW b PROVE Precedes(r, a, b) <=> Precedes(s, a, b) /\ a # t /\ b # t
  <2>1. ASSUME Precedes(r, a, b) PROVE Precedes(s, a, b) /\ a # t /\ b # t
    <3>1. PICK i, j \in 1..(n - 1) : i < j /\ r[i] = a /\ r[j] = b
      BY <1>7, <2>1 DEF Precedes
    <3>2. Old(i) \in 1..n /\ Old(j) \in 1..n /\ Old(i) < Old(j) /\ s[Old(i)] = a /\ s[Old(j)] = b
      BY <1>8, <1>10, <3>1
    <3>3. a # t /\ b # t
      BY <1>8, <1>11, <3>2
    <3> QED
      BY <1>1, <3>2, <3>3 DEF Precedes
  <2>2. ASSUME Precedes(s, a, b), a # t, b # t PROVE Precedes(r, a, b)
    <3>1. PICK i, j \in 1..n : i < j /\ s[i] = a /\ s[j] = b
      BY <1>1, <2>2 DEF Precedes
    <3>2. PICK g \in 1..(n - 1) : Old(g) = i
      BY <1>2, <1>9, <2>2, <3>1
    <3>3. PICK h \in 1..(n - 1) : Old(h) = j
      BY <1>2, <1>9, <2>2, <3>1
    <3> QED
      BY <1>7, <1>8, <1>10, <3>1, <3>2, <3>3 DEF Precedes
  <2> QED
    BY <2>1, <2>2
<1> QED
  BY <1>7, <1>12, <1>13, <1>14, MakeList DEF n, r, t

\* A load is taken out of a list.
LEMMA WithoutIs ==
  ASSUME NEW s \in Lists, NEW t
  PROVE  /\ Without(s, t) \in Lists /\ ToSet(Without(s, t)) = ToSet(s) \ {t}
         /\ Len(Without(s, t)) = IF t \in ToSet(s) THEN Len(s) - 1 ELSE Len(s)
         /\ \A a, b : Precedes(Without(s, t), a, b) <=> Precedes(s, a, b) /\ a # t /\ b # t
<1>1. CASE t \notin ToSet(s)
  BY <1>1, Ordered DEF Without
<1>2. CASE t \in ToSet(s)
  <2>1. Place(s, {t}) \in 1..Len(s) /\ s[Place(s, {t})] = t
    BY <1>2, PlaceIs
  <2>2. Without(s, t) = RemoveAt(s, Place(s, {t}))
    BY <1>2 DEF Without
  <2>3. \A k \in 1..Len(s) : s[k] = t /\ Without(s, t) = RemoveAt(s, k) =>
           /\ Without(s, t) \in Lists /\ ToSet(Without(s, t)) = ToSet(s) \ {t}
           /\ Len(Without(s, t)) = Len(s) - 1
           /\ \A a, b : Precedes(Without(s, t), a, b) <=> Precedes(s, a, b) /\ a # t /\ b # t
    BY RemovedIs
  <2> QED
    BY <1>2, <2>1, <2>2, <2>3
<1> QED
  BY <1>1, <1>2

-----------------------------------------------------------------------------
(* Queues, turns and counters. *)

LEMMA DroppedIs ==
  ASSUME NEW q \in Queues, NEW t
  PROVE  /\ Dropped(q, t) \in Queues
         /\ Dropped(q, t).fg = Without(q.fg, t)
         /\ ToSet(Dropped(q, t).fg) = ToSet(q.fg) \ {t} /\ ToSet(Dropped(q, t).bg) = ToSet(q.bg) \ {t}
         /\ \A a, b : Precedes(Dropped(q, t).fg, a, b) <=> Precedes(q.fg, a, b) /\ a # t /\ b # t
<1>1. q.fg \in Lists /\ q.bg \in Lists
  BY DEF Queues
<1>2. Dropped(q, t).fg = Without(q.fg, t) /\ Dropped(q, t).bg = Without(q.bg, t)
  BY DEF Dropped
<1>3. Without(q.fg, t) \in Lists /\ Without(q.bg, t) \in Lists
  BY <1>1, WithoutIs
<1>4. Dropped(q, t) \in Queues
  BY <1>3 DEF Dropped, Queues
<1> QED
  BY <1>1, <1>2, <1>4, WithoutIs

LEMMA ToFrontIs ==
  ASSUME NEW q \in Queues, NEW t \in Tokens
  PROVE  /\ ToFront(q, t) \in Queues
         /\ ToSet(ToFront(q, t).fg) = ToSet(q.fg) \cup {t} /\ ToSet(ToFront(q, t).bg) = ToSet(q.bg) \ {t}
         /\ \A a, b : a # t /\ b # t => (Precedes(ToFront(q, t).fg, a, b) <=> Precedes(q.fg, a, b))
<1>1. q.fg \in Lists /\ q.bg \in Lists
  BY DEF Queues
<1>2. ToFront(q, t).fg = <<t>> \o Without(q.fg, t) /\ ToFront(q, t).bg = Without(q.bg, t)
  BY DEF ToFront
<1>3. /\ Without(q.fg, t) \in Lists /\ ToSet(Without(q.fg, t)) = ToSet(q.fg) \ {t}
      /\ \A a, b : Precedes(Without(q.fg, t), a, b) <=> Precedes(q.fg, a, b) /\ a # t /\ b # t
      /\ Without(q.bg, t) \in Lists /\ ToSet(Without(q.bg, t)) = ToSet(q.bg) \ {t}
  BY <1>1, WithoutIs
<1>4. t \in Tokens \ ToSet(Without(q.fg, t))
  BY <1>3
<1>5. /\ <<t>> \o Without(q.fg, t) \in Lists
      /\ ToSet(<<t>> \o Without(q.fg, t)) = ToSet(Without(q.fg, t)) \cup {t}
      /\ \A a, b : Precedes(<<t>> \o Without(q.fg, t), a, b) <=>
                      Precedes(Without(q.fg, t), a, b) \/ (a = t /\ b \in ToSet(Without(q.fg, t)))
  BY <1>3, <1>4, FrontIs
<1>6. ToFront(q, t) \in Queues
  BY <1>3, <1>5 DEF ToFront, Queues
<1> QED
  BY <1>2, <1>3, <1>5, <1>6

LEMMA LoadersQueues ==
  ASSUME Placed
  PROVE  /\ jobs \in Queues /\ results \in Queues /\ loads \in Lists
         /\ jobs.fg \in Lists /\ jobs.bg \in Lists /\ results.fg \in Lists /\ results.bg \in Lists
         /\ ToSet(jobs.fg) \subseteq ToSet(loads) /\ ToSet(results.fg) \subseteq ToSet(loads)
         /\ ToSet(jobs.bg) \subseteq ToSet(loads) /\ ToSet(results.bg) \subseteq ToSet(loads)
         /\ ToSet(loads) \subseteq Tokens
<1>1. loads \in Lists
  BY DEF Placed
<1>2. ToSet(loads) \subseteq Tokens
  BY <1>1, ListIs
<1> QED
  BY <1>1, <1>2 DEF Placed, Queues, Members

\* The oldest of a queue stands before its others.
LEMMA OldestIs ==
  ASSUME loads \in Lists, NEW s \in Lists, s # <<>>, ToSet(s) \subseteq ToSet(loads)
  PROVE  /\ Oldest(s) \in ToSet(s)
         /\ \A b \in ToSet(s) : b # Oldest(s) => Precedes(loads, Oldest(s), b)
<1>1. ToSet(loads) \cap ToSet(s) # {}
  BY ListIs
<1>2. Oldest(s) = First(loads, ToSet(s))
  BY DEF Oldest
<1> QED
  BY <1>1, <1>2, FirstIs

\* What is taken of a queue: an ordinary load is taken before all ordinary ones
\* that are younger, and the oldest is passed over only with an urgent one.
LEMMA ChosenIs ==
  ASSUME loads \in Lists, NoToken \notin ToSet(loads), NEW s \in Lists, s # <<>>, ToSet(s) \subseteq ToSet(loads),
         ToSet(s) \subseteq foreground,
         \A a, b \in Ordinary : Precedes(s, a, b) => Precedes(loads, a, b),
         NEW n, NEW streak, Streak(s, n, streak)
  PROVE  /\ Chosen(s, streak) \in ToSet(s)
         /\ Chosen(s, streak) \in Ordinary =>
               \A b \in ToSet(s) \cap Ordinary : b # Chosen(s, streak) => Precedes(loads, Chosen(s, streak), b)
         /\ Streak(Without(s, Chosen(s, streak)), PassedAfter(s, Chosen(s, streak), n), StreakAfter(s, streak))
<1> DEFINE t == Chosen(s, streak)
<1>0. n \in Nat /\ streak \in 0..2 /\ n <= streak
  BY DEF Streak
<1>1. /\ Oldest(s) \in ToSet(s) /\ Oldest(s) # NoToken
      /\ \A b \in ToSet(s) : b # Oldest(s) => Precedes(loads, Oldest(s), b)
  BY OldestIs
<1>2. t \in ToSet(s) => (Without(s, t) = <<>> => Oldest(s) = t)
  <2>1. Without(s, t) \in Lists /\ ToSet(Without(s, t)) = ToSet(s) \ {t}
    BY WithoutIs
  <2> QED
    BY <1>1, <2>1, ListIs
<1>3. PassedAfter(s, t, n) = IF Oldest(s) = t THEN 0 ELSE n + 1
  BY <1>1 DEF PassedAfter
<1>4. CASE OldestTurn(s, streak)
  <2>1. t = Oldest(s) /\ StreakAfter(s, streak) = 0
    BY <1>4 DEF Chosen, StreakAfter
  <2> QED
    BY <1>1, <1>3, <2>1 DEF Streak
<1>5. CASE ~OldestTurn(s, streak) /\ HasUrgent(s)
  <2>1. t = First(s, urgent) /\ StreakAfter(s, streak) = streak + 1 /\ streak < 2
    BY <1>0, <1>5 DEF Chosen, StreakAfter, OldestTurn
  <2>2. t \in ToSet(s) /\ t \in urgent
    BY <1>5, <2>1, FirstIs DEF HasUrgent
  <2>3. t \notin Ordinary
    BY <2>2 DEF Ordinary
  <2>4. PassedAfter(s, t, n) \in Nat /\ PassedAfter(s, t, n) <= streak + 1
    BY <1>0, <1>3
  <2>5. Without(s, t) = <<>> => PassedAfter(s, t, n) = 0
    BY <1>2, <1>3, <2>2
  <2>6. streak + 1 \in 0..2
    BY <1>0, <2>1
  <2> HIDE DEF t
  <2> QED
    BY <2>1, <2>2, <2>3, <2>4, <2>5, <2>6 DEF Streak, t
<1>6. CASE ~OldestTurn(s, streak) /\ ~HasUrgent(s)
  <2>1. t = Head(s) /\ StreakAfter(s, streak) = 0
    BY <1>6 DEF Chosen, StreakAfter
  <2>2. t \in ToSet(s) /\ \A b \in ToSet(s) : b # t => Precedes(s, t, b)
    BY <2>1, HeadIs
  <2>3. ToSet(s) \subseteq Ordinary
    BY <1>6 DEF HasUrgent, Ordinary
  <2>4. \A b \in ToSet(s) : b # t => Precedes(loads, t, b)
    BY <2>2, <2>3
  <2>5. t = Oldest(s)
    <3>1. SUFFICES ASSUME t # Oldest(s) PROVE FALSE
      OBVIOUS
    <3>2. Precedes(loads, t, Oldest(s)) /\ Precedes(loads, Oldest(s), t)
      BY <1>1, <2>2, <2>4, <3>1
    <3> QED
      BY <3>2, Ordered
  <2> QED
    BY <1>3, <2>1, <2>2, <2>4, <2>5 DEF Streak
<1> QED
  BY <1>4, <1>5, <1>6

LEMMA PassedKeptIs ==
  ASSUME NEW s, NEW r, NEW o, NEW n, NEW streak, Streak(s, n, streak)
  PROVE  Streak(r, PassedKept(s, r, o, n), streak)
<1>1. PassedKept(s, r, o, n) \in {0, n} /\ (r = <<>> => PassedKept(s, r, o, n) = 0)
  BY DEF PassedKept
<1> QED
  BY <1>1 DEF Streak

\* A load that goes is no longer counted.
LEMMA ForgetCounts ==
  ASSUME Placed, Flagged, Counted, NEW t \in ToSet(loads), Forget(t)
  PROVE  /\ Counted' /\ loads' \in Lists /\ ToSet(loads') = ToSet(loads) \ {t}
         /\ \A a, b : Precedes(loads', a, b) <=> Precedes(loads, a, b) /\ a # t /\ b # t
         /\ foreground' = foreground \ {t} /\ urgent' = urgent \ {t} /\ cancelled' = cancelled \ {t}
<1>1. loads \in Lists /\ loads' = Without(loads, t)
  BY DEF Placed, Forget
<1>2. /\ loads' \in Lists /\ ToSet(loads') = ToSet(loads) \ {t} /\ Len(loads') = Len(loads) - 1
      /\ \A a, b : Precedes(loads', a, b) <=> Precedes(loads, a, b) /\ a # t /\ b # t
  BY <1>1, WithoutIs
<1>3. /\ foreground' = foreground \ {t} /\ urgent' = urgent \ {t} /\ cancelled' = cancelled \ {t}
      /\ outstanding' = outstanding - 1
      /\ background' = IF t \in foreground THEN background ELSE background - 1
  BY DEF Forget
<1> DEFINE old == ToSet(loads) \ foreground
           new == ToSet(loads') \ foreground'
<1>4. new = old \ {t}
  BY <1>2, <1>3
<1>5. IsFiniteSet(old)
  <2>1. IsFiniteSet(ToSet(loads))
    BY <1>1, ListCount
  <2> QED
    BY <2>1, FS_Subset
<1>6. Cardinality(new) = IF t \in old THEN Cardinality(old) - 1 ELSE Cardinality(old)
  BY <1>4, <1>5, FS_RemoveElement
<1>7. Cardinality(old) \in Nat
  BY <1>5, FS_CardinalityType
<1>8. background' = Cardinality(new) /\ background' <= background
  <2>1. background = Cardinality(old) /\ (t \in old <=> t \notin foreground)
    BY DEF Counted
  <2> HIDE DEF old, new
  <2> QED
    BY <1>3, <1>6, <1>7, <2>1
<1>9. outstanding' = Len(loads') /\ outstanding' <= outstanding
  BY <1>1, <1>2, <1>3, ListIs DEF Counted
<1>10. background \in Nat /\ background' \in Int /\ outstanding \in Nat /\ outstanding' \in Int
  BY <1>1, <1>2, <1>3, <1>7, ListIs DEF Counted
<1>11. Counted'
  BY <1>8, <1>9, <1>10, LoaderAssumption DEF Counted
<1> QED
  BY <1>2, <1>3, <1>11

-----------------------------------------------------------------------------
(* The steps. *)

LEMMA DroppedNothing ==
  ASSUME NEW q \in Queues, NEW t, t \notin Members(q) PROVE Dropped(q, t) = q
<1>1. Without(q.fg, t) = q.fg /\ Without(q.bg, t) = q.bg
  BY DEF Members, Without
<1>2. q = [fg |-> q.fg, bg |-> q.bg]
  BY DEF Queues
<1> QED
  BY <1>1, <1>2 DEF Dropped

LEMMA SameLoads ==
  ASSUME LoaderInv, UNCHANGED <<queues, flags, counters, passed, streaks>>
  PROVE  Placed' /\ Flagged' /\ Counted' /\ InTurn' /\ Streaks'
BY DEF LoaderInv, Placed, Flagged, Counted, InTurn, Streaks, queues, flags, counters, passed, streaks,
       Ordinary, Members, Streak

\* A load goes that is not under way.
LEMMA Goes ==
  ASSUME LoaderInv, NEW t \in ToSet(loads) \ {active}, Forget(t),
         jobs' = Dropped(jobs, t), results' = Dropped(results, t), active' = active
  PROVE  Placed' /\ Flagged' /\ Counted' /\ InTurn'
<1>0. Placed /\ Flagged /\ Counted /\ InTurn
  BY DEF LoaderInv
<1>1. /\ Counted' /\ loads' \in Lists /\ ToSet(loads') = ToSet(loads) \ {t}
      /\ \A a, b : Precedes(loads', a, b) <=> Precedes(loads, a, b) /\ a # t /\ b # t
      /\ foreground' = foreground \ {t} /\ urgent' = urgent \ {t} /\ cancelled' = cancelled \ {t}
  BY <1>0, ForgetCounts
<1>2. /\ jobs' \in Queues /\ ToSet(jobs'.fg) = ToSet(jobs.fg) \ {t} /\ ToSet(jobs'.bg) = ToSet(jobs.bg) \ {t}
      /\ \A a, b : Precedes(jobs'.fg, a, b) <=> Precedes(jobs.fg, a, b) /\ a # t /\ b # t
  BY <1>0, LoadersQueues, DroppedIs
<1>3. /\ results' \in Queues /\ ToSet(results'.fg) = ToSet(results.fg) \ {t}
      /\ ToSet(results'.bg) = ToSet(results.bg) \ {t}
      /\ \A a, b : Precedes(results'.fg, a, b) <=> Precedes(results.fg, a, b) /\ a # t /\ b # t
  BY <1>0, LoadersQueues, DroppedIs
<1>4. Placed'
  BY <1>0, <1>1, <1>2, <1>3 DEF Placed, Members
<1>5. Flagged'
  BY <1>0, <1>1, <1>2, <1>3 DEF Flagged
<1>6. InTurn'
  <2>1. Ordinary' = Ordinary \ {t}
    BY <1>1 DEF Ordinary
  <2> QED
    BY <1>0, <1>1, <1>2, <1>3, <2>1 DEF InTurn
<1> QED
  BY <1>1, <1>4, <1>5, <1>6

\* An empty queue has no members.
LEMMA NoMembers == ASSUME NEW q \in Queues PROVE q = NoQueues <=> Members(q) = {}
<1>1. q.fg \in Lists /\ q.bg \in Lists /\ q = [fg |-> q.fg, bg |-> q.bg]
  BY DEF Queues
<1>2. q = NoQueues <=> q.fg = <<>> /\ q.bg = <<>>
  BY <1>1 DEF NoQueues
<1> QED
  BY <1>1, <1>2, ListIs DEF Members

LEMMA LoaderStartKeeps == ASSUME LoaderInv, StartLoader PROVE LoaderInv'
<1>1. Placed' /\ Flagged' /\ Counted' /\ InTurn' /\ Streaks'
  BY SameLoads DEF StartLoader
<1>2. Alive'
  BY DEF StartLoader, LoaderInv, Alive, NoMissedSignal, queues
<1> QED
  BY <1>1, <1>2 DEF LoaderInv

LEMMA StopKeeps == ASSUME LoaderInv, Stop PROVE LoaderInv'
<1>1. Placed' /\ Flagged' /\ Counted' /\ InTurn' /\ Streaks'
  BY SameLoads DEF Stop
<1>2. Alive'
  BY DEF Stop, StopTold, Signalled, LoaderInv, Alive, NoMissedSignal, queues
<1> QED
  BY <1>1, <1>2 DEF LoaderInv

LEMMA WakeUpKeeps == ASSUME LoaderInv, WakeUp PROVE LoaderInv'
<1>1. Placed' /\ Flagged' /\ Counted' /\ InTurn' /\ Streaks'
  BY SameLoads DEF WakeUp
<1>2. Alive'
  BY DEF WakeUp, LoaderInv, Alive, NoMissedSignal, queues
<1> QED
  BY <1>1, <1>2 DEF LoaderInv

LEMMA CancelActiveKeeps == ASSUME LoaderInv, CancelActive PROVE LoaderInv'
<1> USE DEF CancelActive, LoaderInv
<1>1. Placed' /\ Counted' /\ InTurn' /\ Streaks'
  BY DEF Placed, Counted, InTurn, Streaks, queues, counters, passed, streaks, Ordinary, Members, Streak
<1>2. Flagged'
  BY DEF Flagged, queues
<1>3. Alive'
  BY DEF Alive, NoMissedSignal, queues
<1> QED
  BY <1>1, <1>2, <1>3

LEMMA CancelKeeps == ASSUME LoaderInv, NEW t \in Tokens, Cancel(t) PROVE LoaderInv'
<1>1. Placed' /\ Flagged' /\ Counted' /\ InTurn'
  BY Goes DEF Cancel
<1>2. Streaks'
  <2>1. Streak(jobs.fg, jobPassed, jobStreak) /\ Streak(results.fg, resultPassed, resultStreak)
    BY DEF LoaderInv, Streaks
  <2>2. /\ jobPassed' = PassedKept(jobs.fg, jobs'.fg, loads', jobPassed)
        /\ resultPassed' = PassedKept(results.fg, results'.fg, loads', resultPassed)
        /\ jobStreak' = jobStreak /\ resultStreak' = resultStreak
    BY DEF Cancel, streaks
  <2> QED
    BY <2>1, <2>2, PassedKeptIs DEF Streaks
<1>3. Alive'
  <2>1. jobs \in Queues /\ jobs' \in Queues /\ (jobs = NoQueues => jobs' = NoQueues)
    <3>1. jobs \in Queues
      BY DEF LoaderInv, Placed
    <3>2. Members(jobs') = Members(jobs) \ {t} /\ jobs' \in Queues
      BY <3>1, DroppedIs DEF Cancel, Members
    <3> QED
      BY <3>1, <3>2, NoMembers
  <2> QED
    BY <2>1 DEF LoaderInv, Alive, Cancel, NoMissedSignal
<1> QED
  BY <1>1, <1>2, <1>3 DEF LoaderInv

LEMMA PopForegroundKeeps == ASSUME LoaderInv, PopForeground PROVE LoaderInv'
<1> DEFINE t == Chosen(results.fg, resultStreak)
<1>0. Placed /\ Flagged /\ InTurn /\ Streaks /\ Alive
  BY DEF LoaderInv
<1>1. /\ t \in ToSet(results.fg)
      /\ Streak(Without(results.fg, t), PassedAfter(results.fg, t, resultPassed), StreakAfter(results.fg, resultStreak))
  <2>1. /\ loads \in Lists /\ results.fg \in Lists /\ ToSet(results.fg) \subseteq ToSet(loads)
        /\ NoToken \notin ToSet(loads)
    BY <1>0, LoadersQueues, LoaderAssumption
  <2>2. ToSet(results.fg) \subseteq foreground /\ results.fg # <<>>
    BY <1>0 DEF Flagged, PopForeground
  <2>3. \A a, b \in Ordinary : Precedes(results.fg, a, b) => Precedes(loads, a, b)
    BY <1>0 DEF InTurn
  <2>4. Streak(results.fg, resultPassed, resultStreak)
    BY <1>0 DEF Streaks
  <2> QED
    BY <2>1, <2>2, <2>3, <2>4, ChosenIs
<1>2. t \in ToSet(loads) \ {active} /\ t \notin Members(jobs)
  BY <1>0, <1>1 DEF Placed, Members
<1>3. /\ caller = "idle" /\ Forget(t) /\ results' = Dropped(results, t) /\ jobs' = jobs /\ active' = active
      /\ resultStreak' = StreakAfter(results.fg, resultStreak)
      /\ resultPassed' = PassedAfter(results.fg, t, resultPassed)
      /\ UNCHANGED <<caller, worker, stopping, jobStreak, jobPassed>>
  BY DEF PopForeground
<1>4. jobs' = Dropped(jobs, t)
  BY <1>0, <1>2, <1>3, DroppedNothing DEF Placed
<1> HIDE DEF t
<1>5. Placed' /\ Flagged' /\ Counted' /\ InTurn'
  BY <1>2, <1>3, <1>4, Goes
<1>6. Streaks'
  <2>1. results'.fg = Without(results.fg, t)
    BY <1>3 DEF Dropped
  <2> QED
    BY <1>0, <1>1, <1>3, <2>1 DEF Streaks
<1>7. Alive'
  BY <1>0, <1>3 DEF Alive, NoMissedSignal
<1> QED
  BY <1>5, <1>6, <1>7 DEF LoaderInv

LEMMA PopBackgroundKeeps == ASSUME LoaderInv, PopBackground PROVE LoaderInv'
<1> DEFINE t == Head(results.bg)
<1>0. Placed /\ Flagged /\ InTurn /\ Streaks /\ Alive
  BY DEF LoaderInv
<1>1. t \in ToSet(results.bg)
  BY <1>0, LoadersQueues, HeadIs DEF PopBackground
<1>2. t \in ToSet(loads) \ {active} /\ t \notin Members(jobs)
  BY <1>0, <1>1 DEF Placed, Members
<1>3. /\ caller = "idle" /\ Forget(t) /\ results' = Dropped(results, t) /\ jobs' = jobs /\ active' = active
      /\ resultStreak' = 0 /\ results.fg = <<>>
      /\ UNCHANGED <<caller, worker, stopping, jobStreak, jobPassed, resultPassed>>
  BY DEF PopBackground, passed
<1>4. jobs' = Dropped(jobs, t)
  BY <1>0, <1>2, <1>3, DroppedNothing DEF Placed
<1> HIDE DEF t
<1>5. Placed' /\ Flagged' /\ Counted' /\ InTurn'
  BY <1>2, <1>3, <1>4, Goes
<1>6. Streaks'
  <2>1. resultPassed = 0
    BY <1>0, <1>3 DEF Streaks, Streak
  <2> QED
    BY <1>0, <1>3, <2>1 DEF Streaks, Streak
<1>7. Alive'
  BY <1>0, <1>3 DEF Alive, NoMissedSignal
<1> QED
  BY <1>5, <1>6, <1>7 DEF LoaderInv

\* Two sets without a common element.
LEMMA ApartCount ==
  ASSUME NEW S, NEW T, IsFiniteSet(S), IsFiniteSet(T), S \cap T = {}
  PROVE  IsFiniteSet(S \cup T) /\ Cardinality(S \cup T) = Cardinality(S) + Cardinality(T)
<1>1. Cardinality(S) \in Nat /\ Cardinality(T) \in Nat
  BY FS_CardinalityType
<1>2. Cardinality(S \cap T) = 0
  BY FS_EmptySet
<1>3. IsFiniteSet(S \cup T) /\ Cardinality(S \cup T) = Cardinality(S) + Cardinality(T) - Cardinality(S \cap T)
  BY FS_Union
<1> QED
  BY <1>1, <1>2, <1>3

\* The members of a queue, each counted once.
LEMMA QueueCount ==
  ASSUME NEW q \in Queues, ToSet(q.fg) \cap ToSet(q.bg) = {}
  PROVE  /\ IsFiniteSet(Members(q)) /\ Cardinality(Members(q)) = Len(q.fg) + Len(q.bg)
         /\ Len(q.fg) \in Nat /\ Len(q.bg) \in Nat
<1>1. q.fg \in Lists /\ q.bg \in Lists
  BY DEF Queues
<1>2. /\ IsFiniteSet(ToSet(q.fg)) /\ Cardinality(ToSet(q.fg)) = Len(q.fg)
      /\ IsFiniteSet(ToSet(q.bg)) /\ Cardinality(ToSet(q.bg)) = Len(q.bg)
  BY <1>1, ListCount
<1>3. /\ IsFiniteSet(ToSet(q.fg) \cup ToSet(q.bg))
      /\ Cardinality(ToSet(q.fg) \cup ToSet(q.bg)) = Cardinality(ToSet(q.fg)) + Cardinality(ToSet(q.bg))
  BY <1>2, ApartCount
<1>4. Len(q.fg) \in Nat /\ Len(q.bg) \in Nat
  BY <1>1, ListIs
<1> QED
  BY <1>2, <1>3, <1>4 DEF Members

\* With no load under way the queues have all of them.
LEMMA AllQueued ==
  ASSUME Placed, Flagged, Counted, active = NoToken
  PROVE  /\ outstanding = Cardinality(Members(jobs)) + Cardinality(Members(results))
         /\ background = Len(jobs.bg) + Len(results.bg)
         /\ outstanding \in Nat /\ background \in Nat
         /\ Cardinality(Members(jobs)) \in Nat /\ Cardinality(Members(results)) \in Nat
         /\ Len(jobs.bg) \in Nat /\ Len(results.bg) \in Nat
<1>1. jobs \in Queues /\ results \in Queues /\ loads \in Lists /\ jobs.bg \in Lists /\ results.bg \in Lists
  BY LoadersQueues
<1>2. ToSet(jobs.fg) \cap ToSet(jobs.bg) = {} /\ ToSet(results.fg) \cap ToSet(results.bg) = {}
  BY DEF Placed
<1>3. /\ IsFiniteSet(Members(jobs)) /\ IsFiniteSet(Members(results))
      /\ Len(jobs.bg) \in Nat /\ Len(results.bg) \in Nat
  BY <1>1, <1>2, QueueCount
<1>4. ToSet(loads) = Members(jobs) \cup Members(results) /\ Members(jobs) \cap Members(results) = {}
  BY DEF Placed
<1>5. Cardinality(ToSet(loads)) = Cardinality(Members(jobs)) + Cardinality(Members(results))
  BY <1>3, <1>4, ApartCount
<1>6. Cardinality(ToSet(loads)) = outstanding
  BY <1>1, ListCount DEF Counted
<1>7. ToSet(loads) \ foreground = ToSet(jobs.bg) \cup ToSet(results.bg) /\ ToSet(jobs.bg) \cap ToSet(results.bg) = {}
  <2>1. /\ Members(jobs) = ToSet(jobs.fg) \cup ToSet(jobs.bg)
        /\ Members(results) = ToSet(results.fg) \cup ToSet(results.bg)
    BY DEF Members
  <2>2. /\ ToSet(jobs.fg) \cup ToSet(results.fg) \subseteq foreground
        /\ (ToSet(jobs.bg) \cup ToSet(results.bg)) \cap foreground = {}
    BY DEF Flagged
  <2>3. ToSet(loads) \ foreground = ToSet(jobs.bg) \cup ToSet(results.bg)
    BY <1>4, <2>1, <2>2
  <2>4. ToSet(jobs.bg) \cap ToSet(results.bg) = {}
    BY <1>4, <2>1
  <2> QED
    BY <2>3, <2>4
<1>8. /\ IsFiniteSet(ToSet(jobs.bg)) /\ Cardinality(ToSet(jobs.bg)) = Len(jobs.bg)
      /\ IsFiniteSet(ToSet(results.bg)) /\ Cardinality(ToSet(results.bg)) = Len(results.bg)
  BY <1>1, ListCount
<1>9. background = Len(jobs.bg) + Len(results.bg)
  <2>1. background = Cardinality(ToSet(jobs.bg) \cup ToSet(results.bg))
    BY <1>7 DEF Counted
  <2>2. Cardinality(ToSet(jobs.bg) \cup ToSet(results.bg)) = Cardinality(ToSet(jobs.bg)) + Cardinality(ToSet(results.bg))
    BY <1>7, <1>8, ApartCount
  <2> QED
    BY <1>8, <2>1, <2>2
<1>10. Cardinality(Members(jobs)) \in Nat /\ Cardinality(Members(results)) \in Nat
  BY <1>3, FS_CardinalityType
<1>11. outstanding = Cardinality(Members(jobs)) + Cardinality(Members(results))
  BY <1>5, <1>6
<1>12. outstanding \in Nat
  BY <1>1, ListIs DEF Counted
<1>13. background \in Nat
  <2>1. \A m, n \in Nat : m + n \in Nat
    OBVIOUS
  <2> QED
    BY <1>3, <1>9, <2>1
<1> QED
  BY <1>3, <1>9, <1>10, <1>11, <1>12, <1>13

LEMMA StoppedKeeps == ASSUME LoaderInv, Stopped PROVE LoaderInv'
<1>0. Placed /\ Flagged /\ Counted /\ active = NoToken
  BY DEF LoaderInv, Alive, Stopped
<1>1. outstanding' = 0 /\ background' = 0
  BY <1>0, AllQueued DEF Stopped
<1>2. /\ loads' = <<>> /\ jobs' = NoQueues /\ results' = NoQueues /\ active' = NoToken
      /\ foreground' = {} /\ urgent' = {} /\ cancelled' = {}
  BY <1>0 DEF Stopped
<1>3. /\ jobs'.fg = <<>> /\ jobs'.bg = <<>> /\ results'.fg = <<>> /\ results'.bg = <<>>
      /\ jobs' \in Queues /\ results' \in Queues
  BY <1>2, EmptyList DEF NoQueues, Queues
<1>4. Placed'
  BY <1>2, <1>3, EmptyList DEF Placed, Members
<1>5. Flagged'
  BY <1>2, <1>3, EmptyList DEF Flagged
<1>6. Counted'
  <2>1. Len(loads') = 0 /\ Cardinality(ToSet(loads') \ foreground') = 0
    BY <1>2, EmptyList, FS_EmptySet
  <2> QED
    BY <1>1, <2>1, LoaderAssumption DEF Counted
<1>7. InTurn'
  BY <1>2 DEF InTurn, Ordinary
<1>8. Streaks'
  BY DEF Stopped, Streaks, Streak
<1>9. Alive'
  BY <1>0, <1>2 DEF Stopped, LoaderInv, Alive, NoMissedSignal
<1> QED
  BY <1>4, <1>5, <1>6, <1>7, <1>8, <1>9 DEF LoaderInv

LEMMA LoaderStarts == LoaderInit => LoaderInv
<1> SUFFICES ASSUME LoaderInit PROVE LoaderInv
  OBVIOUS
<1>3. /\ jobs.fg = <<>> /\ jobs.bg = <<>> /\ results.fg = <<>> /\ results.bg = <<>>
      /\ jobs \in Queues /\ results \in Queues
  BY EmptyList DEF LoaderInit, NoQueues, Queues
<1>4. Placed
  BY <1>3, EmptyList DEF LoaderInit, Placed, Members
<1>5. Flagged
  BY <1>3, EmptyList DEF LoaderInit, Flagged
<1>6. Counted
  <2>1. Len(loads) = 0 /\ Cardinality(ToSet(loads) \ foreground) = 0
    BY EmptyList, FS_EmptySet DEF LoaderInit
  <2> QED
    BY <2>1, LoaderAssumption DEF Counted, LoaderInit
<1>7. InTurn
  BY DEF LoaderInit, InTurn, Ordinary
<1>8. Streaks
  BY DEF LoaderInit, Streaks, Streak
<1>9. Alive
  BY DEF LoaderInit, Alive, NoMissedSignal
<1> QED
  BY <1>4, <1>5, <1>6, <1>7, <1>8, <1>9 DEF LoaderInv

LEMMA SubmitKeeps ==
  ASSUME LoaderInv, NEW t \in Tokens, NEW fg \in BOOLEAN, NEW urg \in BOOLEAN, urg => fg, Submit(t, fg, urg)
  PROVE  LoaderInv'
<1>0. Placed /\ Flagged /\ Counted /\ InTurn /\ Streaks /\ Alive
  BY DEF LoaderInv
<1>1. /\ t \in Tokens \ ToSet(loads) /\ jobs \in Queues /\ results \in Queues /\ loads \in Lists
      /\ jobs.fg \in Lists /\ jobs.bg \in Lists /\ t \notin Members(jobs) \cup Members(results)
  BY <1>0, LoadersQueues DEF Submit, Placed
<1>2. /\ loads' \in Lists /\ ToSet(loads') = ToSet(loads) \cup {t} /\ Len(loads') = Len(loads) + 1
      /\ \A a, b : Precedes(loads', a, b) <=> Precedes(loads, a, b) \/ (a \in ToSet(loads) /\ b = t)
  BY <1>1, AppendIs DEF Submit
<1>3. /\ foreground' = (IF fg THEN foreground \cup {t} ELSE foreground)
      /\ urgent' = (IF urg THEN urgent \cup {t} ELSE urgent)
      /\ active' = active /\ results' = results /\ cancelled' = cancelled
  BY DEF Submit
<1>4. /\ jobs' \in Queues
      /\ ToSet(jobs'.fg) = (IF fg THEN ToSet(jobs.fg) \cup {t} ELSE ToSet(jobs.fg))
      /\ ToSet(jobs'.bg) = (IF fg THEN ToSet(jobs.bg) ELSE ToSet(jobs.bg) \cup {t})
      /\ \A a, b : Precedes(jobs'.fg, a, b) => Precedes(jobs.fg, a, b) \/ (a \in ToSet(jobs.fg) /\ b = t)
      /\ jobs'.fg = <<>> => jobs.fg = <<>>
  <2>1. t \in Tokens \ ToSet(jobs.fg) /\ t \in Tokens \ ToSet(jobs.bg)
    BY <1>1 DEF Members
  <2>2. CASE fg
    <3>1. jobs' = [jobs EXCEPT !.fg = Append(@, t)]
      BY <2>2 DEF Submit
    <3>2. jobs'.fg = Append(jobs.fg, t) /\ jobs'.bg = jobs.bg
      BY <1>1, <3>1 DEF Queues
    <3>3. /\ Append(jobs.fg, t) \in Lists /\ ToSet(Append(jobs.fg, t)) = ToSet(jobs.fg) \cup {t}
          /\ \A a, b : Precedes(Append(jobs.fg, t), a, b) <=> Precedes(jobs.fg, a, b) \/ (a \in ToSet(jobs.fg) /\ b = t)
      BY <1>1, <2>1, AppendIs
    <3>4. jobs' \in Queues
      BY <1>1, <3>1, <3>3 DEF Queues
    <3>5. Append(jobs.fg, t) # <<>>
      BY <3>3, ListIs
    <3> QED
      BY <2>2, <3>2, <3>3, <3>4, <3>5
  <2>3. CASE ~fg
    <3>1. jobs' = [jobs EXCEPT !.bg = Append(@, t)]
      BY <2>3 DEF Submit
    <3>2. jobs'.bg = Append(jobs.bg, t) /\ jobs'.fg = jobs.fg
      BY <1>1, <3>1 DEF Queues
    <3>3. Append(jobs.bg, t) \in Lists /\ ToSet(Append(jobs.bg, t)) = ToSet(jobs.bg) \cup {t}
      BY <1>1, <2>1, AppendIs
    <3>4. jobs' \in Queues
      BY <1>1, <3>1, <3>3 DEF Queues
    <3> QED
      BY <2>3, <3>2, <3>3, <3>4
  <2> QED
    BY <2>2, <2>3
<1>5. Placed'
  <2>1. t # NoToken /\ t # active
    BY <1>0, <1>1, LoaderAssumption DEF Placed
  <2> QED
    BY <1>0, <1>1, <1>2, <1>3, <1>4, <2>1 DEF Placed, Members
<1>6. Flagged'
  BY <1>0, <1>1, <1>2, <1>3, <1>4 DEF Flagged, Members
<1>7. Counted'
  <2> DEFINE old == ToSet(loads) \ foreground
             new == ToSet(loads') \ foreground'
  <2>1. new = IF fg THEN old ELSE old \cup {t}
    BY <1>0, <1>1, <1>2, <1>3 DEF Flagged
  <2>2. IsFiniteSet(old)
    <3>1. IsFiniteSet(ToSet(loads))
      BY <1>1, ListCount
    <3> QED
      BY <3>1, FS_Subset
  <2>3. t \notin old
    BY <1>1
  <2>4. Cardinality(old \cup {t}) = Cardinality(old) + 1 /\ Cardinality(old) \in Nat
    BY <2>2, <2>3, FS_AddElement, FS_CardinalityType
  <2>5. background = Cardinality(old) /\ background <= BackgroundMax /\ outstanding = Len(loads)
    BY <1>0 DEF Counted
  <2>6. /\ outstanding < OutstandingMax /\ (fg \/ background < BackgroundMax)
        /\ outstanding' = outstanding + 1 /\ background' = IF fg THEN background ELSE background + 1
    BY DEF Submit, MaySubmit
  <2> HIDE DEF old
  <2>7. background' = Cardinality(new) /\ background' <= BackgroundMax
    <3>1. CASE fg
      BY <2>1, <2>5, <2>6, <3>1
    <3>2. CASE ~fg
      <4>1. background' = background + 1 /\ new = old \cup {t} /\ background < BackgroundMax
        BY <2>1, <2>6, <3>2
      <4>2. background' = Cardinality(new)
        BY <2>4, <2>5, <4>1
      <4>3. background \in Nat /\ BackgroundMax \in Nat
        BY <2>4, <2>5, LoaderAssumption
      <4> HIDE DEF new
      <4>4. background' <= BackgroundMax
        BY <4>1, <4>3
      <4> QED
        BY <4>2, <4>4
    <3> QED
      BY <3>1, <3>2
  <2>8. outstanding' = Len(loads') /\ outstanding' <= OutstandingMax
    BY <1>1, <1>2, <2>5, <2>6, ListIs, LoaderAssumption
  <2> QED
    BY <2>7, <2>8 DEF Counted
<1>8. InTurn'
  <2>1. Ordinary' \subseteq Ordinary \cup {t} /\ Ordinary \subseteq ToSet(loads)
    BY <1>0, <1>3 DEF Ordinary, Flagged
  <2>2. /\ ToSet(jobs.fg) \subseteq ToSet(loads) /\ ToSet(results.fg) \subseteq ToSet(loads)
        /\ t # active
    BY <1>0, <1>1, LoadersQueues, LoaderAssumption DEF Placed
  <2> SUFFICES ASSUME NEW a \in Ordinary', NEW b \in Ordinary',
                      \/ Precedes(jobs'.fg, a, b) \/ Precedes(results'.fg, a, b)
                      \/ a \in ToSet(results'.fg) /\ b \in ToSet(jobs'.fg) \cup {active'}
                      \/ a = active' /\ b \in ToSet(jobs'.fg)
               PROVE  Precedes(loads', a, b)
    BY DEF InTurn
  <2>3. a # t
    <3>1. ~Precedes(jobs.fg, t, b) /\ ~Precedes(results.fg, t, b)
      BY <1>0, <1>1, <2>2, LoadersQueues, Ordered
    <3> QED
      BY <1>1, <1>3, <1>4, <2>2, <3>1
  <2>4. a \in ToSet(loads)
    BY <2>1, <2>3
  <2>5. CASE b = t
    BY <1>2, <2>4, <2>5
  <2>6. CASE b # t
    <3>1. a \in Ordinary /\ b \in Ordinary
      BY <2>1, <2>3, <2>6
    <3>2. \/ Precedes(jobs.fg, a, b) \/ Precedes(results.fg, a, b)
          \/ a \in ToSet(results.fg) /\ b \in ToSet(jobs.fg) \cup {active}
          \/ a = active /\ b \in ToSet(jobs.fg)
      BY <1>3, <1>4, <2>6
    <3> QED
      BY <1>0, <1>2, <3>1, <3>2 DEF InTurn
  <2> QED
    BY <2>5, <2>6
<1>9. Streaks'
  BY <1>0, <1>3, <1>4 DEF Streaks, Streak, Submit, streaks, passed
<1>10. Alive'
  BY <1>0, <1>3 DEF Alive, NoMissedSignal, Submit, Told, Signalled
<1> QED
  BY <1>5, <1>6, <1>7, <1>8, <1>9, <1>10 DEF LoaderInv

\* A queue in which a load was promoted, if it is there.
LEMMA PromotedIs ==
  ASSUME NEW q \in Queues, NEW t \in Tokens, NEW r, r = IF t \in Members(q) THEN ToFront(q, t) ELSE q
  PROVE  /\ r \in Queues
         /\ ToSet(r.fg) = ToSet(q.fg) \cup (Members(q) \cap {t}) /\ ToSet(r.bg) = ToSet(q.bg) \ {t}
         /\ \A a, b : a # t /\ b # t => (Precedes(r.fg, a, b) <=> Precedes(q.fg, a, b))
BY ToFrontIs DEF Members

LEMMA PromoteKeeps == ASSUME LoaderInv, NEW t \in Tokens, Promote(t) PROVE LoaderInv'
<1>0. Placed /\ Flagged /\ Counted /\ InTurn /\ Streaks /\ Alive
  BY DEF LoaderInv
<1>1. /\ t \in ToSet(loads) /\ jobs \in Queues /\ results \in Queues
      /\ loads' = loads /\ active' = active /\ cancelled' = cancelled /\ outstanding' = outstanding
      /\ foreground' = foreground \cup {t} /\ urgent' = urgent \cup {t}
  BY <1>0 DEF Placed, Promote
<1>2. /\ jobs' \in Queues
      /\ ToSet(jobs'.fg) = ToSet(jobs.fg) \cup (Members(jobs) \cap {t}) /\ ToSet(jobs'.bg) = ToSet(jobs.bg) \ {t}
      /\ \A a, b : a # t /\ b # t => (Precedes(jobs'.fg, a, b) <=> Precedes(jobs.fg, a, b))
  BY <1>1, PromotedIs DEF Promote
<1>3. /\ results' \in Queues
      /\ ToSet(results'.fg) = ToSet(results.fg) \cup (Members(results) \cap {t})
      /\ ToSet(results'.bg) = ToSet(results.bg) \ {t}
      /\ \A a, b : a # t /\ b # t => (Precedes(results'.fg, a, b) <=> Precedes(results.fg, a, b))
  BY <1>1, PromotedIs DEF Promote
<1>4. Placed'
  <2>1. Members(jobs') = Members(jobs) /\ Members(results') = Members(results)
    BY <1>2, <1>3 DEF Members
  <2>2. ToSet(jobs'.fg) \cap ToSet(jobs'.bg) = {} /\ ToSet(results'.fg) \cap ToSet(results'.bg) = {}
    BY <1>0, <1>2, <1>3 DEF Placed
  <2> QED
    BY <1>0, <1>1, <1>2, <1>3, <2>1, <2>2 DEF Placed
<1>5. Flagged'
  BY <1>0, <1>1, <1>2, <1>3 DEF Flagged
<1>6. Counted'
  <2> DEFINE old == ToSet(loads) \ foreground
             new == ToSet(loads') \ foreground'
  <2>1. new = old \ {t} /\ (t \in old <=> t \notin foreground)
    BY <1>1
  <2>2. IsFiniteSet(old)
    <3>1. IsFiniteSet(ToSet(loads))
      BY <1>0, LoadersQueues, ListCount
    <3> QED
      BY <3>1, FS_Subset
  <2>3. Cardinality(new) = IF t \in old THEN Cardinality(old) - 1 ELSE Cardinality(old)
    BY <2>1, <2>2, FS_RemoveElement
  <2>4. Cardinality(old) \in Nat
    BY <2>2, FS_CardinalityType
  <2>5. background' = IF t \in foreground THEN background ELSE background - 1
    BY DEF Promote, Promoted
  <2>6. background = Cardinality(old) /\ background <= BackgroundMax
    BY <1>0 DEF Counted
  <2> HIDE DEF old, new
  <2>7. background' = Cardinality(new) /\ background' <= BackgroundMax
    BY <2>1, <2>3, <2>4, <2>5, <2>6, LoaderAssumption
  <2> QED
    BY <1>0, <1>1, <2>7 DEF Counted, new
<1>7. InTurn'
  <2>1. Ordinary' = Ordinary \ {t}
    BY <1>1 DEF Ordinary
  <2> QED
    BY <1>0, <1>1, <1>2, <1>3, <2>1 DEF InTurn
<1>8. Streaks'
  <2>1. /\ jobPassed' = PassedKept(jobs.fg, jobs'.fg, loads, jobPassed)
        /\ resultPassed' = PassedKept(results.fg, results'.fg, loads, resultPassed)
        /\ jobStreak' = jobStreak /\ resultStreak' = resultStreak
    BY DEF Promote, streaks
  <2> QED
    BY <1>0, <2>1, PassedKeptIs DEF Streaks
<1>9. Alive'
  BY <1>0, <1>1 DEF Alive, NoMissedSignal, Promote, Signalled
<1> QED
  BY <1>4, <1>5, <1>6, <1>7, <1>8, <1>9 DEF LoaderInv

\* The worker takes a job, an ordinary one before those that are younger.
LEMMA TakesJob ==
  ASSUME LoaderInv, active = NoToken, NEW t \in Members(jobs), jobs' = Dropped(jobs, t), active' = t,
         UNCHANGED <<loads, results, flags, counters>>,
         t \in Ordinary => \A b \in ToSet(jobs.fg) \cap Ordinary : b # t => Precedes(loads, t, b)
  PROVE  Placed' /\ Flagged' /\ Counted' /\ InTurn'
<1>0. Placed /\ Flagged /\ Counted /\ InTurn
  BY DEF LoaderInv
<1>1. /\ loads' = loads /\ results' = results /\ foreground' = foreground /\ urgent' = urgent
      /\ cancelled' = cancelled /\ outstanding' = outstanding /\ background' = background
  BY DEF flags, counters
<1>2. /\ jobs' \in Queues /\ ToSet(jobs'.fg) = ToSet(jobs.fg) \ {t} /\ ToSet(jobs'.bg) = ToSet(jobs.bg) \ {t}
      /\ \A a, b : Precedes(jobs'.fg, a, b) <=> Precedes(jobs.fg, a, b) /\ a # t /\ b # t
  BY <1>0, LoadersQueues, DroppedIs
<1>3. t \in ToSet(loads) /\ t \in Tokens /\ t # NoToken /\ t \notin Members(results)
  BY <1>0, LoadersQueues, LoaderAssumption DEF Placed
<1>4. Placed'
  <2>1. Members(jobs') = Members(jobs) \ {t}
    BY <1>2 DEF Members
  <2> QED
    BY <1>0, <1>1, <1>2, <1>3, <2>1 DEF Placed
<1>5. Flagged'
  BY <1>0, <1>1, <1>2, <1>3 DEF Flagged
<1>6. Counted'
  BY <1>0, <1>1 DEF Counted
<1>7. InTurn'
  <2>1. Ordinary' = Ordinary
    BY <1>1 DEF Ordinary
  <2>2. t \in Ordinary => t \in ToSet(jobs.fg)
    BY <1>0 DEF Ordinary, Members, Flagged
  <2> QED
    BY <1>0, <1>1, <1>2, <2>1, <2>2 DEF InTurn
<1> QED
  BY <1>4, <1>5, <1>6, <1>7

LEMMA LookKeeps == ASSUME LoaderInv, Look PROVE LoaderInv'
<1>0. Placed /\ Flagged /\ Counted /\ InTurn /\ Streaks /\ Alive
  BY DEF LoaderInv
<1>1. /\ worker = "lock" /\ active = NoToken
      /\ UNCHANGED <<caller, stopping, loads, results, flags, counters, resultStreak, resultPassed>>
  BY <1>0 DEF Look, Alive
<1>2. CASE /\ UNCHANGED <<jobs, active, jobStreak, jobPassed>>
           /\ \/ stopping /\ worker' = "exited"
              \/ ~stopping /\ jobs = NoQueues /\ worker' = "wait"
  <2>1. Placed' /\ Flagged' /\ Counted' /\ InTurn' /\ Streaks'
    BY <1>1, <1>2, SameLoads DEF queues, passed, streaks
  <2>2. Alive'
    BY <1>0, <1>1, <1>2 DEF Alive, NoMissedSignal
  <2> QED
    BY <2>1, <2>2 DEF LoaderInv
<1>3. CASE /\ ~stopping /\ jobs.fg # <<>> /\ worker' = "work"
           /\ active' = Chosen(jobs.fg, jobStreak)
           /\ jobStreak' = StreakAfter(jobs.fg, jobStreak)
           /\ jobs' = Dropped(jobs, active')
           /\ jobPassed' = PassedAfter(jobs.fg, active', jobPassed)
  <2>1. /\ loads \in Lists /\ jobs.fg \in Lists /\ ToSet(jobs.fg) \subseteq ToSet(loads)
        /\ NoToken \notin ToSet(loads)
    BY <1>0, LoadersQueues, LoaderAssumption
  <2>2. ToSet(jobs.fg) \subseteq foreground /\ jobs.fg # <<>>
    BY <1>0, <1>3 DEF Flagged
  <2>3. \A a, b \in Ordinary : Precedes(jobs.fg, a, b) => Precedes(loads, a, b)
    BY <1>0 DEF InTurn
  <2>4. Streak(jobs.fg, jobPassed, jobStreak)
    BY <1>0 DEF Streaks
  <2>5. /\ active' \in ToSet(jobs.fg)
        /\ active' \in Ordinary => \A b \in ToSet(jobs.fg) \cap Ordinary : b # active' => Precedes(loads, active', b)
        /\ Streak(Without(jobs.fg, active'), jobPassed', jobStreak')
    BY <1>3, <2>1, <2>2, <2>3, <2>4, ChosenIs
  <2>6. active' \in Members(jobs) /\ active' # NoToken
    BY <2>1, <2>5 DEF Members
  <2>7. Placed' /\ Flagged' /\ Counted' /\ InTurn'
    BY <1>1, <1>3, <2>5, <2>6, TakesJob
  <2>8. Streaks'
    <3>1. jobs'.fg = Without(jobs.fg, active') /\ results' = results
      BY <1>1, <1>3 DEF Dropped
    <3> QED
      BY <1>0, <1>1, <2>5, <3>1 DEF Streaks
  <2>9. Alive'
    BY <1>0, <1>1, <1>3, <2>6 DEF Alive, NoMissedSignal
  <2> QED
    BY <2>7, <2>8, <2>9 DEF LoaderInv
<1>4. CASE /\ ~stopping /\ jobs.fg = <<>> /\ jobs.bg # <<>> /\ worker' = "work"
           /\ active' = Head(jobs.bg)
           /\ jobs' = Dropped(jobs, active')
           /\ UNCHANGED <<jobStreak, jobPassed>>
  <2>1. active' \in ToSet(jobs.bg) /\ NoToken \notin ToSet(loads) /\ ToSet(jobs.bg) \subseteq ToSet(loads)
    BY <1>0, <1>4, LoadersQueues, HeadIs, LoaderAssumption
  <2>2. active' \in Members(jobs) /\ active' # NoToken /\ active' \notin Ordinary
    BY <1>0, <2>1 DEF Members, Ordinary, Flagged
  <2>3. Placed' /\ Flagged' /\ Counted' /\ InTurn'
    BY <1>1, <1>4, <2>2, TakesJob
  <2>4. Streaks'
    <3>1. jobs'.fg = <<>> /\ results' = results
      BY <1>1, <1>4, EmptyList DEF Dropped, Without
    <3> QED
      BY <1>0, <1>1, <1>4, <3>1 DEF Streaks
  <2>5. Alive'
    BY <1>0, <1>1, <1>4, <2>2 DEF Alive, NoMissedSignal
  <2> QED
    BY <2>3, <2>4, <2>5 DEF LoaderInv
<1> QED
  BY <1>2, <1>3, <1>4, Zenon DEF Look

LEMMA LoadedKeeps == ASSUME LoaderInv, Loaded PROVE LoaderInv'
<1>0. Placed /\ Flagged /\ Counted /\ InTurn /\ Streaks /\ Alive
  BY DEF LoaderInv
<1>1. /\ worker = "work" /\ worker' = "lock" /\ active' = NoToken /\ active # NoToken
      /\ UNCHANGED <<caller, stopping, jobs, streaks, jobPassed>>
  BY <1>0 DEF Loaded, Alive
<1>2. /\ active \in ToSet(loads) /\ active \in Tokens /\ active \notin Members(jobs) \cup Members(results)
      /\ Ordinary \subseteq ToSet(loads) /\ NoToken \notin ToSet(loads)
      /\ jobs \in Queues /\ results \in Queues /\ results.fg \in Lists /\ results.bg \in Lists
  BY <1>0, <1>1, LoadersQueues, LoaderAssumption DEF Placed, Ordinary, Flagged
<1>3. CASE Forget(active) /\ UNCHANGED <<results, resultPassed>>
  <2>1. /\ Counted' /\ loads' \in Lists /\ ToSet(loads') = ToSet(loads) \ {active}
        /\ \A a, b : Precedes(loads', a, b) <=> Precedes(loads, a, b) /\ a # active /\ b # active
        /\ foreground' = foreground \ {active} /\ urgent' = urgent \ {active} /\ cancelled' = cancelled \ {active}
    BY <1>0, <1>2, <1>3, ForgetCounts
  <2>2. jobs' = jobs /\ results' = results
    BY <1>1, <1>3
  <2>3. Placed'
    BY <1>0, <1>1, <1>2, <2>1, <2>2 DEF Placed, Members
  <2>4. Flagged'
    BY <1>0, <1>1, <1>2, <2>1, <2>2 DEF Flagged, Members
  <2>5. InTurn'
    <3>1. Ordinary' = Ordinary \ {active} /\ NoToken \notin Ordinary
      BY <1>2, <2>1 DEF Ordinary
    <3> QED
      BY <1>0, <1>1, <2>1, <2>2, <3>1 DEF InTurn
  <2>6. Streaks'
    BY <1>0, <1>1, <1>3 DEF Streaks, streaks
  <2>7. Alive'
    <3>1. caller # "stopped"
      BY <1>0, <1>1 DEF Alive
    <3> QED
      BY <1>0, <1>1, <3>1 DEF Alive, NoMissedSignal
  <2> QED
    BY <2>1, <2>3, <2>4, <2>5, <2>6, <2>7 DEF LoaderInv
<1>4. CASE /\ ~Discarded
           /\ results' = IF active \in foreground THEN [results EXCEPT !.fg = Append(@, active)]
                         ELSE [results EXCEPT !.bg = Append(@, active)]
           /\ resultPassed' = PassedKept(results.fg, results'.fg, loads, resultPassed)
           /\ UNCHANGED <<loads, flags, counters>>
  <2>1. /\ loads' = loads /\ jobs' = jobs /\ foreground' = foreground /\ urgent' = urgent
        /\ cancelled' = cancelled /\ outstanding' = outstanding /\ background' = background
    BY <1>1, <1>4 DEF flags, counters
  <2>2. active \in Tokens \ ToSet(results.fg) /\ active \in Tokens \ ToSet(results.bg)
    BY <1>2 DEF Members
  <2>3. /\ results' \in Queues
        /\ ToSet(results'.fg) = ToSet(results.fg) \cup ({active} \cap foreground)
        /\ ToSet(results'.bg) = ToSet(results.bg) \cup ({active} \ foreground)
        /\ \A a, b : Precedes(results'.fg, a, b) =>
              Precedes(results.fg, a, b) \/ (a \in ToSet(results.fg) /\ b = active)
    <3>1. CASE active \in foreground
      <4>1. results'.fg = Append(results.fg, active) /\ results'.bg = results.bg
        BY <1>2, <1>4, <3>1 DEF Queues
      <4>2. /\ Append(results.fg, active) \in Lists
            /\ ToSet(Append(results.fg, active)) = ToSet(results.fg) \cup {active}
            /\ \A a, b : Precedes(Append(results.fg, active), a, b) <=>
                  Precedes(results.fg, a, b) \/ (a \in ToSet(results.fg) /\ b = active)
        BY <1>2, <2>2, AppendIs
      <4>3. results' \in Queues
        BY <1>2, <1>4, <3>1, <4>2 DEF Queues
      <4> QED
        BY <3>1, <4>1, <4>2, <4>3
    <3>2. CASE active \notin foreground
      <4>1. results'.bg = Append(results.bg, active) /\ results'.fg = results.fg
        BY <1>2, <1>4, <3>2 DEF Queues
      <4>2. /\ Append(results.bg, active) \in Lists
            /\ ToSet(Append(results.bg, active)) = ToSet(results.bg) \cup {active}
        BY <1>2, <2>2, AppendIs
      <4>3. results' \in Queues
        BY <1>2, <1>4, <3>2, <4>2 DEF Queues
      <4> QED
        BY <3>2, <4>1, <4>2, <4>3
    <3> QED
      BY <3>1, <3>2
  <2>4. Placed'
    <3>1. Members(results') = Members(results) \cup {active}
      BY <2>3 DEF Members
    <3>2. ToSet(results'.fg) \cap ToSet(results'.bg) = {}
      BY <1>0, <2>2, <2>3 DEF Placed
    <3>3. NoToken \notin Members(results')
      BY <1>0, <1>1, <1>2, <3>1 DEF Placed
    <3>4. NoToken \notin Members(jobs)
      BY <1>0, <1>2 DEF Placed
    <3> QED
      BY <1>0, <1>1, <1>2, <2>1, <2>3, <3>1, <3>2, <3>3, <3>4 DEF Placed
  <2>5. Flagged'
    <3>1. cancelled = {}
      BY <1>0, <1>4 DEF Discarded, Flagged
    <3> QED
      BY <1>0, <2>1, <2>3, <3>1 DEF Flagged
  <2>6. Counted'
    BY <1>0, <2>1 DEF Counted
  <2>7. InTurn'
    <3>1. Ordinary' = Ordinary /\ NoToken \notin Ordinary
      BY <1>2, <2>1 DEF Ordinary
    <3> QED
      BY <1>0, <1>1, <2>1, <2>3, <3>1 DEF InTurn
  <2>8. Streaks'
    BY <1>0, <1>1, <1>4, PassedKeptIs DEF Streaks, streaks
  <2>9. Alive'
    BY <1>0, <1>1, <2>1 DEF Alive, NoMissedSignal
  <2> QED
    BY <2>4, <2>5, <2>6, <2>7, <2>8, <2>9 DEF LoaderInv
<1> QED
  BY <1>3, <1>4 DEF Loaded

-----------------------------------------------------------------------------
(* The promise. *)

LEMMA LoaderKeeps == LoaderInv /\ [LoaderNext]_loader_vars => LoaderInv'
<1> SUFFICES ASSUME LoaderInv, [LoaderNext]_loader_vars PROVE LoaderInv'
  OBVIOUS
<1>1. CASE UNCHANGED loader_vars
  <2>1. Placed' /\ Flagged' /\ Counted' /\ InTurn' /\ Streaks'
    BY <1>1, SameLoads DEF loader_vars
  <2>2. Alive'
    BY <1>1 DEF loader_vars, LoaderInv, Alive, NoMissedSignal, queues
  <2> QED
    BY <2>1, <2>2 DEF LoaderInv
<1>2. ASSUME NEW t \in Tokens, NEW fg \in BOOLEAN, NEW urg \in BOOLEAN, urg => fg, Submit(t, fg, urg)
      PROVE  LoaderInv'
  BY <1>2, SubmitKeeps
<1>3. ASSUME NEW t \in Tokens, Promote(t) \/ Cancel(t) PROVE LoaderInv'
  BY <1>3, PromoteKeeps, CancelKeeps
<1>4. CASE StartLoader \/ Stop \/ Stopped
  BY <1>4, LoaderStartKeeps, StopKeeps, StoppedKeeps
<1>5. CASE CancelActive \/ PopForeground \/ PopBackground
  BY <1>5, CancelActiveKeeps, PopForegroundKeeps, PopBackgroundKeeps
<1>6. CASE Look \/ WakeUp \/ Loaded
  BY <1>6, LookKeeps, WakeUpKeeps, LoadedKeeps
<1> QED
  BY <1>1, <1>2, <1>3, <1>4, <1>5, <1>6 DEF LoaderNext

\* Each load is in one place, so there are as many places as loads.
LEMMA LoadsInPlaces == ASSUME Placed, Flagged PROVE OnePlace
<1> DEFINE mine == IF active = NoToken THEN <<>> ELSE <<active>>
           places == jobs.fg \o jobs.bg \o results.fg \o results.bg \o mine
<1>1. /\ jobs \in Queues /\ results \in Queues /\ loads \in Lists
      /\ jobs.fg \in Lists /\ jobs.bg \in Lists /\ results.fg \in Lists /\ results.bg \in Lists
  BY LoadersQueues
<1>2. /\ mine \in Seq(Tokens) /\ ToSet(mine) = {active} \ {NoToken}
      /\ IsFiniteSet(ToSet(mine)) /\ Cardinality(ToSet(mine)) = Len(mine)
  <2>1. CASE active = NoToken
    <3>1. mine = <<>>
      BY <2>1
    <3> QED
      BY <2>1, <3>1, EmptyList, ListCount, ListIs
  <2>2. CASE active # NoToken
    <3>1. active \in Tokens /\ active \in Tokens \ ToSet(<<>>)
      BY <2>2, EmptyList DEF Placed
    <3>2. Append(<<>>, active) = <<active>>
      OBVIOUS
    <3>3. <<active>> \in Lists /\ ToSet(<<active>>) = {active}
      <4>1. <<>> \in Lists /\ ToSet(<<>>) = {}
        BY EmptyList
      <4>2. Append(<<>>, active) \in Lists /\ ToSet(Append(<<>>, active)) = ToSet(<<>>) \cup {active}
        BY <3>1, <4>1, AppendIs
      <4> QED
        BY <3>2, <4>1, <4>2
    <3>4. mine = <<active>>
      BY <2>2
    <3> QED
      BY <2>2, <3>3, <3>4, ListCount, ListIs
  <2> QED
    BY <2>1, <2>2
<1> HIDE DEF mine
<1>3. ASSUME NEW s \in Seq(Tokens), NEW r \in Seq(Tokens)
      PROVE  s \o r \in Seq(Tokens) /\ Len(s \o r) = Len(s) + Len(r) /\ ToSet(s \o r) = ToSet(s) \cup ToSet(r)
  <2>1. /\ s \o r \in Seq(Tokens) /\ Len(s \o r) = Len(s) + Len(r) /\ Len(s) \in Nat /\ Len(r) \in Nat
        /\ \A i \in 1..(Len(s) + Len(r)) : (s \o r)[i] = IF i <= Len(s) THEN s[i] ELSE r[i - Len(s)]
    OBVIOUS
  <2>2. /\ ToSet(s \o r) = {(s \o r)[i] : i \in 1..(Len(s) + Len(r))}
        /\ ToSet(s) = {s[i] : i \in 1..Len(s)} /\ ToSet(r) = {r[i] : i \in 1..Len(r)}
    BY <2>1 DEF ToSet
  <2>3. ASSUME NEW i \in 1..(Len(s) + Len(r)) PROVE (s \o r)[i] \in ToSet(s) \cup ToSet(r)
    <3>1. CASE i <= Len(s)
      BY <2>1, <2>2, <3>1
    <3>2. CASE ~(i <= Len(s))
      <4>1. i - Len(s) \in 1..Len(r)
        BY <2>1, <3>2
      <4> QED
        BY <2>1, <2>2, <3>2, <4>1
    <3> QED
      BY <3>1, <3>2
  <2>4. ASSUME NEW i \in 1..Len(s) PROVE s[i] \in ToSet(s \o r)
    <3>1. i \in 1..(Len(s) + Len(r)) /\ i <= Len(s)
      BY <2>1
    <3> QED
      BY <2>1, <2>2, <3>1
  <2>5. ASSUME NEW i \in 1..Len(r) PROVE r[i] \in ToSet(s \o r)
    <3>1. Len(s) + i \in 1..(Len(s) + Len(r)) /\ ~(Len(s) + i <= Len(s)) /\ (Len(s) + i) - Len(s) = i
      BY <2>1
    <3>2. (s \o r)[Len(s) + i] = r[i]
      BY <2>1, <3>1
    <3> QED
      BY <2>2, <3>1, <3>2
  <2>6. ToSet(s \o r) \subseteq ToSet(s) \cup ToSet(r)
    BY <2>2, <2>3
  <2>7. ToSet(s) \subseteq ToSet(s \o r)
    BY <2>2, <2>4
  <2>8. ToSet(r) \subseteq ToSet(s \o r)
    BY <2>2, <2>5
  <2> QED
    BY <2>1, <2>6, <2>7, <2>8
<1> DEFINE p2 == jobs.fg \o jobs.bg
           p3 == p2 \o results.fg
           p4 == p3 \o results.bg
<1>4. jobs.fg \in Seq(Tokens) /\ jobs.bg \in Seq(Tokens) /\ results.fg \in Seq(Tokens) /\ results.bg \in Seq(Tokens)
  BY <1>1, ListIs
<1>5. p2 \in Seq(Tokens) /\ Len(p2) = Len(jobs.fg) + Len(jobs.bg) /\ ToSet(p2) = Members(jobs)
  BY <1>3, <1>4 DEF Members
<1>p. places = p4 \o mine
  OBVIOUS
<1> HIDE DEF p2
<1>6. p3 \in Seq(Tokens) /\ Len(p3) = Len(p2) + Len(results.fg) /\ ToSet(p3) = Members(jobs) \cup ToSet(results.fg)
  BY <1>3, <1>4, <1>5
<1> HIDE DEF p3
<1>7. p4 \in Seq(Tokens) /\ Len(p4) = Len(p3) + Len(results.bg) /\ ToSet(p4) = Members(jobs) \cup Members(results)
  <2>1. p4 \in Seq(Tokens) /\ Len(p4) = Len(p3) + Len(results.bg) /\ ToSet(p4) = ToSet(p3) \cup ToSet(results.bg)
    BY <1>3, <1>4, <1>6
  <2>2. ToSet(p3) \cup ToSet(results.bg) = Members(jobs) \cup Members(results)
    BY <1>6 DEF Members
  <2> QED
    BY <2>1, <2>2
<1> HIDE DEF p4, places
<1>8. Len(places) = Len(p4) + Len(mine) /\ ToSet(places) = Members(jobs) \cup Members(results) \cup ToSet(mine)
  BY <1>2, <1>3, <1>7, <1>p
<1>9. ToSet(places) = ToSet(loads)
  BY <1>2, <1>8 DEF Placed
<1>10. /\ IsFiniteSet(Members(jobs)) /\ Cardinality(Members(jobs)) = Len(jobs.fg) + Len(jobs.bg)
       /\ IsFiniteSet(Members(results)) /\ Cardinality(Members(results)) = Len(results.fg) + Len(results.bg)
       /\ Len(jobs.fg) \in Nat /\ Len(jobs.bg) \in Nat /\ Len(results.fg) \in Nat /\ Len(results.bg) \in Nat
  BY <1>1, QueueCount DEF Placed
<1>11. /\ Members(jobs) \cap Members(results) = {} /\ (Members(jobs) \cup Members(results)) \cap ToSet(mine) = {}
  BY <1>2 DEF Placed
<1>12. /\ IsFiniteSet(Members(jobs) \cup Members(results))
       /\ Cardinality(Members(jobs) \cup Members(results)) = Cardinality(Members(jobs)) + Cardinality(Members(results))
  BY <1>10, <1>11, ApartCount
<1>13. Cardinality(ToSet(places)) = Cardinality(Members(jobs) \cup Members(results)) + Cardinality(ToSet(mine))
  BY <1>2, <1>8, <1>11, <1>12, ApartCount
<1>14. Len(p4) = Len(jobs.fg) + Len(jobs.bg) + (Len(results.fg) + Len(results.bg))
  <2> DEFINE a == Len(jobs.fg)
             b == Len(jobs.bg)
             c == Len(results.fg)
             d == Len(results.bg)
  <2>1. a \in Nat /\ b \in Nat /\ c \in Nat /\ d \in Nat
    BY <1>10
  <2>2. Len(p2) = a + b /\ Len(p3) = Len(p2) + c /\ Len(p4) = Len(p3) + d
    BY <1>5, <1>6, <1>7
  <2> HIDE DEF a, b, c, d
  <2>3. Len(p4) = a + b + (c + d)
    BY <2>1, <2>2
  <2> QED
    BY <2>3 DEF a, b, c, d
<1>15. Len(places) = Cardinality(ToSet(places))
  BY <1>2, <1>8, <1>10, <1>12, <1>13, <1>14
<1>16. Len(places) = Len(loads)
  BY <1>1, <1>9, <1>15, ListCount
<1>17. ToSet(jobs.fg \o results.fg) \subseteq foreground /\ ToSet(jobs.bg \o results.bg) \cap foreground = {}
  BY <1>3, <1>4 DEF Flagged
<1> QED
  BY <1>9, <1>16, <1>17 DEF OnePlace, places, mine

LEMMA LoadsAreKept == ASSUME LoaderInv PROVE LoadsKept
<1>0. Placed /\ Flagged /\ Counted /\ Streaks /\ Alive
  BY DEF LoaderInv
<1>1. loads \in Lists /\ IsFiniteSet(ToSet(loads)) /\ ToSet(loads) \subseteq Tokens /\ Len(loads) \in Nat
  BY <1>0, LoadersQueues, ListCount, ListIs
<1>2. background \in Nat
  <2>1. IsFiniteSet(ToSet(loads) \ foreground)
    BY <1>1, FS_Subset
  <2> QED
    BY <1>0, <2>1, FS_CardinalityType DEF Counted
<1>3. outstanding \in 0..OutstandingMax /\ background \in 0..BackgroundMax
  BY <1>0, <1>1, <1>2, LoaderAssumption DEF Counted
<1>4. FLTypeOK
  BY <1>0, <1>1, <1>3 DEF FLTypeOK, Placed, Flagged, Streaks, Streak, Alive
<1>5. CountsAreTrue
  <2>1. {t \in ToSet(loads) : t \notin foreground} = ToSet(loads) \ foreground
    OBVIOUS
  <2> QED
    BY <1>0, <2>1 DEF CountsAreTrue, Counted
<1>6. NoCancelledResult
  BY <1>0 DEF NoCancelledResult, Flagged, Placed
<1>7. PassedTwice
  BY <1>0 DEF PassedTwice, Streaks, Streak
<1> QED
  BY <1>0, <1>4, <1>5, <1>6, <1>7, LoadsInPlaces DEF LoadsKept, Alive

\* Whatever the main thread submits, promotes and cancels while a load is under
\* way, and whenever it stops the worker, each load is in one place, the
\* counters that face_loader_stop() asserts to end at 0 are true, a cancelled
\* load yields no result, the oldest is passed over at most twice, and the
\* worker does not sleep over a job.
THEOREM LoadsAlwaysKept == LoaderSpec => []LoadsKept
<1>1. LoaderSpec => []LoaderInv
  BY LoaderStarts, LoaderKeeps, PTL DEF LoaderSpec
<1>2. LoaderInv => LoadsKept
  BY LoadsAreKept
<1> QED
  BY <1>1, <1>2, PTL

-----------------------------------------------------------------------------
(* The requests. *)

Requested == {p \in Paths : Exists(p)}

\* The requests in their order, each once.
Sequenced == order \in Seq(Paths) /\ Single(order) /\ ToSet(order) = Requested

MainType == [pc : {"idle", "load", "handoff", "release"}, path : Paths \cup {None}, prio : BOOLEAN]
\* The main thread, but for the moment at which it has looked and not yet made the request.
Onward == {m \in MainType : m.pc # "load" /\ (m.pc # "idle" => m.path \in Paths)}

Shaped ==
    /\ caps \in {"off", "none", "generic", "batch"} /\ io \in {"off", "idle", "open", "serve"}
    /\ todo \subseteq Paths \cup Slots
    /\ main \in MainType
    /\ main.pc # "idle" => main.path \in Paths
    /\ req \in [Paths -> RequestType \cup {None}] /\ batch \in [Slots -> BatchType \cup {None}]
    /\ held \in [Paths -> Nat]

\* A request, for the number of its users: what has no user is cancelled, and
\* only what is pending has a stream or is complete later.
RequestIs(r, users) ==
    /\ r.refs = users /\ (r.cancelled <=> users = 0)
    /\ r.stream => r.state = "pending" /\ r.batch = None /\ r.trans # "queued"
    /\ r.batch # None => r.state \in {"pending", "error"}
    /\ r.preempt => r.batch = None /\ (r.state = "pending" => r.trans # "queued")
    /\ r.state = "complete" => r.data = "good"

RequestsAre == \A p \in Paths : IF Exists(p) THEN RequestIs(req[p], held[p]) ELSE held[p] = 0

\* The members of a batch that are left have it, and no other request has a batch.
Belonging ==
    /\ \A b \in Batches : \A p \in Remaining(b) : p \in Paths /\ Exists(p) /\ req[p].batch = b
    /\ \A p \in Paths : Exists(p) /\ req[p].batch # None => \E b \in Batches : req[p].batch = b /\ p \in Remaining(b)

\* A batch, as far as it has got.
BatchIs(t) ==
    /\ Len(t.members) \in 1..BatchMax /\ Single(t.members)
    /\ t.current \in 1..Len(t.members) + 1
    /\ IF t.trans = "fin" THEN t.current >= Len(t.members) ELSE t.current <= Len(t.members) /\ ~t.final

\* The last member of a batch is complete when the batch is.
LastGood(t) == t.final /\ t.current = Len(t.members) =>
    LET r == req[t.members[t.current]] IN r.cancelled \/ r.data = "good"

BatchesAre == \A b \in Batches : BatchIs(batch[b]) /\ LastGood(batch[b])

Limited == Active <= ActiveMax /\ Cardinality(Pending) <= PendingMax

\* The two threads.
Threads ==
    /\ io = "off" => caps = "off" /\ Pending = {}
    /\ io = "serve" => todo \subseteq Streams \cup Batches
    /\ main.pc = "load" => ~Exists(main.path)

RequestInv == Shaped /\ Sequenced /\ RequestsAre /\ Belonging /\ BatchesAre /\ Limited /\ Threads

-----------------------------------------------------------------------------
(* The order of the requests. *)

Listed == ToSet(order)

LEMMA OrderIs ==
  ASSUME Sequenced
  PROVE  /\ Len(order) \in Nat /\ DOMAIN order = 1..Len(order)
         /\ Listed = {order[i] : i \in 1..Len(order)} /\ Listed \subseteq Paths
         /\ \A i \in 1..Len(order) : order[i] \in Paths /\ order[i] \in Listed
         /\ \A i, j \in 1..Len(order) : order[i] = order[j] => i = j
<1>1. Len(order) \in Nat /\ DOMAIN order = 1..Len(order) /\ \A i \in 1..Len(order) : order[i] \in Paths
  BY DEF Sequenced
<1>2. Listed = {order[i] : i \in 1..Len(order)}
  BY <1>1 DEF Listed, ToSet
<1> QED
  BY <1>1, <1>2 DEF Sequenced, Single

\* The paths of a set by sequence: as many as there are, and in their order.
LEMMA OlderIs ==
  ASSUME Sequenced, NEW S
  PROVE  /\ Older(S) \in Seq(Paths) /\ ToSet(Older(S)) = Listed \cap S
         /\ Len(Older(S)) \in Nat /\ DOMAIN Older(S) = 1..Len(Older(S))
         /\ \A k \in 1..Len(Older(S)) : Older(S)[k] \in Listed \cap S
         /\ \A k, l \in 1..Len(Older(S)) : k < l => Before(Older(S)[k], Older(S)[l])
<1> DEFINE places == {i \in DOMAIN order : order[i] \in S}
           below(i) == {j \in places : j <= i}
           n == Cardinality(places)
           c(i) == Cardinality(below(i))
           R == [i \in places |-> c(i)]
           at(k) == CHOOSE i \in places : c(i) = k
<1>1. /\ Len(order) \in Nat /\ DOMAIN order = 1..Len(order) /\ places \subseteq 1..Len(order)
      /\ \A i \in places : order[i] \in Listed \cap S
  BY OrderIs
<1>2. IsFiniteSet(places) /\ n \in Nat
  <2>1. IsFiniteSet(1..Len(order))
    BY <1>1, FS_Interval
  <2> QED
    BY <1>1, <2>1, FS_Subset, FS_CardinalityType
<1>3. ASSUME NEW i \in places PROVE IsFiniteSet(below(i)) /\ Cardinality(below(i)) \in 1..n
  <2>1. below(i) \in SUBSET places
    OBVIOUS
  <2>2. IsFiniteSet(below(i)) /\ Cardinality(below(i)) <= n
    BY <1>2, <2>1, FS_Subset
  <2>3. i \in below(i)
    BY <1>1
  <2>4. Cardinality(below(i)) \in Nat /\ Cardinality(below(i)) # 0
    BY <2>2, <2>3, FS_CardinalityType, FS_EmptySet
  <2> QED
    BY <1>2, <2>2, <2>4
<1>4. ASSUME NEW i \in places, NEW j \in places, i < j PROVE Cardinality(below(i)) < Cardinality(below(j))
  <2>1. below(i) \in SUBSET below(j)
    BY <1>1, <1>4
  <2>2. j \in below(j) /\ j \notin below(i)
    BY <1>1, <1>4
  <2>3. /\ Cardinality(below(i)) <= Cardinality(below(j))
        /\ Cardinality(below(j)) = Cardinality(below(i)) => below(j) = below(i)
    BY <1>3, <2>1, FS_Subset
  <2>4. Cardinality(below(i)) # Cardinality(below(j))
    BY <2>2, <2>3
  <2>5. Cardinality(below(i)) \in 1..n /\ Cardinality(below(j)) \in 1..n
    BY <1>3
  <2> QED
    BY <1>2, <2>3, <2>4, <2>5
<1>5. R \in Surjection(places, 1..n)
  <2>1. R \in [places -> 1..n]
    BY <1>3
  <2>2. ASSUME NEW i \in places, NEW j \in places, R[i] = R[j] PROVE i = j
    <3>1. i \in Int /\ j \in Int
      BY <1>1
    <3>2. R[i] \in 1..n /\ R[j] \in 1..n /\ R[i] = Cardinality(below(i)) /\ R[j] = Cardinality(below(j))
      BY <1>3
    <3>3. ~(i < j)
      BY <1>2, <1>4, <2>2, <3>2
    <3>4. ~(j < i)
      BY <1>2, <1>4, <2>2, <3>2
    <3> QED
      BY <3>1, <3>3, <3>4
  <2>3. R \in Injection(places, 1..n)
    BY <2>1, <2>2 DEF Injection, IsInjective
  <2>4. IsFiniteSet(1..n) /\ Cardinality(1..n) = n
    <3>1. 1 \in Int /\ n \in Int
      BY <1>2
    <3>2. IsFiniteSet(1..n) /\ Cardinality(1..n) = IF 1 > n THEN 0 ELSE n - 1 + 1
      BY <3>1, FS_Interval
    <3> QED
      BY <1>2, <3>2
  <2> QED
    BY <2>3, <2>4, FS_Injection
<1>6. ASSUME NEW k \in 1..n PROVE at(k) \in places /\ c(at(k)) = k
  <2>1. \E i \in places : R[i] = k
    BY <1>5 DEF Surjection
  <2> QED
    BY <2>1
<1>a. \A i \in places : c(i) \in 1..n /\ i \in 1..Len(order)
  BY <1>1, <1>3
<1>b. \A i, j \in places : i < j => c(i) < c(j)
  BY <1>4
<1> HIDE DEF at, n, c
<1>c. \A i, j \in places : c(i) = c(j) => i = j
  <2> SUFFICES ASSUME NEW i \in places, NEW j \in places, c(i) = c(j) PROVE i = j
    OBVIOUS
  <2>1. i \in Nat /\ j \in Nat /\ c(i) \in Nat
    BY <1>1, <1>2, <1>a
  <2>2. ~(i < j) /\ ~(j < i)
    BY <1>b, <2>1
  <2> QED
    BY <2>1, <2>2
<1>7. ASSUME NEW i \in places PROVE \E k \in 1..n : at(k) = i
  <2>1. c(i) \in 1..n
    BY <1>a
  <2>2. at(c(i)) \in places /\ c(at(c(i))) = c(i)
    BY <1>6, <2>1
  <2> QED
    BY <1>c, <2>1, <2>2
<1>8. ASSUME NEW k \in 1..n, NEW l \in 1..n, k < l PROVE at(k) < at(l)
  <2>1. at(k) \in places /\ at(l) \in places /\ c(at(k)) = k /\ c(at(l)) = l
    BY <1>6
  <2>2. at(k) \in Nat /\ at(l) \in Nat /\ k \in Nat /\ l \in Nat
    BY <1>1, <1>2, <1>a, <2>1
  <2>3. ~(at(l) < at(k)) /\ at(k) # at(l)
    BY <1>8, <1>b, <2>1, <2>2
  <2> QED
    BY <2>2, <2>3
<1>9. Older(S) = [k \in 1..n |-> order[at(k)]]
  BY DEF Older, at, n, c
<1>10. \A k \in 1..n : at(k) \in 1..Len(order) /\ order[at(k)] \in Listed \cap S /\ order[at(k)] \in Paths
  BY <1>1, <1>6, OrderIs
<1>11. Older(S) \in Seq(Paths) /\ Len(Older(S)) = n /\ DOMAIN Older(S) = 1..n
  BY <1>2, <1>9, <1>10
<1>12. \A k \in 1..n : Older(S)[k] = order[at(k)]
  BY <1>9
<1>13. ToSet(Older(S)) \subseteq Listed \cap S
  BY <1>10, <1>11, <1>12 DEF ToSet
<1>14. ASSUME NEW p \in Listed \cap S PROVE p \in ToSet(Older(S))
  <2>1. PICK i \in 1..Len(order) : order[i] = p
    BY OrderIs
  <2>2. i \in places
    BY <1>1, <2>1
  <2>3. PICK k \in 1..n : at(k) = i
    BY <1>7, <2>2
  <2> QED
    BY <1>11, <1>12, <2>1, <2>3 DEF ToSet
<1>15. ASSUME NEW k \in 1..n, NEW l \in 1..n, k < l PROVE Before(Older(S)[k], Older(S)[l])
  BY <1>1, <1>8, <1>10, <1>12, <1>15 DEF Before
<1> QED
  BY <1>2, <1>10, <1>11, <1>12, <1>13, <1>14, <1>15

\* The order is strict and total.
LEMMA BeforeIs ==
  ASSUME Sequenced
  PROVE  /\ \A p, q : Before(p, q) => p # q /\ ~Before(q, p) /\ p \in Listed /\ q \in Listed
         /\ \A p, q \in Listed : p # q => Before(p, q) \/ Before(q, p)
         /\ \A p, q, r : Before(p, q) /\ Before(q, r) => Before(p, r)
<1>1. /\ Len(order) \in Nat /\ DOMAIN order = 1..Len(order)
      /\ \A i \in 1..Len(order) : order[i] \in Listed
      /\ \A i, j \in 1..Len(order) : order[i] = order[j] => i = j
      /\ Listed = {order[i] : i \in 1..Len(order)}
  BY OrderIs
<1>2. ASSUME NEW p, NEW q, Before(p, q) PROVE p # q /\ ~Before(q, p) /\ p \in Listed /\ q \in Listed
  <2>1. PICK i, j \in 1..Len(order) : i < j /\ order[i] = p /\ order[j] = q
    BY <1>1, <1>2 DEF Before
  <2>2. p # q
    BY <1>1, <2>1
  <2>3. ASSUME NEW k \in 1..Len(order), NEW l \in 1..Len(order), k < l, order[k] = q, order[l] = p PROVE FALSE
    BY <1>1, <2>1, <2>3
  <2>4. ~Before(q, p)
    BY <1>1, <2>3 DEF Before
  <2> QED
    BY <1>1, <2>1, <2>2, <2>4
<1>3. ASSUME NEW p \in Listed, NEW q \in Listed, p # q PROVE Before(p, q) \/ Before(q, p)
  <2>1. PICK i \in 1..Len(order) : order[i] = p
    BY <1>1
  <2>2. PICK j \in 1..Len(order) : order[j] = q
    BY <1>1
  <2>3. i < j \/ j < i
    BY <1>1, <1>3, <2>1, <2>2
  <2> QED
    BY <1>1, <2>1, <2>2, <2>3 DEF Before
<1>4. ASSUME NEW p, NEW q, NEW r, Before(p, q), Before(q, r) PROVE Before(p, r)
  <2>1. PICK i, j \in 1..Len(order) : i < j /\ order[i] = p /\ order[j] = q
    BY <1>1, <1>4 DEF Before
  <2>2. PICK k, l \in 1..Len(order) : k < l /\ order[k] = q /\ order[l] = r
    BY <1>1, <1>4 DEF Before
  <2>3. i < l
    BY <1>1, <2>1, <2>2
  <2> QED
    BY <1>1, <2>1, <2>2, <2>3 DEF Before
<1> QED
  BY <1>2, <1>3, <1>4

\* The first of a set is before the others.
LEMMA EldestIs ==
  ASSUME Sequenced, NEW S, Listed \cap S # {}
  PROVE  /\ Len(Older(S)) >= 1 /\ Older(S)[1] \in Listed \cap S
         /\ \A p \in Listed \cap S : p = Older(S)[1] \/ Before(Older(S)[1], p)
<1>1. /\ Len(Older(S)) \in Nat /\ DOMAIN Older(S) = 1..Len(Older(S)) /\ ToSet(Older(S)) = Listed \cap S
      /\ \A k \in 1..Len(Older(S)) : Older(S)[k] \in Listed \cap S
      /\ \A k, l \in 1..Len(Older(S)) : k < l => Before(Older(S)[k], Older(S)[l])
  BY OlderIs
<1>2. ToSet(Older(S)) = {Older(S)[k] : k \in 1..Len(Older(S))}
  BY <1>1 DEF ToSet
<1>3. 1 \in 1..Len(Older(S))
  BY <1>1, <1>2
<1>4. ASSUME NEW p \in Listed \cap S PROVE p = Older(S)[1] \/ Before(Older(S)[1], p)
  <2>1. PICK k \in 1..Len(Older(S)) : Older(S)[k] = p
    BY <1>1, <1>2
  <2>2. k = 1 \/ 1 < k
    BY <1>1, <2>1
  <2> QED
    BY <1>1, <1>3, <2>1, <2>2
<1> QED
  BY <1>1, <1>3, <1>4

-----------------------------------------------------------------------------
(* What is opened next. *)

LEMMA QueuedIs ==
  ASSUME Sequenced
  PROVE  /\ Queued \subseteq Pending /\ Pending \subseteq Listed /\ Streams \subseteq Listed /\ Listed = Requested
         /\ \A p \in Queued : p \in Paths /\ Exists(p) /\ ~req[p].stream /\ req[p].batch = None
  BY DEF Sequenced, Listed, Queued, Pending, Streams, Requested

\* A face is opened next only if no older generic request waits, and no older
\* face that is as visible.
LEMMA NextIs ==
  ASSUME Sequenced, Queued # {}
  PROVE  /\ OldestQueued \in Queued
         /\ OldestQueued \in Faces =>
               /\ \A g \in Queued \cap Generics : Before(OldestQueued, g)
               /\ \A p \in Queued : req[p].prio = req[OldestQueued].prio =>
                     p = OldestQueued \/ Before(OldestQueued, p)
<1> DEFINE visible == {p \in Queued : req[p].prio}
           generic == Queued \cap Generics
           first == OldestQueued
<1>1. Queued \subseteq Listed /\ Listed \cap Queued = Queued /\ Listed \cap visible = visible /\ Listed \cap generic = generic
  BY QueuedIs
<1>f. Faces \cap Generics = {}
  BY AssetAssumption
<1>2. CASE visible = {}
  <2>1. first = Older(Queued)[1]
    BY <1>2 DEF OldestQueued
  <2>2. first \in Queued /\ \A p \in Queued : p = first \/ Before(first, p)
    BY <1>1, <2>1, EldestIs
  <2> QED
    BY <1>f, <2>2
<1>3. CASE visible # {}
  <2> DEFINE v == Older(visible)[1]
             g == Older(generic)[1]
  <2>1. v \in visible /\ \A p \in visible : p = v \/ Before(v, p)
    BY <1>1, <1>3, EldestIs
  <2>2. generic # {} => g \in generic /\ \A p \in generic : p = g \/ Before(g, p)
    BY <1>1, EldestIs
  <2>3. first = Older(Preferred(generic, visible))[1]
    BY <1>3 DEF OldestQueued
  <2>4. CASE generic # {} /\ Before(g, v)
    <3>1. first = g
      BY <2>3, <2>4 DEF Preferred
    <3> QED
      BY <1>f, <2>2, <2>4, <3>1
  <2>5. CASE ~(generic # {} /\ Before(g, v))
    <3>1. first = v
      BY <2>3, <2>5 DEF Preferred
    <3>2. ASSUME first \in Faces, NEW p \in generic PROVE Before(first, p)
      <4>1. g \in generic /\ g # v /\ (p = g \/ Before(g, p))
        BY <1>f, <2>2, <3>1, <3>2
      <4>2. Before(v, g)
        BY <1>1, <2>1, <2>5, <3>2, <4>1, BeforeIs
      <4> QED
        BY <3>1, <4>1, <4>2, BeforeIs
    <3>3. req[v].prio /\ v \in Queued
      BY <2>1
    <3>4. ASSUME NEW p \in Queued, req[p].prio = req[first].prio PROVE p = first \/ Before(first, p)
      BY <2>1, <3>1, <3>3, <3>4
    <3> QED
      BY <3>1, <3>2, <3>3, <3>4
  <2> QED
    BY <2>4, <2>5
<1> QED
  BY <1>2, <1>3

\* The faces that are batched with it.
LEMMA BatchOfIs ==
  ASSUME Sequenced, NEW first \in Queued \cap Faces, first = OldestQueued
  PROVE  /\ BatchOf(first) \in Seq(Paths) /\ Len(BatchOf(first)) \in 1..BatchMax /\ Single(BatchOf(first))
         /\ BatchOf(first)[1] = first
         /\ ToSet(BatchOf(first)) \subseteq Queued \cap Faces
         /\ \A p \in ToSet(BatchOf(first)) : \A g \in Queued \cap Generics : Before(p, g)
<1> DEFINE may == {p \in Queued \cap Faces : /\ req[p].prio = req[first].prio
                                            /\ ~req[p].isolated
                                            /\ BelowBarrier(Queued, p)}
           s == Older(may)
           m == IF Len(s) < BatchMax THEN Len(s) ELSE BatchMax
<1>0. BatchMax \in Nat \ {0}
  BY AssetAssumption
<1>1. /\ \A g \in Queued \cap Generics : Before(first, g)
      /\ \A p \in Queued : req[p].prio = req[first].prio => p = first \/ Before(first, p)
  BY NextIs
<1>2. CASE req[first].isolated
  <2>1. BatchOf(first) = <<first>>
    BY <1>2 DEF BatchOf
  <2>2. first \in Paths
    BY QueuedIs
  <2>3. ToSet(<<first>>) = {first} /\ Single(<<first>>)
    BY DEF ToSet, Single
  <2> QED
    BY <1>0, <1>1, <2>1, <2>2, <2>3
<1>3. CASE ~req[first].isolated
  <2>1. BatchOf(first) = SubSeq(s, 1, m)
    BY <1>3 DEF BatchOf
  <2>2. may \subseteq Queued \cap Faces /\ Listed \cap may = may
    BY QueuedIs
  <2>3. first \in may
    BY <1>1, <1>3 DEF BelowBarrier
  <2>4. /\ s \in Seq(Paths) /\ Len(s) \in Nat /\ DOMAIN s = 1..Len(s) /\ \A k \in 1..Len(s) : s[k] \in may
        /\ \A k, l \in 1..Len(s) : k < l => Before(s[k], s[l])
    BY <2>2, OlderIs
  <2>5. Len(s) >= 1 /\ s[1] \in may /\ \A p \in may : p = s[1] \/ Before(s[1], p)
    BY <2>2, <2>3, EldestIs
  <2>6. s[1] = first
    <3>1. first = s[1] \/ Before(s[1], first)
      BY <2>3, <2>5
    <3>2. s[1] = first \/ Before(first, s[1])
      BY <1>1, <2>5
    <3> QED
      BY <3>1, <3>2, BeforeIs
  <2> HIDE DEF s, may
  <2>7. m \in 1..Len(s) /\ m <= BatchMax
    BY <1>0, <2>4, <2>5
  <2> HIDE DEF m
  <2>8. /\ SubSeq(s, 1, m) \in Seq(Paths) /\ Len(SubSeq(s, 1, m)) = m /\ DOMAIN SubSeq(s, 1, m) = 1..m
        /\ \A k \in 1..m : SubSeq(s, 1, m)[k] = s[k] /\ k \in 1..Len(s)
    BY <2>4, <2>7
  <2>9. Single(SubSeq(s, 1, m))
    <3> SUFFICES ASSUME NEW k \in 1..m, NEW l \in 1..m, s[k] = s[l], k # l PROVE FALSE
      BY <2>8 DEF Single
    <3>1. k < l \/ l < k
      BY <2>4, <2>7
    <3>2. Before(s[k], s[l]) \/ Before(s[l], s[k])
      BY <2>4, <2>8, <3>1
    <3> QED
      BY <3>2, BeforeIs
  <2>10. ToSet(SubSeq(s, 1, m)) \subseteq may
    BY <2>4, <2>8 DEF ToSet
  <2>11. \A p \in may : \A g \in Queued \cap Generics : Before(p, g)
    BY DEF may, BelowBarrier
  <2>12. m \in 1..BatchMax /\ 1 \in 1..m
    BY <1>0, <2>4, <2>7
  <2> QED
    BY <2>1, <2>2, <2>6, <2>8, <2>9, <2>10, <2>11, <2>12
<1> QED
  BY <1>2, <1>3

-----------------------------------------------------------------------------
(* What several steps need. *)

LEMMA RequestHas ==
  ASSUME Shaped, NEW p \in Paths, Exists(p)
  PROVE  /\ req[p] \in RequestType
         /\ req[p].refs \in Nat /\ req[p].state \in {"pending", "complete", "error", "preempted"}
         /\ req[p].trans \in {"queued", "send", "header", "body", "fin"} /\ req[p].batch \in Slots \cup {None}
         /\ req[p].stream \in BOOLEAN /\ req[p].prio \in BOOLEAN /\ req[p].isolated \in BOOLEAN
         /\ req[p].preempt \in BOOLEAN /\ req[p].cancelled \in BOOLEAN /\ req[p].data \in {"none", "good", "bad"}
<1>1. req[p] \in RequestType
  BY DEF Shaped, Exists
<1> QED
  BY <1>1 DEF RequestType

LEMMA BatchHas ==
  ASSUME Shaped, NEW b \in Batches
  PROVE  /\ b \in Slots /\ batch[b] \in BatchType
         /\ batch[b].members \in Seq(Paths) /\ batch[b].current \in Nat
         /\ Len(batch[b].members) \in Nat /\ DOMAIN batch[b].members = 1..Len(batch[b].members)
         /\ batch[b].trans \in {"send", "header", "body", "fin"} /\ batch[b].priority \in BOOLEAN
         /\ batch[b].preempt \in BOOLEAN /\ batch[b].final \in BOOLEAN
<1>1. b \in Slots /\ batch[b] \in BatchType
  BY DEF Shaped, Batches
<1> QED
  BY <1>1 DEF BatchType

\* None is no request and no batch.
LEMMA NotNone == (\A r \in RequestType : r # None) /\ (\A t \in BatchType : t # None) /\ \A b \in Slots : b # None
  BY NoneAssumption

LEMMA SlotsAre == IsFiniteSet(Slots) /\ Cardinality(Slots) = ActiveMax /\ ActiveMax \in Nat \ {0} /\ Slots \subseteq Nat
<1>1. 1 \in Int /\ ActiveMax \in Nat \ {0} /\ ActiveMax \in Int
  BY AssetAssumption
<1>2. IsFiniteSet(1..ActiveMax) /\ Cardinality(1..ActiveMax) = IF 1 > ActiveMax THEN 0 ELSE ActiveMax - 1 + 1
  BY <1>1, FS_Interval
<1> QED
  BY <1>1, <1>2 DEF Slots

LEMMA FewIs ==
  ASSUME Sequenced
  PROVE  /\ IsFiniteSet(Listed) /\ IsFiniteSet(Streams) /\ IsFiniteSet(Pending) /\ IsFiniteSet(Batches)
         /\ Cardinality(Streams) \in Nat /\ Cardinality(Pending) \in Nat /\ Cardinality(Batches) \in Nat
<1> DEFINE f == [i \in 1..Len(order) |-> order[i]]
<1>1. Len(order) \in Nat /\ Listed = {order[i] : i \in 1..Len(order)}
  BY OrderIs
<1>2. f \in Surjection(1..Len(order), Listed)
  BY <1>1 DEF Surjection
<1>3. IsFiniteSet(1..Len(order))
  BY <1>1, FS_Interval
<1>4. IsFiniteSet(Listed)
  BY <1>2, <1>3, FS_Surjection
<1>5. Streams \in SUBSET Listed /\ Pending \in SUBSET Listed
  BY QueuedIs
<1>6. Batches \in SUBSET Slots
  BY DEF Batches
<1>7. IsFiniteSet(Streams) /\ IsFiniteSet(Pending) /\ IsFiniteSet(Batches)
  BY <1>4, <1>5, <1>6, SlotsAre, FS_Subset
<1> QED
  BY <1>4, <1>7, FS_CardinalityType

\* The limits stay when nothing is added.
LEMMA LimitsKept ==
  ASSUME Sequenced, Limited, Streams' \subseteq Streams, Batches' \subseteq Batches, Pending' \subseteq Pending
  PROVE  Limited'
<1>1. /\ IsFiniteSet(Streams) /\ IsFiniteSet(Pending) /\ IsFiniteSet(Batches)
      /\ Cardinality(Streams) \in Nat /\ Cardinality(Pending) \in Nat /\ Cardinality(Batches) \in Nat
  BY FewIs
<1>2. Streams' \in SUBSET Streams /\ Batches' \in SUBSET Batches /\ Pending' \in SUBSET Pending
  OBVIOUS
<1>3. /\ Cardinality(Streams') <= Cardinality(Streams) /\ Cardinality(Batches') <= Cardinality(Batches)
      /\ Cardinality(Pending') <= Cardinality(Pending)
      /\ IsFiniteSet(Streams') /\ IsFiniteSet(Pending') /\ IsFiniteSet(Batches')
  BY <1>1, <1>2, FS_Subset
<1>4. Cardinality(Streams') \in Nat /\ Cardinality(Pending') \in Nat /\ Cardinality(Batches') \in Nat
  BY <1>3, FS_CardinalityType
<1>5. ActiveMax \in Nat /\ PendingMax \in Nat
  BY AssetAssumption
<1> QED
  BY <1>1, <1>3, <1>4, <1>5 DEF Limited, Active

\* Requests are taken out of the order.
LEMMA LeftIs ==
  ASSUME Sequenced, NEW S, order' = Left(S), Requested' = Requested \ S
  PROVE  Sequenced'
<1>1. /\ Older(Paths \ S) \in Seq(Paths) /\ ToSet(Older(Paths \ S)) = Listed \cap (Paths \ S)
      /\ Len(Older(Paths \ S)) \in Nat /\ DOMAIN Older(Paths \ S) = 1..Len(Older(Paths \ S))
      /\ \A k, l \in 1..Len(Older(Paths \ S)) : k < l => Before(Older(Paths \ S)[k], Older(Paths \ S)[l])
  BY OlderIs
<1>2. order' = Older(Paths \ S)
  BY DEF Left
<1>3. Listed = Requested /\ Listed \subseteq Paths
  BY QueuedIs, OrderIs
<1>4. ToSet(order)' = Requested \ S
  BY <1>1, <1>2, <1>3
<1>5. Single(order)'
  <2> SUFFICES ASSUME NEW k \in 1..Len(order'), NEW l \in 1..Len(order'), order'[k] = order'[l], k # l PROVE FALSE
    BY <1>1, <1>2 DEF Single
  <2>1. k < l \/ l < k
    BY <1>1, <1>2
  <2>2. Before(order'[k], order'[l]) \/ Before(order'[l], order'[k])
    BY <1>1, <1>2, <2>1
  <2> QED
    BY <2>2, BeforeIs
<1> QED
  BY <1>1, <1>2, <1>4, <1>5 DEF Sequenced

\* A step that neither starts nor ends anything, but counts users, cancels or marks.
LEMMA MarksKept ==
  ASSUME RequestInv, UNCHANGED order,
         \A p \in Paths : Exists(p)' <=> Exists(p),
         \A p \in Requested : /\ req'[p].stream = req[p].stream /\ req'[p].batch = req[p].batch
                              /\ req'[p].state = req[p].state /\ req'[p].data = req[p].data
                              /\ req[p].cancelled => req'[p].cancelled,
         Batches' = Batches,
         \A b \in Batches : /\ batch'[b].members = batch[b].members /\ batch'[b].current = batch[b].current
                            /\ batch'[b].trans = batch[b].trans /\ batch'[b].final = batch[b].final
  PROVE  Sequenced' /\ Belonging' /\ BatchesAre' /\ Limited' /\ Streams' = Streams /\ Pending' \subseteq Pending
<1> USE DEF RequestInv
<1>1. Sequenced'
  BY DEF Sequenced, Requested, Single, ToSet
<1>2. Streams' = Streams /\ Pending' \subseteq Pending
  BY DEF Streams, Pending, Requested
<1>3. Limited'
  BY <1>2, LimitsKept
<1>4. \A b \in Batches : Remaining(b)' = Remaining(b)
  BY DEF Remaining
<1>5. \A b \in Batches : \A p \in Remaining(b) : p \in Requested /\ req[p].batch = b
  BY DEF Belonging, Requested
<1>6. \A b \in Batches' : \A p \in Remaining(b)' : p \in Paths /\ Exists(p)' /\ req'[p].batch = b
  BY <1>4, <1>5 DEF Requested
<1>7. ASSUME NEW p \in Paths, Exists(p)', req'[p].batch # None
      PROVE  \E b \in Batches' : req'[p].batch = b /\ p \in Remaining(b)'
  <2>1. Exists(p) /\ p \in Requested /\ req'[p].batch = req[p].batch
    BY <1>7 DEF Requested
  <2>2. PICK b \in Batches : req[p].batch = b /\ p \in Remaining(b)
    BY <1>7, <2>1 DEF Belonging
  <2> QED
    BY <1>4, <2>1, <2>2
<1>8. Belonging'
  BY <1>6, <1>7 DEF Belonging
<1>9. BatchesAre'
  <2> SUFFICES ASSUME NEW b \in Batches PROVE BatchIs(batch[b])' /\ LastGood(batch[b])'
    BY DEF BatchesAre
  <2>1. BatchIs(batch[b]) /\ LastGood(batch[b])
    BY DEF BatchesAre
  <2>2. BatchIs(batch[b])'
    BY <2>1 DEF BatchIs
  <2>3. ASSUME batch[b].final, batch[b].current = Len(batch[b].members)
        PROVE  req'[batch[b].members[batch[b].current]].cancelled \/ req'[batch[b].members[batch[b].current]].data = "good"
    <3>1. batch[b].current \in batch[b].current..Len(batch[b].members)
      BY <2>3, BatchHas
    <3>2. batch[b].members[batch[b].current] \in Requested
      BY <1>5, <3>1 DEF Remaining
    <3> QED
      BY <2>1, <2>3, <3>2 DEF LastGood
  <2> QED
    BY <2>2, <2>3 DEF LastGood
<1> QED
  BY <1>1, <1>2, <1>3, <1>8, <1>9

-----------------------------------------------------------------------------
(* The steps of the main thread. *)

LEMMA Still ==
  ASSUME RequestInv, UNCHANGED <<req, batch, order, held>>
  PROVE  /\ Sequenced' /\ RequestsAre' /\ Belonging' /\ BatchesAre' /\ Limited'
         /\ Pending' = Pending /\ Streams' = Streams /\ Batches' = Batches
         /\ \A p \in Paths : Exists(p)' <=> Exists(p)
<1> USE DEF RequestInv
<1>1. Batches' = Batches /\ \A p \in Paths : Exists(p)' <=> Exists(p)
  BY DEF Batches, Exists
<1>2. Sequenced' /\ Belonging' /\ BatchesAre' /\ Limited'
  BY <1>1, MarksKept DEF Requested
<1>3. Pending' = Pending /\ Streams' = Streams
  BY <1>1 DEF Pending, Streams, Exists
<1>4. RequestsAre'
  BY <1>1 DEF RequestsAre, RequestIs
<1> QED
  BY <1>1, <1>2, <1>3, <1>4

LEMMA ConnectKeeps == ASSUME RequestInv, Connect PROVE RequestInv'
<1>1. UNCHANGED <<req, batch, order, held>> /\ UNCHANGED <<todo, main>> /\ main.pc = "idle" /\ io' = "idle" /\ caps' = "none"
  BY DEF Connect
<1>2. Shaped' /\ Threads'
  BY <1>1, Still DEF RequestInv, Shaped, Threads
<1> QED
  BY <1>1, <1>2, Still DEF RequestInv

LEMMA SetCapabilitiesKeeps ==
  ASSUME RequestInv, NEW c \in {"generic", "batch"}, SetCapabilities(c) PROVE RequestInv'
<1>1. UNCHANGED <<req, batch, order, held>> /\ UNCHANGED <<todo, main, io>> /\ caps = "none" /\ caps' = c /\ io # "serve"
  BY DEF SetCapabilities, Locked
<1>2. Shaped' /\ Threads'
  BY <1>1, Still DEF RequestInv, Shaped, Threads
<1> QED
  BY <1>1, <1>2, Still DEF RequestInv

LEMMA StartKeeps ==
  ASSUME RequestInv, NEW p \in Paths, NEW prio \in BOOLEAN, Start(p, prio) PROVE RequestInv'
<1>1. /\ UNCHANGED <<req, batch, order, held>> /\ UNCHANGED <<todo, caps, io>> /\ ~Exists(p)
      /\ main' = [pc |-> "load", path |-> p, prio |-> prio]
  BY DEF Start
<1>2. /\ main'.pc = "load" /\ main'.path = p
      /\ main' \in MainType
  BY <1>1 DEF MainType
<1>3. Shaped'
  BY <1>1, <1>2, Still DEF RequestInv, Shaped
<1>4. ~Exists(main.path)'
  BY <1>1, <1>2 DEF Exists
<1>5. Threads'
  BY <1>1, <1>2, <1>4, Still DEF RequestInv, Threads
<1> QED
  BY <1>1, <1>3, <1>5, Still DEF RequestInv

\* The main thread goes on with another path, or with none.
LEMMA OnwardHas ==
  /\ Idle \in Onward
  /\ \A p \in Paths : \A pc \in {"handoff", "release"} : \A prio \in BOOLEAN :
        [pc |-> pc, path |-> p, prio |-> prio] \in Onward
  /\ \A m \in MainType : /\ m.pc = "idle" => m \in Onward
                         /\ \A p \in Paths : [m EXCEPT !.pc = "release", !.path = p] \in Onward
                         /\ m.path \in Paths => [m EXCEPT !.pc = "release"] \in Onward
<1>1. Idle = [pc |-> "idle", path |-> None, prio |-> FALSE]
  BY DEF Idle
<1>2. Idle \in MainType /\ Idle.pc = "idle"
  BY <1>1 DEF MainType
<1>3. ASSUME NEW m \in MainType
      PROVE  /\ m.pc = "idle" => m \in Onward
             /\ \A p \in Paths : [m EXCEPT !.pc = "release", !.path = p] \in Onward
             /\ m.path \in Paths => [m EXCEPT !.pc = "release"] \in Onward
  BY DEF MainType, Onward
<1>4. ASSUME NEW p \in Paths, NEW pc \in {"handoff", "release"}, NEW prio \in BOOLEAN
      PROVE  [pc |-> pc, path |-> p, prio |-> prio] \in Onward
  BY DEF MainType, Onward
<1> QED
  BY <1>2, <1>3, <1>4 DEF Onward

LEMMA MainKeeps ==
  ASSUME RequestInv, UNCHANGED <<caps, io, todo, req, order, batch, held>>, main' \in Onward
  PROVE  RequestInv'
<1>1. main' \in MainType /\ main'.pc # "load" /\ (main'.pc # "idle" => main'.path \in Paths)
  BY DEF Onward
<1>2. Shaped'
  BY <1>1, Still DEF RequestInv, Shaped
<1>3. Threads'
  BY <1>1, Still DEF RequestInv, Threads
<1> QED
  BY <1>2, <1>3, Still DEF RequestInv

LEMMA MainIs == ASSUME RequestInv PROVE main \in MainType /\ (main.pc # "idle" => main.path \in Paths)
  BY DEF RequestInv, Shaped

LEMMA NoHandoffKeeps == ASSUME RequestInv, NoHandoff PROVE RequestInv'
<1>1. /\ UNCHANGED <<caps, io, todo, req, order, batch, held>> /\ main.pc = "handoff"
      /\ main' \in {Idle, [main EXCEPT !.pc = "release"]}
  BY DEF NoHandoff
<1>2. main' \in Onward
  BY <1>1, MainIs, OnwardHas
<1> QED
  BY <1>1, <1>2, MainKeeps

LEMMA HandoffNeedlessKeeps == ASSUME RequestInv, NEW v \in Faces, HandoffNeedless(v) PROVE RequestInv'
<1>1. /\ UNCHANGED <<caps, io, todo, req, order, batch, held>>
      /\ main' \in {Idle, [main EXCEPT !.pc = "release", !.path = v]}
  BY DEF HandoffNeedless
<1>2. v \in Paths
  BY DEF Paths
<1>3. main' \in Onward
  BY <1>1, <1>2, MainIs, OnwardHas
<1> QED
  BY <1>1, <1>3, MainKeeps

\* A step of the main thread that counts users, cancels or marks.
LEMMA MarksDone ==
  ASSUME RequestInv, ~Locked, UNCHANGED <<caps, io, todo, order>>, main' \in Onward,
         req' \in [Paths -> RequestType \cup {None}], batch' \in [Slots -> BatchType \cup {None}],
         held' \in [Paths -> Nat], RequestsAre',
         \A p \in Paths : Exists(p)' <=> Exists(p),
         \A p \in Requested : /\ req'[p].stream = req[p].stream /\ req'[p].batch = req[p].batch
                              /\ req'[p].state = req[p].state /\ req'[p].data = req[p].data
                              /\ req[p].cancelled => req'[p].cancelled,
         Batches' = Batches,
         \A b \in Batches : /\ batch'[b].members = batch[b].members /\ batch'[b].current = batch[b].current
                            /\ batch'[b].trans = batch[b].trans /\ batch'[b].final = batch[b].final
  PROVE  RequestInv'
<1>1. Sequenced' /\ Belonging' /\ BatchesAre' /\ Limited' /\ Streams' = Streams /\ Pending' \subseteq Pending
  BY MarksKept
<1>2. main' \in MainType /\ main'.pc # "load" /\ (main'.pc # "idle" => main'.path \in Paths)
  BY DEF Onward
<1>3. Shaped'
  BY <1>2 DEF RequestInv, Shaped
<1>4. Threads'
  BY <1>1, <1>2 DEF RequestInv, Threads, Locked
<1> QED
  BY <1>1, <1>3, <1>4 DEF RequestInv

\* One request gets another value, and its users another number.
LEMMA MarkDone ==
  ASSUME RequestInv, ~Locked, UNCHANGED <<caps, io, todo, order, batch>>, main' \in Onward,
         NEW p \in Paths, NEW r \in RequestType, NEW users \in Nat, Exists(p),
         req' = [req EXCEPT ![p] = r], held' = [held EXCEPT ![p] = users],
         r.stream = req[p].stream, r.batch = req[p].batch, r.state = req[p].state, r.data = req[p].data,
         r.trans = req[p].trans, r.preempt = req[p].preempt, req[p].cancelled => r.cancelled,
         r.refs = users, r.cancelled <=> users = 0
  PROVE  RequestInv'
<1>1. req \in [Paths -> RequestType \cup {None}] /\ batch \in [Slots -> BatchType \cup {None}] /\ held \in [Paths -> Nat]
  BY DEF RequestInv, Shaped
<1>2. /\ req' \in [Paths -> RequestType \cup {None}] /\ batch' \in [Slots -> BatchType \cup {None}]
      /\ held' \in [Paths -> Nat]
      /\ req'[p] = r /\ held'[p] = users /\ \A o \in Paths : o # p => req'[o] = req[o] /\ held'[o] = held[o]
  BY <1>1
<1>3. r # None
  BY NotNone
<1>4. \A o \in Paths : Exists(o)' <=> Exists(o)
  BY <1>2, <1>3 DEF Exists
<1>5. RequestsAre'
  <2> SUFFICES ASSUME NEW o \in Paths PROVE IF Exists(o)' THEN RequestIs(req[o], held[o])' ELSE held'[o] = 0
    BY DEF RequestsAre
  <2>1. IF Exists(o) THEN RequestIs(req[o], held[o]) ELSE held[o] = 0
    BY DEF RequestInv, RequestsAre
  <2>2. CASE o # p
    BY <1>2, <1>4, <2>1, <2>2 DEF RequestIs
  <2>3. CASE o = p
    BY <1>2, <1>4, <2>1, <2>3 DEF RequestIs
  <2> QED
    BY <2>2, <2>3
<1>6. Batches' = Batches
  BY DEF Batches
<1>7. ASSUME NEW o \in Requested
      PROVE  /\ req'[o].stream = req[o].stream /\ req'[o].batch = req[o].batch
             /\ req'[o].state = req[o].state /\ req'[o].data = req[o].data
             /\ req[o].cancelled => req'[o].cancelled
  BY <1>2 DEF Requested
<1> QED
  BY <1>2, <1>4, <1>5, <1>6, <1>7, MarksDone

LEMMA ShareKeeps ==
  ASSUME RequestInv, NEW p \in Paths, NEW prio \in BOOLEAN, Share(p, prio) PROVE RequestInv'
<1> DEFINE r == [req[p] EXCEPT !.refs = @ + 1, !.prio = @ \/ (prio /\ req[p].state = "pending")]
<1>1. /\ ~Locked /\ Exists(p) /\ ~req[p].cancelled /\ main' = Started(p, prio)
      /\ req' = [req EXCEPT ![p].refs = @ + 1, ![p].prio = @ \/ (prio /\ req[p].state = "pending")]
      /\ held' = [held EXCEPT ![p] = @ + 1]
      /\ UNCHANGED <<caps, io, todo, order, batch>>
  BY DEF Share, Usable
<1>2. req[p] \in RequestType /\ req[p].refs \in Nat /\ req[p].refs = held[p] /\ (req[p].cancelled <=> held[p] = 0)
  BY <1>1, RequestHas DEF RequestInv, RequestsAre, RequestIs
<1>3. req \in [Paths -> RequestType \cup {None}] /\ held \in [Paths -> Nat]
  BY DEF RequestInv, Shaped
<1>4. req' = [req EXCEPT ![p] = r] /\ held' = [held EXCEPT ![p] = held[p] + 1]
  BY <1>1, <1>3
<1>5. /\ r \in RequestType /\ r.refs = held[p] + 1 /\ r.stream = req[p].stream /\ r.batch = req[p].batch
      /\ r.state = req[p].state /\ r.data = req[p].data /\ r.trans = req[p].trans
        /\ r.preempt = req[p].preempt /\ r.cancelled = req[p].cancelled
  <2>1. (req[p].prio \/ (prio /\ req[p].state = "pending")) \in BOOLEAN /\ req[p].refs + 1 \in Nat
    BY <1>2
  <2> DEFINE seen == req[p].prio \/ (prio /\ req[p].state = "pending")
  <2> HIDE DEF seen
  <2>2. r = [req[p] EXCEPT !.refs = req[p].refs + 1, !.prio = seen]
    BY DEF seen
  <2>3. seen \in BOOLEAN
    BY DEF seen
  <2> QED
    BY <1>2, <2>1, <2>2, <2>3 DEF RequestType
<1>6. main' \in Onward
  BY <1>1, OnwardHas DEF Started
<1>7. held[p] + 1 \in Nat /\ held[p] + 1 # 0
  BY <1>2
<1> QED
  BY <1>1, <1>2, <1>4, <1>5, <1>6, <1>7, MarkDone

\* Requests that no stream and no batch has are destroyed.
LEMMA DestroyedIs ==
  ASSUME RequestInv, NEW S \in SUBSET Requested, \A p \in S : ~req[p].stream /\ req[p].batch = None,
         req' = Destroyed(S), order' = Left(S), UNCHANGED batch
  PROVE  /\ Sequenced' /\ Belonging' /\ BatchesAre' /\ Limited'
         /\ Streams' = Streams /\ Batches' = Batches /\ Pending' \subseteq Pending
         /\ req' \in [Paths -> RequestType \cup {None}]
         /\ \A p \in Paths : IF p \in S THEN ~Exists(p)' ELSE req'[p] = req[p] /\ (Exists(p)' <=> Exists(p))
<1> USE DEF RequestInv
<1>1. \A p \in Paths : IF p \in S THEN ~Exists(p)' ELSE req'[p] = req[p] /\ (Exists(p)' <=> Exists(p))
  BY DEF Destroyed, Exists
<1>2. req' \in [Paths -> RequestType \cup {None}]
  BY DEF Destroyed, Shaped
<1>3. Requested' = Requested \ S
  BY <1>1 DEF Requested
<1>4. Sequenced'
  BY <1>3, LeftIs
<1>5. Batches' = Batches
  BY DEF Batches
<1>6. Streams' = Streams /\ Pending' \subseteq Pending
  BY <1>1 DEF Streams, Pending, Requested
<1>7. Limited'
  BY <1>5, <1>6, LimitsKept
<1>8. \A b \in Batches : Remaining(b)' = Remaining(b)
  BY DEF Remaining
<1>9. \A b \in Batches : \A p \in Remaining(b) : p \in Paths /\ Exists(p) /\ req[p].batch = b /\ p \notin S
  BY NotNone DEF Belonging, Batches
<1>10. Belonging'
  <2>1. \A b \in Batches' : \A p \in Remaining(b)' : p \in Paths /\ Exists(p)' /\ req'[p].batch = b
    BY <1>1, <1>5, <1>8, <1>9
  <2>2. ASSUME NEW p \in Paths, Exists(p)', req'[p].batch # None
        PROVE  \E b \in Batches' : req'[p].batch = b /\ p \in Remaining(b)'
    <3>1. Exists(p) /\ req'[p] = req[p]
      BY <1>1, <2>2
    <3>2. PICK b \in Batches : req[p].batch = b /\ p \in Remaining(b)
      BY <2>2, <3>1 DEF Belonging
    <3> QED
      BY <1>5, <1>8, <3>1, <3>2
  <2> QED
    BY <2>1, <2>2 DEF Belonging
<1>11. BatchesAre'
  <2> SUFFICES ASSUME NEW b \in Batches PROVE BatchIs(batch[b])' /\ LastGood(batch[b])'
    BY <1>5 DEF BatchesAre
  <2>1. BatchIs(batch[b]) /\ LastGood(batch[b])
    BY DEF BatchesAre
  <2>2. BatchIs(batch[b])'
    BY <2>1 DEF BatchIs
  <2>3. ASSUME batch[b].final, batch[b].current = Len(batch[b].members)
        PROVE  req'[batch[b].members[batch[b].current]] = req[batch[b].members[batch[b].current]]
    <3>1. batch[b].current \in batch[b].current..Len(batch[b].members)
      BY <2>3, BatchHas
    <3>2. batch[b].members[batch[b].current] \in Remaining(b)
      BY <3>1 DEF Remaining
    <3> QED
      BY <1>1, <1>9, <3>2
  <2> QED
    BY <2>1, <2>2, <2>3 DEF LastGood
<1> QED
  BY <1>1, <1>2, <1>4, <1>5, <1>6, <1>7, <1>10, <1>11

LEMMA FreeKeeps == ASSUME RequestInv, NEW p \in Paths, Free(p), main' \in Onward PROVE RequestInv'
<1>1. /\ ~Locked /\ held[p] > 0 /\ held' = [held EXCEPT ![p] = @ - 1] /\ UNCHANGED <<caps, io, todo, batch>>
  BY DEF Free
<1>2. req \in [Paths -> RequestType \cup {None}] /\ held \in [Paths -> Nat] /\ batch \in [Slots -> BatchType \cup {None}]
  BY DEF RequestInv, Shaped
<1>3. held[p] \in Nat
  BY <1>2
<1>4. /\ Exists(p) /\ req[p] \in RequestType /\ req[p].refs \in Nat /\ req[p].refs = held[p] /\ ~req[p].cancelled
  BY <1>1, <1>3, RequestHas DEF RequestInv, RequestsAre, RequestIs
<1>5. held' = [held EXCEPT ![p] = held[p] - 1] /\ held[p] - 1 \in Nat
  BY <1>1, <1>2, <1>3
<1>6. CASE req[p].refs > 1
  <2> DEFINE r == [req[p] EXCEPT !.refs = req[p].refs - 1]
  <2>1. req' = [req EXCEPT ![p] = r] /\ UNCHANGED order
    BY <1>2, <1>6 DEF Free
  <2>2. req[p].refs - 1 \in Nat /\ req[p].refs - 1 # 0
    BY <1>4, <1>6
  <2>3. /\ r \in RequestType /\ r.refs = held[p] - 1 /\ r.stream = req[p].stream /\ r.batch = req[p].batch
        /\ r.state = req[p].state /\ r.data = req[p].data /\ r.trans = req[p].trans
        /\ r.preempt = req[p].preempt /\ r.cancelled = req[p].cancelled
    BY <1>4, <2>2 DEF RequestType
  <2> HIDE DEF r
  <2>4. r.cancelled <=> held[p] - 1 = 0
    BY <1>4, <2>2, <2>3
  <2> QED
    BY <1>1, <1>4, <1>5, <2>1, <2>3, <2>4, MarkDone
<1>7. CASE ~(req[p].refs > 1) /\ InUse(p)
  <2> DEFINE r == [req[p] EXCEPT !.refs = 0, !.cancelled = TRUE]
  <2>1. req' = [req EXCEPT ![p] = r] /\ UNCHANGED order
    BY <1>2, <1>7 DEF Free
  <2>2. held[p] - 1 = 0
    BY <1>1, <1>3, <1>4, <1>7
  <2>3. /\ r \in RequestType /\ r.refs = 0 /\ r.stream = req[p].stream /\ r.batch = req[p].batch
        /\ r.state = req[p].state /\ r.data = req[p].data /\ r.trans = req[p].trans
        /\ r.preempt = req[p].preempt /\ r.cancelled
    BY <1>4 DEF RequestType
  <2> HIDE DEF r
  <2> QED
    BY <1>1, <1>4, <1>5, <2>1, <2>2, <2>3, MarkDone
<1>8. CASE ~(req[p].refs > 1) /\ ~InUse(p)
  <2>1. req' = Destroyed({p}) /\ order' = Left({p})
    BY <1>8 DEF Free
  <2>2. {p} \in SUBSET Requested /\ \A o \in {p} : ~req[o].stream /\ req[o].batch = None
    BY <1>4, <1>8 DEF Requested, InUse
  <2>3. /\ Sequenced' /\ Belonging' /\ BatchesAre' /\ Limited'
        /\ Streams' = Streams /\ Batches' = Batches /\ Pending' \subseteq Pending
        /\ req' \in [Paths -> RequestType \cup {None}]
        /\ \A o \in Paths : IF o \in {p} THEN ~Exists(o)' ELSE req'[o] = req[o] /\ (Exists(o)' <=> Exists(o))
    BY <1>1, <2>1, <2>2, DestroyedIs
  <2>4. held[p] - 1 = 0
    BY <1>1, <1>3, <1>4, <1>8
  <2>5. held' \in [Paths -> Nat] /\ held'[p] = 0 /\ \A o \in Paths : o # p => held'[o] = held[o]
    BY <1>2, <1>5, <2>4
  <2>6. main' \in MainType /\ main'.pc # "load" /\ (main'.pc # "idle" => main'.path \in Paths)
    BY DEF Onward
  <2>7. Shaped'
    BY <1>1, <2>3, <2>5, <2>6 DEF RequestInv, Shaped
  <2>8. RequestsAre'
    <3> SUFFICES ASSUME NEW o \in Paths PROVE IF Exists(o)' THEN RequestIs(req[o], held[o])' ELSE held'[o] = 0
      BY DEF RequestsAre
    <3>1. IF Exists(o) THEN RequestIs(req[o], held[o]) ELSE held[o] = 0
      BY DEF RequestInv, RequestsAre
    <3> QED
      BY <2>3, <2>5, <3>1 DEF RequestIs
  <2>9. Threads'
    BY <1>1, <2>3, <2>6 DEF RequestInv, Threads, Locked
  <2> QED
    BY <2>3, <2>7, <2>8, <2>9 DEF RequestInv
<1> QED
  BY <1>6, <1>7, <1>8

LEMMA ReleaseKeeps == ASSUME RequestInv, NEW p \in Paths, Release(p) PROVE RequestInv'
<1>1. main.pc = "idle" /\ Free(p) /\ UNCHANGED main
  BY DEF Release
<1>2. main' \in Onward
  BY <1>1, MainIs, OnwardHas
<1> QED
  BY <1>1, <1>2, FreeKeeps

LEMMA ReleaseVictimKeeps == ASSUME RequestInv, ReleaseVictim PROVE RequestInv'
<1>1. main.pc = "release" /\ Free(main.path) /\ main' = Idle
  BY DEF ReleaseVictim
<1>2. main' \in Onward /\ main.path \in Paths
  BY <1>1, MainIs, OnwardHas
<1> QED
  BY <1>1, <1>2, FreeKeeps

LEMMA HandoffCompleteKeeps == ASSUME RequestInv, NEW v \in Faces, HandoffComplete(v) PROVE RequestInv'
<1> DEFINE p == main.path
           r == [req[p] EXCEPT !.prio = TRUE]
<1>1. /\ ~Locked /\ main.pc = "handoff" /\ p \in Queued /\ req' = [req EXCEPT ![p].prio = TRUE]
      /\ main' = [main EXCEPT !.pc = "release", !.path = v] /\ UNCHANGED <<caps, io, todo, order, batch, held>>
  BY DEF HandoffComplete
<1>2. p \in Paths /\ Exists(p) /\ v \in Paths
  BY <1>1 DEF Queued, Pending, Paths
<1>3. main' \in Onward
  BY <1>1, <1>2, MainIs, OnwardHas
<1>4. req[p] \in RequestType /\ RequestIs(req[p], held[p])
  BY <1>2, RequestHas DEF RequestInv, RequestsAre
<1>5. req \in [Paths -> RequestType \cup {None}] /\ held \in [Paths -> Nat]
  BY DEF RequestInv, Shaped
<1>6. req' = [req EXCEPT ![p] = r] /\ held' = [held EXCEPT ![p] = held[p]] /\ held[p] \in Nat
  BY <1>1, <1>2, <1>5
<1>7. /\ r \in RequestType /\ r.refs = req[p].refs /\ r.stream = req[p].stream /\ r.batch = req[p].batch
      /\ r.state = req[p].state /\ r.data = req[p].data /\ r.trans = req[p].trans
      /\ r.preempt = req[p].preempt /\ r.cancelled = req[p].cancelled
  BY <1>4 DEF RequestType
<1>8. r.refs = held[p] /\ (r.cancelled <=> held[p] = 0)
  BY <1>4, <1>7 DEF RequestIs
<1> HIDE DEF r
<1> QED
  BY <1>1, <1>2, <1>3, <1>6, <1>7, <1>8, MarkDone

\* The marks that a handoff sets.
LEMMA HandoffIs ==
  ASSUME RequestInv, NEW v \in Faces, Handoff(v)
  PROVE  /\ main.path \in Queued /\ main.path # v /\ v \in Pending /\ ~req[main.path].isolated /\ ~Reclaimed(v)
         /\ req' \in [Paths -> RequestType \cup {None}]
         /\ req'[main.path] = [req[main.path] EXCEPT !.prio = TRUE, !.isolated = TRUE]
         /\ req'[v] = [req[v] EXCEPT !.preempt = @ \/ req[v].batch = None]
         /\ \A o \in Paths : o \notin {main.path, v} => req'[o] = req[o]
         /\ req[v].batch = None => req[v].stream /\ UNCHANGED batch
         /\ req[v].batch # None => req[v].batch \in Batches /\ batch' = [batch EXCEPT ![req[v].batch].preempt = TRUE]
<1> DEFINE p == main.path
<1>1. /\ v # p /\ held[v] > 0 /\ p \in Queued /\ req[v].state = "pending"
      /\ ~req[p].isolated /\ ~Reclaimed(v) /\ (req[v].batch # None \/ req[v].stream)
      /\ batch' = IF req[v].batch # None THEN [batch EXCEPT ![req[v].batch].preempt = TRUE] ELSE batch
      /\ req' = [req EXCEPT ![p].prio = TRUE, ![p].isolated = TRUE, ![v].preempt = @ \/ req[v].batch = None]
  BY DEF Handoff
<1>2. p \in Paths /\ Exists(p) /\ v \in Paths
  BY <1>1 DEF Queued, Pending, Paths
<1>3. req \in [Paths -> RequestType \cup {None}] /\ held \in [Paths -> Nat]
  BY DEF RequestInv, Shaped
<1>4. Exists(v) /\ RequestIs(req[v], held[v])
  BY <1>1, <1>2, <1>3 DEF RequestInv, RequestsAre
<1>5. ~req[v].cancelled /\ v \in Pending
  BY <1>1, <1>2, <1>3, <1>4 DEF RequestIs, Pending
<1>6. req[p] \in RequestType /\ req[v] \in RequestType
  BY <1>2, <1>4, RequestHas DEF RequestInv
<1> DEFINE m == req[v].preempt \/ req[v].batch = None
           rv == [req[v] EXCEPT !.preempt = m]
           rp == [req[p] EXCEPT !.prio = TRUE, !.isolated = TRUE]
<1>7. m \in BOOLEAN
  OBVIOUS
<1>8. req' = [[req EXCEPT ![p] = rp] EXCEPT ![v] = rv]
  BY <1>1, <1>2, <1>3
<1> HIDE DEF m
<1>9. rp \in RequestType /\ rv \in RequestType
  BY <1>6, <1>7 DEF RequestType
<1> HIDE DEF rp, rv
<1>10. /\ req' \in [Paths -> RequestType \cup {None}] /\ req'[p] = rp /\ req'[v] = rv
       /\ \A o \in Paths : o \notin {p, v} => req'[o] = req[o]
  <2>1. p # v
    BY <1>1
  <2> QED
    BY <1>2, <1>3, <1>8, <1>9, <2>1
<1>11. req[v].batch # None => req[v].batch \in Batches
  BY <1>2, <1>4 DEF RequestInv, Belonging
<1> QED
  BY <1>1, <1>5, <1>10, <1>11 DEF rp, rv, m

LEMMA HandoffKeeps == ASSUME RequestInv, NEW v \in Faces, Handoff(v) PROVE RequestInv'
<1> DEFINE p == main.path
           b == req[v].batch
<1>1. /\ ~Locked /\ main.pc = "handoff" /\ main' = [main EXCEPT !.pc = "release", !.path = v]
      /\ UNCHANGED <<caps, io, todo, order, held>>
  BY DEF Handoff
<1>2. /\ p \in Queued /\ p # v /\ v \in Pending
      /\ req' \in [Paths -> RequestType \cup {None}]
      /\ req'[p] = [req[p] EXCEPT !.prio = TRUE, !.isolated = TRUE]
      /\ req'[v] = [req[v] EXCEPT !.preempt = @ \/ b = None]
      /\ \A o \in Paths : o \notin {p, v} => req'[o] = req[o]
      /\ b = None => req[v].stream /\ UNCHANGED batch
      /\ b # None => b \in Batches /\ batch' = [batch EXCEPT ![b].preempt = TRUE]
  BY HandoffIs
<1>3. p \in Paths /\ Exists(p) /\ v \in Paths /\ Exists(v)
  BY <1>2 DEF Queued, Pending
<1>4. main' \in Onward
  BY <1>1, <1>3, MainIs, OnwardHas
<1>5. req[p] \in RequestType /\ req[v] \in RequestType /\ RequestIs(req[v], held[v]) /\ RequestIs(req[p], held[p])
  BY <1>3, RequestHas DEF RequestInv, RequestsAre
<1>6. held \in [Paths -> Nat] /\ batch \in [Slots -> BatchType \cup {None}]
  BY DEF RequestInv, Shaped
<1>7. /\ batch' \in [Slots -> BatchType \cup {None}] /\ Batches' = Batches
      /\ \A c \in Batches : /\ batch'[c].members = batch[c].members /\ batch'[c].current = batch[c].current
                            /\ batch'[c].trans = batch[c].trans /\ batch'[c].final = batch[c].final
  <2>1. CASE b = None
    BY <1>2, <1>6, <2>1 DEF Batches
  <2>2. CASE b # None
    <3> DEFINE t == [batch[b] EXCEPT !.preempt = TRUE]
    <3>1. b \in Slots /\ batch[b] \in BatchType /\ b \in Batches
      BY <1>2, <2>2, BatchHas DEF RequestInv
    <3>2. /\ t \in BatchType /\ t.members = batch[b].members /\ t.current = batch[b].current
          /\ t.trans = batch[b].trans /\ t.final = batch[b].final
      BY <3>1 DEF BatchType
    <3>3. batch' = [batch EXCEPT ![b] = t]
      BY <1>2, <1>6, <2>2, <3>1
    <3> HIDE DEF t
    <3>4. /\ batch' \in [Slots -> BatchType \cup {None}] /\ batch'[b] = t /\ t # None
          /\ \A c \in Slots : c # b => batch'[c] = batch[c]
      BY <1>6, <3>1, <3>2, <3>3, NotNone
    <3>5. Batches' = Batches
      BY <3>1, <3>4 DEF Batches
    <3> QED
      BY <3>2, <3>4, <3>5 DEF Batches
  <2> QED
    BY <2>1, <2>2
<1>8. /\ req'[p].refs = req[p].refs /\ req'[p].stream = req[p].stream /\ req'[p].batch = req[p].batch
      /\ req'[p].state = req[p].state /\ req'[p].data = req[p].data /\ req'[p].trans = req[p].trans
      /\ req'[p].preempt = req[p].preempt /\ req'[p].cancelled = req[p].cancelled
  BY <1>2, <1>5 DEF RequestType
<1>9. /\ req'[v].refs = req[v].refs /\ req'[v].stream = req[v].stream /\ req'[v].batch = req[v].batch
      /\ req'[v].state = req[v].state /\ req'[v].data = req[v].data /\ req'[v].trans = req[v].trans
      /\ req'[v].preempt = (req[v].preempt \/ b = None) /\ req'[v].cancelled = req[v].cancelled
  BY <1>2, <1>5 DEF RequestType
<1>10. RequestIs(req'[p], held[p])
  BY <1>5, <1>8 DEF RequestIs
<1>11. RequestIs(req'[v], held[v])
  BY <1>2, <1>5, <1>9 DEF RequestIs
<1>12. req'[p] # None /\ req'[v] # None
  <2>1. [req[p] EXCEPT !.prio = TRUE, !.isolated = TRUE] \in RequestType
    BY <1>5 DEF RequestType
  <2>2. (req[v].preempt \/ b = None) \in BOOLEAN
    OBVIOUS
  <2>3. \A m \in BOOLEAN : [req[v] EXCEPT !.preempt = m] \in RequestType
    BY <1>5 DEF RequestType
  <2> QED
    BY <1>2, <2>1, <2>2, <2>3, NotNone
<1>13. \A o \in Paths : Exists(o)' <=> Exists(o)
  BY <1>2, <1>3, <1>12 DEF Exists
<1>14. RequestsAre'
  <2> SUFFICES ASSUME NEW o \in Paths PROVE IF Exists(o)' THEN RequestIs(req'[o], held'[o]) ELSE held'[o] = 0
    BY DEF RequestsAre, RequestIs
  <2>1. IF Exists(o) THEN RequestIs(req[o], held[o]) ELSE held[o] = 0
    BY DEF RequestInv, RequestsAre
  <2> QED
    BY <1>1, <1>2, <1>10, <1>11, <1>13, <2>1
<1>15. ASSUME NEW o \in Requested
       PROVE  /\ req'[o].stream = req[o].stream /\ req'[o].batch = req[o].batch
              /\ req'[o].state = req[o].state /\ req'[o].data = req[o].data
              /\ req[o].cancelled => req'[o].cancelled
  <2>1. o \in Paths
    BY DEF Requested
  <2> QED
    BY <1>2, <1>8, <1>9, <2>1
<1>16. held' \in [Paths -> Nat]
  BY <1>1, <1>6
<1> HIDE DEF p, b
<1> QED
  BY <1>1, <1>2, <1>4, <1>7, <1>13, <1>14, <1>15, <1>16, MarksDone
LEMMA RequestInit == Init => RequestInv
<1> SUFFICES ASSUME Init PROVE RequestInv
  OBVIOUS
<1>1. /\ caps = "off" /\ io = "off" /\ todo = {} /\ main = Idle
      /\ req = [p \in Paths |-> None] /\ order = <<>> /\ batch = [b \in Slots |-> None]
      /\ held = [p \in Paths |-> 0]
  BY DEF Init
<1>2. Requested = {} /\ Batches = {} /\ Streams = {} /\ Pending = {} /\ \A p \in Paths : ~Exists(p)
  BY <1>1 DEF Requested, Batches, Streams, Pending, Exists
<1>3. Shaped
  BY <1>1 DEF Shaped, Idle, MainType
<1>4. Sequenced
  BY <1>1, <1>2 DEF Sequenced, Single, ToSet
<1>5. RequestsAre /\ Belonging /\ BatchesAre
  BY <1>1, <1>2 DEF RequestsAre, Belonging, BatchesAre
<1>6. Limited
  BY <1>2, FS_EmptySet, AssetAssumption DEF Limited, Active
<1>7. Threads
  BY <1>1, <1>2 DEF Threads, Idle
<1> QED
  BY <1>3, <1>4, <1>5, <1>6, <1>7 DEF RequestInv

\* A step that leaves every batch and what its members have.
LEMMA BatchesKept ==
  ASSUME RequestInv, UNCHANGED batch,
         \A p \in Requested : req[p].batch # None =>
            Exists(p)' /\ req'[p].batch = req[p].batch /\ req'[p].data = req[p].data /\ req'[p].cancelled = req[p].cancelled,
         \A p \in Paths : Exists(p)' /\ req'[p].batch # None => Exists(p) /\ req[p].batch = req'[p].batch
  PROVE  Belonging' /\ BatchesAre' /\ Batches' = Batches
<1> USE DEF RequestInv
<1>1. Batches' = Batches
  BY DEF Batches
<1>2. \A b \in Batches : Remaining(b)' = Remaining(b)
  BY DEF Remaining
<1>3. \A b \in Batches : \A p \in Remaining(b) : p \in Requested /\ p \in Paths /\ req[p].batch = b /\ b # None
  BY NotNone DEF Belonging, Requested, Batches
<1>4. \A b \in Batches' : \A p \in Remaining(b)' : p \in Paths /\ Exists(p)' /\ req'[p].batch = b
  BY <1>1, <1>2, <1>3
<1>5. ASSUME NEW p \in Paths, Exists(p)', req'[p].batch # None
      PROVE  \E b \in Batches' : req'[p].batch = b /\ p \in Remaining(b)'
  <2>1. Exists(p) /\ req[p].batch = req'[p].batch
    BY <1>5
  <2>2. PICK b \in Batches : req[p].batch = b /\ p \in Remaining(b)
    BY <1>5, <2>1 DEF Belonging
  <2> QED
    BY <1>1, <1>2, <2>1, <2>2
<1>6. Belonging'
  BY <1>4, <1>5 DEF Belonging
<1>7. BatchesAre'
  <2> SUFFICES ASSUME NEW b \in Batches PROVE BatchIs(batch[b])' /\ LastGood(batch[b])'
    BY <1>1 DEF BatchesAre
  <2>1. BatchIs(batch[b]) /\ LastGood(batch[b])
    BY DEF BatchesAre
  <2>2. BatchIs(batch[b])'
    BY <2>1 DEF BatchIs
  <2> DEFINE last == batch[b].members[batch[b].current]
  <2>3. ASSUME batch[b].final, batch[b].current = Len(batch[b].members)
        PROVE  req'[last].cancelled \/ req'[last].data = "good"
    <3>1. batch[b].current \in batch[b].current..Len(batch[b].members)
      BY <2>3, BatchHas
    <3>2. last \in Remaining(b)
      BY <3>1 DEF Remaining
    <3>3. last \in Requested /\ req[last].batch # None
      BY <1>3, <3>2
    <3>4. req[last].cancelled \/ req[last].data = "good"
      BY <2>1, <2>3 DEF LastGood
    <3> QED
      BY <3>3, <3>4
  <2> QED
    BY <2>2, <2>3 DEF LastGood
<1> QED
  BY <1>1, <1>6, <1>7

LEMMA NewRequestIs ==
  ASSUME NEW prio \in BOOLEAN
  PROVE  /\ NewRequest(prio) \in RequestType /\ NewRequest(prio) # None /\ RequestIs(NewRequest(prio), 1)
         /\ ~NewRequest(prio).stream /\ NewRequest(prio).batch = None /\ ~NewRequest(prio).isolated
         /\ ~NewRequest(prio).preempt
<1>1. NewRequest(prio) \in RequestType
  BY DEF NewRequest, RequestType
<1>2. RequestIs(NewRequest(prio), 1)
  BY DEF NewRequest, RequestIs
<1> QED
  BY <1>1, <1>2, NotNone DEF NewRequest

LEMMA StartLoadedKeeps == ASSUME RequestInv, StartLoaded PROVE RequestInv'
<1> DEFINE r == NewRequest(main.prio)
<1>1. main.pc = "load" /\ ~Locked /\ UNCHANGED <<caps, io, todo, batch>>
  BY DEF StartLoaded
<1>0. main.path \in Paths /\ main.prio \in BOOLEAN /\ ~Exists(main.path)
  BY <1>1, MainIs DEF MainType, RequestInv, Threads
<1>2. PICK p \in Paths : p = main.path /\ main.prio \in BOOLEAN /\ ~Exists(p)
  BY <1>0
<1>3. CASE ~StillAvailable /\ main' = Idle /\ UNCHANGED <<req, order, held>>
  <2>1. Idle \in MainType /\ Idle.pc = "idle"
    BY DEF Idle, MainType
  <2>2. Shaped' /\ Threads'
    BY <1>1, <1>3, <2>1, Still DEF RequestInv, Shaped, Threads, Locked
  <2> QED
    BY <1>1, <1>3, <2>2, Still DEF RequestInv
<1>4. CASE /\ StillAvailable /\ Cardinality(Pending) < PendingMax
           /\ req' = [req EXCEPT ![main.path] = NewRequest(main.prio)]
           /\ order' = Append(order, main.path)
           /\ held' = [held EXCEPT ![main.path] = 1]
           /\ main' = Started(main.path, main.prio)
  <2>1. /\ r \in RequestType /\ r # None /\ RequestIs(r, 1) /\ ~r.stream /\ r.batch = None
        /\ r.state = "pending" /\ ~r.cancelled
    BY <1>2, NewRequestIs DEF NewRequest
  <2>2. req \in [Paths -> RequestType \cup {None}] /\ held \in [Paths -> Nat] /\ order \in Seq(Paths)
    BY DEF RequestInv, Shaped, Sequenced
  <2>3. /\ req' = [req EXCEPT ![p] = r] /\ order' = Append(order, p) /\ held' = [held EXCEPT ![p] = 1]
        /\ main' = Started(p, main.prio) /\ StillAvailable /\ Cardinality(Pending) < PendingMax
    BY <1>2, <1>4
  <2> HIDE DEF r
  <2>4. /\ req' \in [Paths -> RequestType \cup {None}] /\ req'[p] = r
        /\ held' \in [Paths -> Nat] /\ held'[p] = 1
        /\ \A o \in Paths : o # p => req'[o] = req[o] /\ held'[o] = held[o]
    BY <1>2, <2>1, <2>2, <2>3
  <2>5. main' \in MainType /\ main'.pc # "load" /\ (main'.pc # "idle" => main'.path \in Paths)
    BY <1>2, <2>3, OnwardHas DEF Started, Onward
  <2>6. Shaped'
    BY <1>1, <2>4, <2>5 DEF RequestInv, Shaped
  <2>7. Exists(p)' /\ \A o \in Paths : o # p => (Exists(o)' <=> Exists(o))
    BY <2>1, <2>4, <1>2 DEF Exists
  <2>8. Requested' = Requested \cup {p} /\ p \notin Requested
    BY <1>2, <2>7 DEF Requested
  <2>9. Sequenced'
    <3>1. /\ Len(order) \in Nat /\ DOMAIN order = 1..Len(order) /\ Listed = {order[i] : i \in 1..Len(order)}
          /\ \A i \in 1..Len(order) : order[i] \in Listed
          /\ \A i, j \in 1..Len(order) : order[i] = order[j] => i = j
      BY OrderIs DEF RequestInv
    <3>2. Listed = Requested
      BY DEF RequestInv, Sequenced, Listed
    <3>3. /\ order' \in Seq(Paths) /\ Len(order') = Len(order) + 1 /\ DOMAIN order' = 1..Len(order) + 1
          /\ order'[Len(order) + 1] = p /\ \A i \in 1..Len(order) : order'[i] = order[i]
      BY <1>2, <2>2, <2>3, <3>1
    <3>4. \A i \in 1..Len(order) + 1 : i \in 1..Len(order) \/ i = Len(order) + 1
      BY <3>1
    <3>5. ToSet(order') = Requested'
      <4>1. ToSet(order') \subseteq Requested'
        BY <2>8, <3>1, <3>2, <3>3, <3>4 DEF ToSet
      <4>2. 1..Len(order) \subseteq DOMAIN order' /\ Len(order) + 1 \in DOMAIN order'
        BY <3>1, <3>3
      <4>3. Requested' \subseteq ToSet(order')
        BY <2>8, <3>1, <3>2, <3>3, <4>2 DEF ToSet
      <4> QED
        BY <4>1, <4>3
    <3>6. Single(order')
      <4> SUFFICES ASSUME NEW i \in 1..Len(order) + 1, NEW j \in 1..Len(order) + 1, order'[i] = order'[j] PROVE i = j
        BY <3>3 DEF Single
      <4> QED
        BY <2>8, <3>1, <3>2, <3>3, <3>4
    <3> QED
      BY <3>3, <3>5, <3>6 DEF Sequenced, Single, ToSet
  <2>10. Streams' = Streams /\ Pending' = Pending \cup {p} /\ p \notin Pending
    BY <1>2, <2>1, <2>4, <2>7 DEF Streams, Pending
  <2>11. Belonging' /\ BatchesAre' /\ Batches' = Batches
    <3>1. \A o \in Requested : o \in Paths /\ o # p
      BY <2>8 DEF Requested
    <3>2. \A o \in Paths : Exists(o)' /\ req'[o].batch # None => o # p /\ Exists(o)
      BY <2>1, <2>4, <2>7
    <3> QED
      BY <1>1, <2>4, <2>7, <3>1, <3>2, BatchesKept DEF Requested
  <2>12. Limited'
    <3>1. IsFiniteSet(Pending) /\ Cardinality(Pending) \in Nat
      BY FewIs DEF RequestInv
    <3>2. Cardinality(Pending') = Cardinality(Pending) + 1
      BY <2>10, <3>1, FS_AddElement
    <3>3. PendingMax \in Nat
      BY AssetAssumption
    <3> QED
      BY <2>3, <2>10, <2>11, <3>1, <3>2, <3>3 DEF RequestInv, Limited, Active
  <2>13. RequestsAre'
    <3> SUFFICES ASSUME NEW o \in Paths PROVE IF Exists(o)' THEN RequestIs(req'[o], held'[o]) ELSE held'[o] = 0
      BY DEF RequestsAre, RequestIs
    <3>1. IF Exists(o) THEN RequestIs(req[o], held[o]) ELSE held[o] = 0
      BY DEF RequestInv, RequestsAre
    <3> QED
      BY <2>1, <2>4, <2>7, <3>1
  <2>14. Threads'
    BY <1>1, <2>3, <2>5 DEF RequestInv, Threads, Locked, StillAvailable, Available
  <2> QED
    BY <2>6, <2>9, <2>11, <2>12, <2>13, <2>14 DEF RequestInv
<1> QED
  BY <1>3, <1>4 DEF StartLoaded
-----------------------------------------------------------------------------
(* The steps of the socket thread. *)

LEMMA OpenedKeeps == ASSUME RequestInv, Opened PROVE RequestInv'
<1>1. /\ UNCHANGED <<req, batch, order, held>> /\ UNCHANGED <<caps, main>>
      /\ io = "open" /\ io' = "serve" /\ todo' = Streams \cup Batches
  BY DEF Opened
<1>2. Streams \cup Batches \subseteq Paths \cup Slots
  BY DEF Streams, Batches
<1>3. Shaped' /\ Threads'
  BY <1>1, <1>2, Still DEF RequestInv, Shaped, Threads
<1> QED
  BY <1>1, <1>3, Still DEF RequestInv

LEMMA WaitKeeps == ASSUME RequestInv, Wait PROVE RequestInv'
<1>1. UNCHANGED <<req, batch, order, held>> /\ UNCHANGED <<caps, main, io>> /\ io = "serve" /\ todo' \subseteq todo
  BY DEF Wait
<1>2. Shaped' /\ Threads'
  BY <1>1, Still DEF RequestInv, Shaped, Threads
<1> QED
  BY <1>1, <1>2, Still DEF RequestInv

LEMMA ReapKeeps == ASSUME RequestInv, Reap PROVE RequestInv'
<1>1. /\ io = "serve" /\ todo = {} /\ io' = "idle" /\ req' = Destroyed(Gone) /\ order' = Left(Gone)
      /\ UNCHANGED <<caps, todo, main, batch, held>>
  BY DEF Reap
<1>2. PICK S : S = Gone
  OBVIOUS
<1>3. S \in SUBSET Requested /\ \A p \in S : ~req[p].stream /\ req[p].batch = None /\ req[p].cancelled /\ Exists(p)
  BY <1>2 DEF Gone, Requested
<1>4. /\ Sequenced' /\ Belonging' /\ BatchesAre' /\ Limited'
      /\ Streams' = Streams /\ Batches' = Batches /\ Pending' \subseteq Pending
      /\ req' \in [Paths -> RequestType \cup {None}]
      /\ \A p \in Paths : IF p \in S THEN ~Exists(p)' ELSE req'[p] = req[p] /\ (Exists(p)' <=> Exists(p))
  BY <1>1, <1>2, <1>3, DestroyedIs
<1>5. Shaped'
  BY <1>1, <1>4 DEF RequestInv, Shaped
<1>6. RequestsAre'
  <2> SUFFICES ASSUME NEW p \in Paths PROVE IF Exists(p)' THEN RequestIs(req'[p], held'[p]) ELSE held'[p] = 0
    BY DEF RequestsAre, RequestIs
  <2>1. IF Exists(p) THEN RequestIs(req[p], held[p]) ELSE held[p] = 0
    BY DEF RequestInv, RequestsAre
  <2>2. CASE p \in S
    BY <1>1, <1>3, <1>4, <2>1, <2>2 DEF RequestIs
  <2>3. CASE p \notin S
    BY <1>1, <1>4, <2>1, <2>3
  <2> QED
    BY <2>2, <2>3
<1>8. Threads'
  <2>1. io' = "idle" /\ (main.pc = "load" => ~Exists(main.path))'
    <3>1. (main.pc = "load" => ~Exists(main.path)) /\ main' = main
      BY <1>1 DEF RequestInv, Threads
    <3>2. main.pc = "load" => main.path \in Paths
      BY MainIs
    <3>3. main.pc = "load" => req'[main.path] = None
      BY <1>3, <1>4, <3>1, <3>2 DEF Exists
    <3> QED
      BY <1>1, <3>1, <3>3 DEF Exists
  <2> QED
    BY <2>1 DEF Threads
<1> QED
  BY <1>4, <1>5, <1>6, <1>8 DEF RequestInv

\* A request that has ended.
LEMMA EndedIs ==
  ASSUME NEW r \in RequestType, NEW state \in {"complete", "error", "preempted"}
  PROVE  /\ Ended(r, state) \in RequestType /\ Ended(r, state).refs = r.refs /\ Ended(r, state).state = state
         /\ Ended(r, state).stream = FALSE /\ Ended(r, state).batch = r.batch /\ Ended(r, state).isolated = FALSE
         /\ Ended(r, state).preempt = r.preempt /\ Ended(r, state).cancelled = r.cancelled
         /\ Ended(r, state).data = r.data /\ Ended(r, state).trans = "queued"
  BY DEF Ended, RequestType

LEMMA DisconnectKeeps == ASSUME RequestInv, Disconnect PROVE RequestInv'
<1>1. PICK S : S = {p \in Paths : Exists(p) /\ req[p].refs = 0}
  OBVIOUS
<1>2. /\ io = "idle" /\ io' = "off" /\ caps' = "off" /\ batch' = [b \in Slots |-> None] /\ order' = Left(S)
      /\ req' = [p \in Paths |->
                    IF ~Exists(p) \/ p \in S THEN None
                    ELSE IF [req[p] EXCEPT !.batch = None].state = "pending"
                         THEN Ended([req[p] EXCEPT !.batch = None], "error") ELSE [req[p] EXCEPT !.batch = None]]
      /\ UNCHANGED <<todo, main, held>>
  BY <1>1 DEF Disconnect
<1>3. \A p \in Paths : ~Exists(p) \/ p \in S => req'[p] = None
  BY <1>2
<1>4. ASSUME NEW p \in Paths, Exists(p), p \notin S
      PROVE  /\ req'[p] \in RequestType /\ RequestIs(req'[p], held[p]) /\ req'[p].state # "pending"
             /\ ~req'[p].stream /\ req'[p].batch = None
  <2> DEFINE r == [req[p] EXCEPT !.batch = None]
  <2>1. req[p] \in RequestType /\ RequestIs(req[p], held[p])
    BY <1>4, RequestHas DEF RequestInv, RequestsAre
  <2>2. /\ r \in RequestType /\ r.refs = req[p].refs /\ r.state = req[p].state /\ r.stream = req[p].stream
        /\ r.batch = None /\ r.preempt = req[p].preempt /\ r.cancelled = req[p].cancelled /\ r.data = req[p].data
        /\ r.trans = req[p].trans
    BY <2>1 DEF RequestType
  <2>3. req'[p] = IF r.state = "pending" THEN Ended(r, "error") ELSE r
    BY <1>2, <1>4
  <2> HIDE DEF r
  <2>4. CASE r.state = "pending"
    <3>1. /\ Ended(r, "error") \in RequestType /\ Ended(r, "error").refs = r.refs
          /\ Ended(r, "error").state = "error" /\ Ended(r, "error").stream = FALSE
          /\ Ended(r, "error").batch = r.batch /\ Ended(r, "error").cancelled = r.cancelled
      BY <2>2, EndedIs
    <3>2. req'[p] = Ended(r, "error")
      BY <2>3, <2>4
    <3> QED
      BY <2>1, <2>2, <3>1, <3>2 DEF RequestIs
  <2>5. CASE r.state # "pending"
    BY <2>1, <2>2, <2>3, <2>5 DEF RequestIs
  <2> QED
    BY <2>4, <2>5
<1>5. req' \in [Paths -> RequestType \cup {None}]
  <2>1. req' = [p \in Paths |-> req'[p]]
    BY <1>2
  <2>2. \A p \in Paths : req'[p] \in RequestType \cup {None}
    BY <1>3, <1>4
  <2> QED
    BY <2>1, <2>2
<1>6. \A p \in Paths : Exists(p)' <=> Exists(p) /\ p \notin S
  BY <1>3, <1>4, NotNone DEF Exists
<1>7. Streams' = {} /\ Pending' = {}
  BY <1>4, <1>6 DEF Streams, Pending
<1>8. Batches' = {}
  BY <1>2 DEF Batches
<1>9. Shaped'
  BY <1>2, <1>5 DEF RequestInv, Shaped
<1>10. Sequenced'
  <2>1. Requested' = Requested \ S
    BY <1>6 DEF Requested
  <2> QED
    BY <1>2, <2>1, LeftIs DEF RequestInv
<1>11. RequestsAre'
  <2> SUFFICES ASSUME NEW p \in Paths PROVE IF Exists(p)' THEN RequestIs(req'[p], held'[p]) ELSE held'[p] = 0
    BY DEF RequestsAre, RequestIs
  <2>1. IF Exists(p) THEN RequestIs(req[p], held[p]) ELSE held[p] = 0
    BY DEF RequestInv, RequestsAre
  <2>2. p \in S => held[p] = 0
    BY <1>1, <2>1 DEF RequestIs
  <2> QED
    BY <1>2, <1>4, <1>6, <2>1, <2>2
<1>12. Belonging' /\ BatchesAre'
  BY <1>4, <1>6, <1>8 DEF Belonging, BatchesAre
<1>13. Limited'
  BY <1>7, <1>8, LimitsKept DEF RequestInv
<1>14. Threads'
  <2>1. main' = main /\ (main.pc = "load" => main.path \in Paths /\ ~Exists(main.path))
    BY <1>2, MainIs DEF RequestInv, Threads
  <2>2. main.pc = "load" => req'[main.path] = None
    BY <1>3, <2>1
  <2> QED
    BY <1>2, <1>7, <2>1, <2>2 DEF Threads, Exists
<1> QED
  BY <1>9, <1>10, <1>11, <1>12, <1>13, <1>14 DEF RequestInv

\* Whose turn it is, is to be served.
LEMMA TurnIs ==
  ASSUME RequestInv, io = "serve", todo # {}
  PROVE  Turn \in todo /\ (Turn \in Paths => Turn \in Streams) /\ (Turn \in Slots => Turn \in Batches)
<1>1. todo \subseteq Streams \cup Batches /\ Streams \subseteq Listed /\ Streams \subseteq Paths /\ Batches \subseteq Slots
  BY QueuedIs DEF RequestInv, Threads, Streams, Batches
<1>2. Paths \cap Slots = {}
  BY AssetAssumption
<1>3. CASE todo \cap Paths # {}
  <2>1. Listed \cap todo # {}
    BY <1>1, <1>2, <1>3
  <2>2. Turn = Older(todo)[1]
    BY <1>3 DEF Turn
  <2>3. Turn \in todo
    BY <2>1, <2>2, EldestIs DEF RequestInv
  <2> QED
    BY <1>1, <1>2, <2>3
<1>4. CASE todo \cap Paths = {}
  <2>1. todo \in SUBSET Slots
    BY <1>1, <1>4
  <2>2. \E b \in todo : \A c \in todo : b <= c
    BY <2>1, LeastNumber, SlotsAre DEF Slots
  <2>3. Turn = CHOOSE b \in todo : \A c \in todo : b <= c
    BY <1>4 DEF Turn
  <2>4. Turn \in todo
    BY <2>2, <2>3
  <2> QED
    BY <1>1, <1>2, <2>4
<1> QED
  BY <1>3, <1>4

\* What a stream may come to.
LEMMA ServedIs ==
  ASSUME NEW r \in RequestType, NEW n \in Nat, RequestIs(r, n), r.stream, NEW s \in Served(r)
  PROVE  /\ s \in RequestType /\ RequestIs(s, n) /\ s.batch = None /\ s.cancelled = r.cancelled
         /\ s.isolated => r.isolated
<1>0. /\ r.refs \in Nat /\ r.state = "pending" /\ r.batch = None /\ r.trans # "queued"
      /\ r.trans \in {"queued", "send", "header", "body", "fin"} /\ r.cancelled \in BOOLEAN
  BY DEF RequestType, RequestIs
<1>1. CASE r.cancelled /\ s = [r EXCEPT !.stream = FALSE]
  BY <1>1 DEF RequestType, RequestIs
<1>2. CASE s = Ended(r, "error")
  BY <1>0, <1>2, EndedIs DEF RequestIs
<1>3. CASE s = Ended(r, "complete") /\ r.data = "good"
  BY <1>0, <1>3, EndedIs DEF RequestIs
<1>4. CASE s = [r EXCEPT !.trans = "header"]
  BY <1>0, <1>4 DEF RequestType, RequestIs
<1>5. CASE \E t \in {"body", "fin"} : \E d \in {"none", "good", "bad"} : s = [r EXCEPT !.trans = t, !.data = d]
  <2>1. PICK t \in {"body", "fin"}, d \in {"none", "good", "bad"} : s = [r EXCEPT !.trans = t, !.data = d]
    BY <1>5
  <2>2. /\ s \in RequestType /\ s.refs = r.refs /\ s.state = r.state /\ s.trans = t /\ s.stream = r.stream
        /\ s.batch = r.batch /\ s.isolated = r.isolated /\ s.preempt = r.preempt /\ s.cancelled = r.cancelled
    BY <2>1 DEF RequestType
  <2> QED
    BY <1>0, <2>2 DEF RequestIs
<1> DEFINE goes ==
           CASE r.trans = "send"   -> {[r EXCEPT !.trans = "header"]}
             [] r.trans = "header" -> {[r EXCEPT !.trans = "body", !.data = "none"],
                                       [r EXCEPT !.trans = "fin", !.data = "good"]}
             [] r.trans = "body"   -> {[r EXCEPT !.trans = "fin", !.data = d] : d \in {"good", "bad"}}
             [] r.trans = "fin"    -> IF r.data = "good" THEN {Ended(r, "complete")} ELSE {}
<1>6. ~r.cancelled => s \in {Ended(r, "error")} \cup goes
  BY DEF Served
<1>7. r.cancelled => s = [r EXCEPT !.stream = FALSE]
  BY DEF Served
<1>8. ASSUME s \in goes
      PROVE  \/ s = [r EXCEPT !.trans = "header"]
             \/ \E t \in {"body", "fin"} : \E d \in {"none", "good", "bad"} : s = [r EXCEPT !.trans = t, !.data = d]
             \/ s = Ended(r, "complete") /\ r.data = "good"
  <2>1. CASE r.trans = "send"
    BY <1>8, <2>1
  <2>2. CASE r.trans = "header"
    <3>1. goes = {[r EXCEPT !.trans = "body", !.data = "none"], [r EXCEPT !.trans = "fin", !.data = "good"]}
      BY <2>2
    <3> QED
      BY <1>8, <3>1
  <2>3. CASE r.trans = "body"
    <3>1. goes = {[r EXCEPT !.trans = "fin", !.data = d] : d \in {"good", "bad"}}
      BY <2>3
    <3> QED
      BY <1>8, <3>1
  <2>4. CASE r.trans = "fin"
    <3>1. goes = IF r.data = "good" THEN {Ended(r, "complete")} ELSE {}
      BY <2>4
    <3> HIDE DEF goes
    <3>2. r.data = "good"
      BY <1>8, <3>1
    <3> QED
      BY <1>8, <3>1, <3>2
  <2> QED
    BY <1>0, <2>1, <2>2, <2>3, <2>4
<1> QED
  BY <1>1, <1>2, <1>3, <1>4, <1>5, <1>6, <1>7, <1>8

LEMMA ServeStreamIs ==
  ASSUME RequestInv, NEW p \in Paths, ServeStream(p)
  PROVE  /\ p \in Streams /\ Exists(p) /\ \E s \in Served(req[p]) : req' = [req EXCEPT ![p] = s]
         /\ req[p] \in RequestType /\ req[p].stream /\ RequestIs(req[p], held[p]) /\ held[p] \in Nat
         /\ io = "serve" /\ todo' = todo \ {p} /\ UNCHANGED <<caps, io, main, order, batch, held>>
<1>1. /\ io = "serve" /\ todo # {} /\ p = Turn /\ todo' = todo \ {p}
      /\ req' \in {[req EXCEPT ![p] = r] : r \in Served(req[p])}
      /\ UNCHANGED <<caps, io, main, order, batch, held>>
  BY DEF ServeStream
<1>2. p \in Streams
  BY <1>1, TurnIs
<1>3. Exists(p) /\ req[p].stream
  BY <1>2 DEF Streams
<1>4. req[p] \in RequestType /\ RequestIs(req[p], held[p]) /\ held[p] \in Nat
  BY <1>3, RequestHas DEF RequestInv, RequestsAre, Shaped
<1> QED
  BY <1>1, <1>2, <1>3, <1>4

LEMMA ServeStreamKeeps == ASSUME RequestInv, NEW p \in Paths, ServeStream(p) PROVE RequestInv'
<1>1. /\ p \in Streams /\ Exists(p) /\ req[p] \in RequestType /\ req[p].stream
      /\ RequestIs(req[p], held[p]) /\ held[p] \in Nat
      /\ io = "serve" /\ todo' = todo \ {p} /\ UNCHANGED <<caps, io, main, order, batch, held>>
  BY ServeStreamIs
<1>2. PICK s \in Served(req[p]) : req' = [req EXCEPT ![p] = s]
  BY ServeStreamIs
<1>3. s \in RequestType /\ RequestIs(s, held[p]) /\ s.batch = None /\ s.cancelled = req[p].cancelled /\ s # None
  BY <1>1, ServedIs, NotNone
<1>4. req \in [Paths -> RequestType \cup {None}]
  BY DEF RequestInv, Shaped
<1>5. /\ req' \in [Paths -> RequestType \cup {None}] /\ req'[p] = s
      /\ \A o \in Paths : o # p => req'[o] = req[o]
  BY <1>2, <1>3, <1>4
<1>6. \A o \in Paths : Exists(o)' <=> Exists(o)
  BY <1>1, <1>3, <1>5 DEF Exists
<1>7. req[p].state = "pending" /\ req[p].batch = None
  BY <1>1 DEF RequestIs
<1>8. Streams' \subseteq Streams /\ Streams \ {p} \subseteq Streams' /\ Pending' \subseteq Pending
  BY <1>1, <1>3, <1>5, <1>6, <1>7 DEF Streams, Pending
<1>9. Belonging' /\ BatchesAre' /\ Batches' = Batches
  <2>1. \A o \in Requested : req[o].batch # None => o \in Paths /\ o # p
    BY <1>7 DEF Requested
  <2>2. \A o \in Paths : Exists(o)' /\ req'[o].batch # None => o # p /\ Exists(o)
    BY <1>3, <1>5, <1>6
  <2> QED
    BY <1>1, <1>5, <1>6, <2>1, <2>2, BatchesKept DEF Requested
<1>10. Shaped'
  BY <1>1, <1>5 DEF RequestInv, Shaped
<1>11. Sequenced'
  BY <1>1, <1>6 DEF RequestInv, Sequenced, Requested, Single, ToSet
<1>12. RequestsAre'
  <2> SUFFICES ASSUME NEW o \in Paths PROVE IF Exists(o)' THEN RequestIs(req'[o], held'[o]) ELSE held'[o] = 0
    BY DEF RequestsAre, RequestIs
  <2>1. IF Exists(o) THEN RequestIs(req[o], held[o]) ELSE held[o] = 0
    BY DEF RequestInv, RequestsAre
  <2> QED
    BY <1>1, <1>3, <1>5, <1>6, <2>1
<1>13. Limited'
  BY <1>8, <1>9, LimitsKept DEF RequestInv
<1>14. Threads'
  <2>1. main' = main /\ (main.pc = "load" => main.path \in Paths /\ ~Exists(main.path))
    BY <1>1, MainIs DEF RequestInv, Threads
  <2>2. main'.pc = "load" => req'[main'.path] = None
    BY <1>1, <1>5, <2>1 DEF Exists
  <2>3. todo' \subseteq Streams' \cup Batches'
    BY <1>1, <1>8, <1>9 DEF RequestInv, Threads
  <2> QED
    BY <1>1, <2>2, <2>3 DEF Threads, Exists
<1> QED
  BY <1>9, <1>10, <1>11, <1>12, <1>13, <1>14 DEF RequestInv
\* A batch that a step leaves, and its members with it.
LEMMA OtherBatch ==
  ASSUME RequestInv, NEW b \in Batches, batch'[b] = batch[b], \A p \in Remaining(b) : req'[p] = req[p]
  PROVE  /\ b \in Batches' /\ Remaining(b)' = Remaining(b) /\ BatchIs(batch'[b])
         /\ LastGood(batch[b])'
         /\ \A p \in Remaining(b) : p \in Paths /\ Exists(p) /\ Exists(p)' /\ req'[p].batch = b
<1>1. b \in Batches' /\ Remaining(b)' = Remaining(b)
  BY DEF Batches, Remaining
<1>2. BatchIs(batch[b]) /\ LastGood(batch[b])
  BY DEF RequestInv, BatchesAre
<1>3. \A p \in Remaining(b) : p \in Paths /\ Exists(p) /\ Exists(p)' /\ req'[p].batch = b
  BY DEF RequestInv, Belonging, Exists
<1> DEFINE last == batch[b].members[batch[b].current]
<1>4. ASSUME batch[b].current = Len(batch[b].members) PROVE req'[last] = req[last]
  <2>1. batch[b].current \in batch[b].current..Len(batch[b].members)
    BY <1>4, BatchHas DEF RequestInv
  <2>2. last \in Remaining(b)
    BY <2>1 DEF Remaining
  <2> QED
    BY <2>2
<1>5. LastGood(batch[b])'
  BY <1>2, <1>4 DEF LastGood
<1> QED
  BY <1>1, <1>2, <1>3, <1>5

\* What the handoffs of a pass do to a request.
LEMMA BeginIs ==
  ASSUME RequestInv, Begin
  PROVE  \E S \in SUBSET Requested :
            /\ S = {p \in Paths : Exists(p) /\ req[p].preempt} \cup UNION {Remaining(b) : b \in PreemptedBatches}
            /\ \A p \in Paths \ S : req'[p] = req[p]
            /\ \A p \in S :
                  /\ req'[p] \in RequestType /\ req'[p].stream = FALSE /\ req'[p].batch = None
                  /\ req'[p].refs = req[p].refs /\ req'[p].cancelled = req[p].cancelled /\ req'[p].preempt = FALSE
                  /\ req'[p].isolated => req[p].isolated
                  /\ IF p \in Pending THEN req'[p].state = "preempted"
                     ELSE /\ req'[p].state = req[p].state /\ req'[p].data = req[p].data
            /\ req' \in [Paths -> RequestType \cup {None}]
            /\ \A p \in Paths : Exists(p)' <=> Exists(p)
            /\ batch' = [b \in Slots |-> IF b \in PreemptedBatches THEN None ELSE batch[b]]
            /\ io = "idle" /\ io' = "open" /\ UNCHANGED <<caps, todo, main, order, held>>
<1> DEFINE A == {p \in Paths : Exists(p) /\ req[p].preempt} \cup UNION {Remaining(b) : b \in PreemptedBatches}
<1>1. PICK S : S = A
  OBVIOUS
<1>2. /\ io = "idle" /\ io' = "open"
      /\ req' = [p \in Paths |->
                    IF p \notin S THEN req[p]
                    ELSE IF p \in Pending
                         THEN [Ended([req[p] EXCEPT !.preempt = FALSE, !.stream = FALSE, !.batch = None], "preempted")
                                  EXCEPT !.data = "none"]
                         ELSE [req[p] EXCEPT !.preempt = FALSE, !.stream = FALSE, !.batch = None]]
      /\ batch' = [b \in Slots |-> IF b \in PreemptedBatches THEN None ELSE batch[b]]
      /\ UNCHANGED <<caps, todo, main, order, held>>
  BY <1>1 DEF Begin
<1>3. S \in SUBSET Requested
  BY <1>1 DEF RequestInv, Belonging, PreemptedBatches, Requested
<1>4. ASSUME NEW p \in S
      PROVE  /\ p \in Paths /\ Exists(p)
             /\ req'[p] \in RequestType /\ req'[p].stream = FALSE /\ req'[p].batch = None
             /\ req'[p].refs = req[p].refs /\ req'[p].cancelled = req[p].cancelled /\ req'[p].preempt = FALSE
             /\ req'[p].isolated => req[p].isolated
             /\ IF p \in Pending THEN req'[p].state = "preempted"
                ELSE /\ req'[p].state = req[p].state /\ req'[p].data = req[p].data
  <2> DEFINE r == [req[p] EXCEPT !.preempt = FALSE, !.stream = FALSE, !.batch = None]
             e == Ended(r, "preempted")
  <2>1. p \in Paths /\ Exists(p)
    BY <1>3 DEF Requested
  <2>2. req[p] \in RequestType
    BY <2>1, RequestHas DEF RequestInv
  <2>3. /\ r \in RequestType /\ r.refs = req[p].refs /\ r.state = req[p].state /\ r.stream = FALSE
        /\ r.batch = None /\ r.preempt = FALSE /\ r.cancelled = req[p].cancelled /\ r.data = req[p].data
        /\ r.isolated = req[p].isolated
    BY <2>2 DEF RequestType
  <2>4. req'[p] = IF p \in Pending THEN [e EXCEPT !.data = "none"] ELSE r
    BY <1>2, <2>1
  <2> HIDE DEF r
  <2>5. /\ e \in RequestType /\ e.refs = r.refs /\ e.state = "preempted"
        /\ e.stream = FALSE /\ e.batch = r.batch /\ e.isolated = FALSE
        /\ e.preempt = r.preempt /\ e.cancelled = r.cancelled
    BY <2>3, EndedIs
  <2> HIDE DEF e
  <2>6. CASE p \in Pending
    <3>1. req'[p] = [e EXCEPT !.data = "none"]
      BY <2>4, <2>6
    <3>2. /\ req'[p] \in RequestType /\ req'[p].refs = e.refs /\ req'[p].state = e.state
          /\ req'[p].stream = e.stream /\ req'[p].batch = e.batch /\ req'[p].isolated = e.isolated
          /\ req'[p].preempt = e.preempt /\ req'[p].cancelled = e.cancelled
      BY <2>5, <3>1 DEF RequestType
    <3> QED
      BY <2>1, <2>3, <2>5, <2>6, <3>2
  <2>7. CASE p \notin Pending
    BY <2>1, <2>3, <2>4, <2>7
  <2> QED
    BY <2>6, <2>7
<1>5. \A p \in Paths \ S : req'[p] = req[p]
  BY <1>2
<1>6. req' \in [Paths -> RequestType \cup {None}]
  <2>1. req' = [p \in Paths |-> req'[p]]
    BY <1>2
  <2>2. \A p \in Paths : req'[p] \in RequestType \cup {None}
    BY <1>4, <1>5 DEF RequestInv, Shaped
  <2> QED
    BY <2>1, <2>2
<1>7. \A p \in Paths : Exists(p)' <=> Exists(p)
  BY <1>4, <1>5, NotNone DEF Exists
<1> HIDE DEF A
<1> WITNESS S \in SUBSET Requested
<1> QED
  BY <1>1, <1>2, <1>4, <1>5, <1>6, <1>7 DEF A

LEMMA BeginKeeps == ASSUME RequestInv, Begin PROVE RequestInv'
<1>1. PICK S \in SUBSET Requested :
            /\ S = {p \in Paths : Exists(p) /\ req[p].preempt} \cup UNION {Remaining(b) : b \in PreemptedBatches}
            /\ \A p \in Paths \ S : req'[p] = req[p]
            /\ \A p \in S :
                  /\ req'[p] \in RequestType /\ req'[p].stream = FALSE /\ req'[p].batch = None
                  /\ req'[p].refs = req[p].refs /\ req'[p].cancelled = req[p].cancelled /\ req'[p].preempt = FALSE
                  /\ req'[p].isolated => req[p].isolated
                  /\ IF p \in Pending THEN req'[p].state = "preempted"
                     ELSE /\ req'[p].state = req[p].state /\ req'[p].data = req[p].data
            /\ req' \in [Paths -> RequestType \cup {None}]
            /\ \A p \in Paths : Exists(p)' <=> Exists(p)
            /\ batch' = [b \in Slots |-> IF b \in PreemptedBatches THEN None ELSE batch[b]]
            /\ io = "idle" /\ io' = "open" /\ UNCHANGED <<caps, todo, main, order, held>>
  BY BeginIs
<1>2. \A p \in S : p \in Paths /\ Exists(p)
  BY DEF Requested
<1>3. Batches' = Batches \ PreemptedBatches /\ \A b \in Batches' : batch'[b] = batch[b]
  BY <1>1 DEF Batches, PreemptedBatches
<1>4. \A b \in Batches : \A p \in Remaining(b) : p \in Requested /\ p \in Paths /\ req[p].batch = b /\ b # None
  BY NotNone DEF RequestInv, Belonging, Batches, Requested
<1>5. \A p \in Requested : RequestIs(req[p], held[p])
  BY DEF RequestInv, RequestsAre, Requested
<1>6. ASSUME NEW b \in Batches', NEW p \in Remaining(b) PROVE p \in Paths /\ p \notin S
  <2>1. b \in Batches /\ b \notin PreemptedBatches
    BY <1>3
  <2>2. p \in Requested /\ p \in Paths /\ req[p].batch = b /\ b # None
    BY <1>4, <2>1
  <2>3. ~req[p].preempt
    BY <1>5, <2>2 DEF RequestIs
  <2>4. ASSUME NEW c \in PreemptedBatches, p \in Remaining(c) PROVE FALSE
    BY <1>4, <2>1, <2>2, <2>4 DEF PreemptedBatches
  <2> QED
    BY <1>1, <2>2, <2>3, <2>4
<1>7. \A b \in Batches' : /\ Remaining(b)' = Remaining(b) /\ BatchIs(batch'[b]) /\ LastGood(batch[b])'
                          /\ \A p \in Remaining(b) : p \in Paths /\ Exists(p)' /\ req'[p].batch = b
  BY <1>1, <1>3, <1>6, OtherBatch
<1>8. ASSUME NEW p \in Paths, Exists(p)', req'[p].batch # None
      PROVE  \E b \in Batches' : req'[p].batch = b /\ p \in Remaining(b)'
  <2>1. p \notin S /\ req'[p] = req[p] /\ Exists(p)
    BY <1>1, <1>8
  <2>2. PICK b \in Batches : req[p].batch = b /\ p \in Remaining(b)
    BY <1>8, <2>1 DEF RequestInv, Belonging
  <2>3. b \notin PreemptedBatches
    BY <1>1, <2>1, <2>2
  <2> QED
    BY <1>3, <1>7, <2>1, <2>2, <2>3
<1>9. Belonging' /\ BatchesAre'
  <2>1. \A b \in Batches' : \A p \in Remaining(b)' : p \in Paths /\ Exists(p)' /\ req'[p].batch = b
    BY <1>7
  <2>2. Belonging'
    BY <1>8, <2>1 DEF Belonging
  <2>3. \A b \in Batches' : BatchIs(batch[b])' /\ LastGood(batch[b])'
    BY <1>7 DEF BatchIs
  <2> QED
    BY <2>2, <2>3 DEF BatchesAre
<1>10. Streams' \subseteq Streams /\ Pending' \subseteq Pending /\ Batches' \subseteq Batches
  BY <1>1, <1>2, <1>3 DEF Streams, Pending
<1>11. Limited'
  BY <1>10, LimitsKept DEF RequestInv
<1>12. Shaped'
  <2>1. batch' \in [Slots -> BatchType \cup {None}]
    BY <1>1 DEF RequestInv, Shaped
  <2> QED
    BY <1>1, <2>1 DEF RequestInv, Shaped
<1>13. Sequenced'
  BY <1>1 DEF RequestInv, Sequenced, Requested, Single, ToSet
<1>14. RequestsAre'
  <2> SUFFICES ASSUME NEW p \in Paths PROVE IF Exists(p)' THEN RequestIs(req'[p], held'[p]) ELSE held'[p] = 0
    BY DEF RequestsAre, RequestIs
  <2>1. IF Exists(p) THEN RequestIs(req[p], held[p]) ELSE held[p] = 0
    BY DEF RequestInv, RequestsAre
  <2>2. CASE p \in S
    BY <1>1, <1>2, <2>1, <2>2 DEF RequestIs
  <2>3. CASE p \notin S
    BY <1>1, <2>1, <2>3
  <2> QED
    BY <2>2, <2>3
<1>15. Threads'
  <2>1. main' = main /\ (main.pc = "load" => main.path \in Paths /\ ~Exists(main.path))
    BY <1>1, MainIs DEF RequestInv, Threads
  <2>2. main.pc = "load" => ~Exists(main.path)'
    BY <1>1, <2>1 DEF Exists
  <2> QED
    BY <1>1, <2>1, <2>2 DEF Threads
<1> QED
  BY <1>9, <1>11, <1>12, <1>13, <1>14, <1>15 DEF RequestInv
\* What is opened: a stream for the oldest request, or for a batch of faces.
LEMMA OpenIs ==
  ASSUME RequestInv, Open
  PROVE  \E first \in Queued :
            /\ first = OldestQueued
            /\ io = "open" /\ Active < ActiveMax /\ UNCHANGED <<caps, io, todo, main, order, held>>
            /\ \/ /\ req' = [req EXCEPT ![first] = [[req[first] EXCEPT !.prio = FALSE, !.isolated = FALSE]
                                                       EXCEPT !.stream = TRUE, !.trans = "send"]]
                  /\ UNCHANGED batch
               \/ /\ first \in Faces
                  /\ \E b \in Slots \ Batches :
                        /\ batch' = [batch EXCEPT ![b] =
                              [members |-> BatchOf(first), current |-> 1, trans |-> "send",
                               priority |-> req[first].prio, preempt |-> FALSE, final |-> FALSE]]
                        /\ req' = [p \in Paths |->
                              IF p \in ToSet(BatchOf(first))
                              THEN [[req[p] EXCEPT !.prio = FALSE, !.isolated = FALSE] EXCEPT !.batch = b] ELSE req[p]]
<1>1. OldestQueued \in Queued
  BY NextIs DEF Open, RequestInv
<1>2. PICK first \in Queued : first = OldestQueued
  BY <1>1
<1>3. io = "open" /\ Active < ActiveMax /\ UNCHANGED <<caps, io, todo, main, order, held>>
  BY DEF Open, Room
<1>4. CASE caps = "batch" /\ first \in Faces
  BY <1>2, <1>3, <1>4 DEF Open
<1>5. CASE ~(caps = "batch" /\ first \in Faces)
  BY <1>2, <1>3, <1>5 DEF Open
<1> QED
  BY <1>4, <1>5

\* Queued requests get a stream or a batch.
LEMMA OpenedIs ==
  ASSUME RequestInv, NEW p \in Queued
  PROVE  /\ p \in Paths /\ Exists(p) /\ p \in Requested /\ req[p] \in RequestType /\ RequestIs(req[p], held[p])
         /\ req[p].state = "pending" /\ ~req[p].cancelled /\ ~req[p].stream /\ req[p].batch = None
         /\ req[p].trans = "queued" /\ ~req[p].preempt
<1>1. /\ p \in Paths /\ Exists(p) /\ req[p].state = "pending" /\ ~req[p].cancelled
      /\ ~req[p].stream /\ req[p].batch = None /\ req[p].trans = "queued"
  BY DEF Queued, Pending
<1>2. req[p] \in RequestType /\ RequestIs(req[p], held[p])
  BY <1>1, RequestHas DEF RequestInv, RequestsAre
<1> QED
  BY <1>1, <1>2 DEF RequestIs, Requested

LEMMA OpenStreamKeeps ==
  ASSUME RequestInv, NEW first \in Queued, io = "open", Active < ActiveMax,
         UNCHANGED <<caps, io, todo, main, order, held, batch>>,
         req' = [req EXCEPT ![first] = [[req[first] EXCEPT !.prio = FALSE, !.isolated = FALSE]
                                           EXCEPT !.stream = TRUE, !.trans = "send"]]
  PROVE  RequestInv'
<1> DEFINE r == [[req[first] EXCEPT !.prio = FALSE, !.isolated = FALSE] EXCEPT !.stream = TRUE, !.trans = "send"]
<1>1. /\ first \in Paths /\ Exists(first) /\ req[first] \in RequestType /\ RequestIs(req[first], held[first])
      /\ req[first].state = "pending" /\ ~req[first].cancelled /\ ~req[first].stream /\ req[first].batch = None
      /\ ~req[first].preempt
  BY OpenedIs
<1>2. /\ r \in RequestType /\ r.refs = req[first].refs /\ r.state = req[first].state /\ r.trans = "send"
      /\ r.stream = TRUE /\ r.batch = None /\ r.preempt = req[first].preempt
      /\ r.cancelled = req[first].cancelled /\ r.data = req[first].data
  BY <1>1 DEF RequestType
<1>3. req' = [req EXCEPT ![first] = r]
  OBVIOUS
<1> HIDE DEF r
<1>4. req \in [Paths -> RequestType \cup {None}]
  BY DEF RequestInv, Shaped
<1>5. /\ req' \in [Paths -> RequestType \cup {None}] /\ req'[first] = r /\ r # None
      /\ \A o \in Paths : o # first => req'[o] = req[o]
  BY <1>1, <1>2, <1>3, <1>4, NotNone
<1>6. \A o \in Paths : Exists(o)' <=> Exists(o)
  BY <1>1, <1>5 DEF Exists
<1>7. RequestIs(r, held[first])
  BY <1>1, <1>2 DEF RequestIs
<1>8. Streams' = Streams \cup {first} /\ first \notin Streams /\ Pending' \subseteq Pending
  <2>1. Streams' = Streams \cup {first} /\ first \notin Streams
    BY <1>1, <1>2, <1>5, <1>6 DEF Streams
  <2>2. Pending' \subseteq Pending
    BY <1>1, <1>2, <1>5, <1>6 DEF Pending
  <2> QED
    BY <2>1, <2>2
<1>9. Belonging' /\ BatchesAre' /\ Batches' = Batches
  <2>1. \A o \in Requested : req[o].batch # None => o \in Paths /\ o # first
    BY <1>1 DEF Requested
  <2>2. \A o \in Paths : Exists(o)' /\ req'[o].batch # None => o # first /\ Exists(o)
    BY <1>2, <1>5, <1>6
  <2> QED
    BY <1>5, <1>6, <2>1, <2>2, BatchesKept DEF Requested
<1>10. Shaped'
  BY <1>5 DEF RequestInv, Shaped
<1>11. Sequenced'
  BY <1>6 DEF RequestInv, Sequenced, Requested, Single, ToSet
<1>12. RequestsAre'
  <2> SUFFICES ASSUME NEW o \in Paths PROVE IF Exists(o)' THEN RequestIs(req'[o], held'[o]) ELSE held'[o] = 0
    BY DEF RequestsAre, RequestIs
  <2>1. IF Exists(o) THEN RequestIs(req[o], held[o]) ELSE held[o] = 0
    BY DEF RequestInv, RequestsAre
  <2> QED
    BY <1>1, <1>5, <1>6, <1>7, <2>1
<1>13. Limited'
  <2>1. /\ IsFiniteSet(Streams) /\ IsFiniteSet(Pending) /\ Cardinality(Streams) \in Nat
        /\ Cardinality(Pending) \in Nat /\ Cardinality(Batches) \in Nat
    BY FewIs DEF RequestInv
  <2>2. Cardinality(Streams') = Cardinality(Streams) + 1
    BY <1>8, <2>1, FS_AddElement
  <2>3. Pending' \in SUBSET Pending
    BY <1>8
  <2>4. IsFiniteSet(Pending') /\ Cardinality(Pending') <= Cardinality(Pending)
    BY <2>1, <2>3, FS_Subset
  <2>5. Cardinality(Pending') \in Nat
    BY <2>4, FS_CardinalityType
  <2>6. PendingMax \in Nat /\ ActiveMax \in Nat /\ Cardinality(Pending) <= PendingMax
    BY AssetAssumption DEF RequestInv, Limited
  <2>7. Cardinality(Pending') <= PendingMax
    BY <2>1, <2>4, <2>5, <2>6
  <2>8. Active' <= ActiveMax
    BY <1>9, <2>1, <2>2, <2>6 DEF Active
  <2> QED
    BY <2>7, <2>8 DEF Limited
<1>14. Threads'
  <2>1. main' = main /\ (main.pc = "load" => main.path \in Paths /\ ~Exists(main.path))
    BY MainIs DEF RequestInv, Threads
  <2>2. main.pc = "load" => ~Exists(main.path)'
    BY <1>5, <2>1, <1>1 DEF Exists
  <2> QED
    BY <2>1, <2>2 DEF Threads
<1> QED
  BY <1>9, <1>10, <1>11, <1>12, <1>13, <1>14 DEF RequestInv

LEMMA OpenBatchKeeps ==
  ASSUME RequestInv, io = "open", Active < ActiveMax, UNCHANGED <<caps, io, todo, main, order, held>>,
         NEW M \in SUBSET Queued, NEW s \in Seq(Paths), Len(s) \in 1..BatchMax, Single(s), M = ToSet(s),
         NEW b, b \in Slots, b \notin Batches,
         NEW t \in BatchType, t.members = s, t.current = 1, t.trans = "send", t.final = FALSE,
         batch' = [batch EXCEPT ![b] = t],
         req' \in [Paths -> RequestType \cup {None}], \A p \in Paths \ M : req'[p] = req[p],
         \A p \in M :
            /\ req'[p] \in RequestType /\ req'[p].batch = b /\ req'[p].stream = FALSE
            /\ req'[p].state = req[p].state /\ req'[p].cancelled = req[p].cancelled
            /\ RequestIs(req'[p], held[p])
  PROVE  RequestInv'
<1>1. DOMAIN s = 1..Len(s) /\ Len(s) \in Nat
  OBVIOUS
<1>2. BatchMax \in Nat
  BY AssetAssumption
<1>3. Len(s) >= 1
  BY <1>2
<1>4. b # None
  BY NotNone
<1>5. t # None
  BY NotNone
<1>7. batch \in [Slots -> BatchType \cup {None}] /\ req \in [Paths -> RequestType \cup {None}]
  BY DEF RequestInv, Shaped
<1>8. /\ batch' \in [Slots -> BatchType \cup {None}] /\ batch'[b] = t
      /\ \A c \in Slots : c # b => batch'[c] = batch[c]
  BY <1>4, <1>5, <1>7
<1>9. \A p \in M : /\ p \in Paths /\ Exists(p) /\ req[p].batch = None /\ ~req[p].stream
                   /\ req[p].state = "pending" /\ ~req[p].cancelled
  BY OpenedIs
<1>12. \A p \in Paths : Exists(p)' <=> Exists(p)
  BY <1>9, NotNone DEF Exists
<1>13. Batches' = Batches \cup {b}
  BY <1>4, <1>5, <1>8 DEF Batches
<1>14. Remaining(b)' = M
  <2>1. Remaining(b)' = {batch'[b].members[i] : i \in batch'[b].current..Len(batch'[b].members)}
    BY DEF Remaining
  <2>2. batch'[b].members = s /\ batch'[b].current = 1
    BY <1>5, <1>8
  <2>3. Remaining(b)' = {s[i] : i \in 1..Len(s)}
    BY <2>1, <2>2
  <2> QED
    BY <1>1, <2>3 DEF ToSet
<1>15. \A c \in Batches : /\ Remaining(c)' = Remaining(c) /\ BatchIs(batch'[c]) /\ LastGood(batch[c])'
                          /\ \A p \in Remaining(c) : p \in Paths /\ Exists(p)' /\ req'[p].batch = c
  <2> SUFFICES ASSUME NEW c \in Batches
               PROVE  /\ Remaining(c)' = Remaining(c) /\ BatchIs(batch'[c]) /\ LastGood(batch[c])'
                      /\ \A p \in Remaining(c) : p \in Paths /\ Exists(p)' /\ req'[p].batch = c
    OBVIOUS
  <2>1. c \in Slots /\ c # b /\ c # None
    BY <1>4, NotNone DEF Batches
  <2>2. \A p \in Remaining(c) : p \in Paths /\ req[p].batch = c
    BY DEF RequestInv, Belonging
  <2>3. \A p \in Remaining(c) : req'[p] = req[p]
    BY <1>9, <2>1, <2>2
  <2>4. batch'[c] = batch[c]
    BY <1>8, <2>1
  <2> QED
    BY <2>3, <2>4, OtherBatch
<1>16. Belonging'
  <2>0. \A c \in Batches : Remaining(c)' = Remaining(c)
    BY <1>15
  <2>1. ASSUME NEW c \in Batches', NEW p \in Remaining(c)' PROVE p \in Paths /\ Exists(p)' /\ req'[p].batch = c
    <3>1. CASE c = b
      BY <1>9, <1>12, <1>14, <2>1, <3>1
    <3>2. CASE c \in Batches
      BY <1>15, <2>1, <3>2
    <3> QED
      BY <1>13, <3>1, <3>2
  <2>2. ASSUME NEW p \in Paths, Exists(p)', req'[p].batch # None
        PROVE  \E c \in Batches' : req'[p].batch = c /\ p \in Remaining(c)'
    <3>1. CASE p \in M
      BY <1>9, <1>13, <1>14, <3>1
    <3>2. CASE p \notin M
      <4>1. Exists(p) /\ req'[p] = req[p]
        BY <1>12, <2>2, <3>2
      <4>2. PICK c \in Batches : req[p].batch = c /\ p \in Remaining(c)
        BY <2>2, <4>1 DEF RequestInv, Belonging
      <4>3. c \in Batches' /\ p \in Remaining(c)'
        BY <1>13, <2>0, <4>2
      <4> QED
        BY <4>1, <4>2, <4>3
    <3> QED
      BY <3>1, <3>2
  <2> QED
    BY <2>1, <2>2 DEF Belonging
<1>17. BatchesAre'
  <2>1. BatchIs(t)
    <3>1. t.current \in 1..Len(t.members) + 1 /\ t.current <= Len(t.members)
      BY <1>1, <1>3
    <3> QED
      BY <3>1 DEF BatchIs
  <2>2. BatchIs(batch[b])' /\ LastGood(batch[b])'
    BY <1>5, <1>8, <2>1 DEF BatchIs, LastGood
  <2>3. \A c \in Batches : BatchIs(batch[c])' /\ LastGood(batch[c])'
    BY <1>15 DEF BatchIs
  <2> QED
    BY <1>13, <2>2, <2>3 DEF BatchesAre
<1>18. Shaped'
  BY <1>8 DEF RequestInv, Shaped
<1>19. Sequenced'
  BY <1>12 DEF RequestInv, Sequenced, Requested, Single, ToSet
<1>20. RequestsAre'
  <2> SUFFICES ASSUME NEW o \in Paths PROVE IF Exists(o)' THEN RequestIs(req'[o], held'[o]) ELSE held'[o] = 0
    BY DEF RequestsAre, RequestIs
  <2>1. IF Exists(o) THEN RequestIs(req[o], held[o]) ELSE held[o] = 0
    BY DEF RequestInv, RequestsAre
  <2> QED
    BY <1>9, <1>12, <2>1
<1>21. Streams' \subseteq Streams /\ Pending' \subseteq Pending
  BY <1>9, <1>12 DEF Streams, Pending
<1>22. Limited'
  <2>1. /\ IsFiniteSet(Streams) /\ IsFiniteSet(Pending) /\ IsFiniteSet(Batches) /\ Cardinality(Streams) \in Nat
        /\ Cardinality(Pending) \in Nat /\ Cardinality(Batches) \in Nat
    BY FewIs DEF RequestInv
  <2>2. Cardinality(Batches') = Cardinality(Batches) + 1
    BY <1>4, <1>13, <2>1, FS_AddElement
  <2>3. Pending' \in SUBSET Pending /\ Streams' \in SUBSET Streams
    BY <1>21
  <2>4. /\ IsFiniteSet(Pending') /\ Cardinality(Pending') <= Cardinality(Pending)
        /\ IsFiniteSet(Streams') /\ Cardinality(Streams') <= Cardinality(Streams)
    BY <2>1, <2>3, FS_Subset
  <2>5. Cardinality(Pending') \in Nat /\ Cardinality(Streams') \in Nat
    BY <2>4, FS_CardinalityType
  <2>6. PendingMax \in Nat /\ ActiveMax \in Nat /\ Cardinality(Pending) <= PendingMax
    BY AssetAssumption DEF RequestInv, Limited
  <2>7. Cardinality(Pending') <= PendingMax
    BY <2>1, <2>4, <2>5, <2>6
  <2>8. Active' <= ActiveMax
    <3>1. Active' = Cardinality(Streams') + Cardinality(Batches')
      BY DEF Active
    <3>2. Cardinality(Streams) + Cardinality(Batches) < ActiveMax
      BY DEF Active
    <3> QED
      BY <2>1, <2>2, <2>4, <2>5, <2>6, <3>1, <3>2
  <2> QED
    BY <2>7, <2>8 DEF Limited
<1>23. Threads'
  <2>1. main' = main /\ (main.pc = "load" => main.path \in Paths /\ ~Exists(main.path))
    BY MainIs DEF RequestInv, Threads
  <2>2. main.pc = "load" => ~Exists(main.path)'
    BY <1>12, <2>1 DEF Exists
  <2> QED
    BY <2>1, <2>2 DEF Threads
<1> QED
  BY <1>16, <1>17, <1>18, <1>19, <1>20, <1>22, <1>23 DEF RequestInv

LEMMA OpenKeeps == ASSUME RequestInv, Open PROVE RequestInv'
<1>1. PICK first \in Queued :
            /\ first = OldestQueued
            /\ io = "open" /\ Active < ActiveMax /\ UNCHANGED <<caps, io, todo, main, order, held>>
            /\ \/ /\ req' = [req EXCEPT ![first] = [[req[first] EXCEPT !.prio = FALSE, !.isolated = FALSE]
                                                       EXCEPT !.stream = TRUE, !.trans = "send"]]
                  /\ UNCHANGED batch
               \/ /\ first \in Faces
                  /\ \E b \in Slots \ Batches :
                        /\ batch' = [batch EXCEPT ![b] =
                              [members |-> BatchOf(first), current |-> 1, trans |-> "send",
                               priority |-> req[first].prio, preempt |-> FALSE, final |-> FALSE]]
                        /\ req' = [p \in Paths |->
                              IF p \in ToSet(BatchOf(first))
                              THEN [[req[p] EXCEPT !.prio = FALSE, !.isolated = FALSE] EXCEPT !.batch = b] ELSE req[p]]
  BY OpenIs
<1>2. ASSUME first \in Faces, NEW b \in Slots \ Batches,
             batch' = [batch EXCEPT ![b] =
                [members |-> BatchOf(first), current |-> 1, trans |-> "send",
                 priority |-> req[first].prio, preempt |-> FALSE, final |-> FALSE]],
             req' = [p \in Paths |->
                IF p \in ToSet(BatchOf(first))
                THEN [[req[p] EXCEPT !.prio = FALSE, !.isolated = FALSE] EXCEPT !.batch = b] ELSE req[p]]
      PROVE  RequestInv'
  <2>1. PICK s : s = BatchOf(first)
    OBVIOUS
  <2>2. PICK M : M = ToSet(s)
    OBVIOUS
  <2>3. PICK t : t = [members |-> s, current |-> 1, trans |-> "send",
                      priority |-> req[first].prio, preempt |-> FALSE, final |-> FALSE]
    OBVIOUS
  <2>4. s \in Seq(Paths) /\ Len(s) \in 1..BatchMax /\ Single(s) /\ M \in SUBSET Queued
    BY <1>1, <1>2, <2>1, <2>2, BatchOfIs DEF RequestInv
  <2>5. req[first] \in RequestType
    BY OpenedIs
  <2>6. t \in BatchType /\ t.members = s /\ t.current = 1 /\ t.trans = "send" /\ t.final = FALSE
    <3>1. req[first].prio \in BOOLEAN
      BY <2>5 DEF RequestType
    <3> QED
      BY <2>3, <2>4, <3>1 DEF BatchType
  <2>7. batch' = [batch EXCEPT ![b] = t]
    BY <1>2, <2>1, <2>3
  <2>8. ASSUME NEW p \in M
        PROVE  /\ req'[p] \in RequestType /\ req'[p].batch = b /\ req'[p].stream = FALSE
               /\ req'[p].state = req[p].state /\ req'[p].cancelled = req[p].cancelled
               /\ RequestIs(req'[p], held[p])
    <3> DEFINE r == [[req[p] EXCEPT !.prio = FALSE, !.isolated = FALSE] EXCEPT !.batch = b]
    <3>1. /\ p \in Queued /\ p \in Paths /\ Exists(p) /\ req[p] \in RequestType /\ RequestIs(req[p], held[p])
          /\ req[p].state = "pending" /\ ~req[p].cancelled /\ ~req[p].stream /\ req[p].batch = None
          /\ ~req[p].preempt
      BY <2>4, OpenedIs
    <3>2. /\ r \in RequestType /\ r.refs = req[p].refs /\ r.state = req[p].state /\ r.trans = req[p].trans
          /\ r.stream = req[p].stream /\ r.batch = b /\ r.preempt = req[p].preempt
          /\ r.cancelled = req[p].cancelled /\ r.data = req[p].data
      BY <3>1 DEF RequestType
    <3>3. req'[p] = r
      BY <1>2, <2>1, <2>2, <3>1
    <3> HIDE DEF r
    <3>4. r.stream = FALSE
      BY <3>1, <3>2 DEF RequestType
    <3>5. RequestIs(r, held[p])
      BY <3>1, <3>2, <3>4 DEF RequestIs
    <3> QED
      BY <3>1, <3>2, <3>3, <3>4, <3>5
  <2>9. \A p \in Paths \ M : req'[p] = req[p]
    BY <1>2, <2>1, <2>2
  <2>10. req' \in [Paths -> RequestType \cup {None}]
    <3>1. req' = [p \in Paths |-> req'[p]]
      BY <1>2
    <3>2. \A p \in Paths : req'[p] \in RequestType \cup {None}
      BY <2>8, <2>9 DEF RequestInv, Shaped
    <3> QED
      BY <3>1, <3>2
  <2> QED
    BY <1>1, <2>2, <2>4, <2>6, <2>7, <2>8, <2>9, <2>10, OpenBatchKeeps
<1>3. ASSUME UNCHANGED batch,
             req' = [req EXCEPT ![first] = [[req[first] EXCEPT !.prio = FALSE, !.isolated = FALSE]
                                               EXCEPT !.stream = TRUE, !.trans = "send"]]
      PROVE  RequestInv'
  BY <1>1, <1>3, OpenStreamKeeps
<1> QED
  BY <1>1, <1>2, <1>3
\* The members that a batch has left.
LEMMA MemberIs ==
  ASSUME RequestInv, NEW b \in Batches, NEW p \in Remaining(b)
  PROVE  /\ p \in Paths /\ Exists(p) /\ p \in Requested /\ req[p].batch = b /\ b # None
         /\ req[p] \in RequestType /\ RequestIs(req[p], held[p])
         /\ req[p].stream = FALSE /\ req[p].preempt = FALSE /\ req[p].state \in {"pending", "error"}
<1>1. p \in Paths /\ Exists(p) /\ req[p].batch = b
  BY DEF RequestInv, Belonging
<1>2. b # None
  BY NotNone DEF Batches
<1>3. req[p] \in RequestType /\ RequestIs(req[p], held[p])
  BY <1>1, RequestHas DEF RequestInv, RequestsAre
<1>4. req[p].stream \in BOOLEAN /\ req[p].preempt \in BOOLEAN
  BY <1>3 DEF RequestType
<1>5. ~req[p].stream /\ ~req[p].preempt /\ req[p].state \in {"pending", "error"}
  BY <1>1, <1>2, <1>3 DEF RequestIs
<1> QED
  BY <1>1, <1>2, <1>3, <1>4, <1>5 DEF Requested

\* A batch, and its remaining members, are served.
LEMMA BatchServed ==
  ASSUME RequestInv, NEW b \in Batches, io = "serve", todo' = todo \ {b}, UNCHANGED <<caps, io, main, order, held>>,
         batch' \in [Slots -> BatchType \cup {None}], \A c \in Slots : c # b => batch'[c] = batch[c],
         req' \in [Paths -> RequestType \cup {None}], \A p \in Paths : p \notin Remaining(b) => req'[p] = req[p],
         \A p \in Remaining(b) :
            /\ req'[p] \in RequestType /\ RequestIs(req'[p], held[p]) /\ req'[p].stream = FALSE
            /\ req'[p].state = "pending" => req[p].state = "pending"
            /\ req'[p].cancelled = req[p].cancelled
            /\ req'[p].batch # None => req'[p].batch = b /\ b \in Batches' /\ p \in Remaining(b)',
         b \in Batches' =>
            /\ BatchIs(batch'[b]) /\ LastGood(batch[b])'
            /\ \A p \in Remaining(b)' : p \in Remaining(b) /\ req'[p].batch = b
  PROVE  RequestInv'
<1>1. \A p \in Remaining(b) : p \in Paths /\ Exists(p) /\ req[p].batch = b /\ req[p].stream = FALSE
  BY MemberIs
<1>2. \A p \in Paths : Exists(p)' <=> Exists(p)
  BY <1>1, NotNone DEF Exists
<1>3. Batches' \subseteq Batches /\ Batches \ {b} \subseteq Batches'
  BY DEF Batches
<1>4. ASSUME NEW c \in Batches, c # b
      PROVE  /\ c \in Batches' /\ Remaining(c)' = Remaining(c) /\ BatchIs(batch'[c]) /\ LastGood(batch[c])'
             /\ \A p \in Remaining(c) : p \in Paths /\ Exists(p)' /\ req'[p].batch = c
  <2>1. \A p \in Remaining(c) : p \in Paths /\ req[p].batch = c
    BY DEF RequestInv, Belonging
  <2>2. \A p \in Remaining(c) : req'[p] = req[p]
    BY <1>1, <1>4, <2>1
  <2>3. batch'[c] = batch[c]
    BY <1>4 DEF Batches
  <2> QED
    BY <2>2, <2>3, OtherBatch
<1>5. ASSUME NEW c \in Batches', NEW p \in Remaining(c)' PROVE p \in Paths /\ Exists(p)' /\ req'[p].batch = c
  <2>1. CASE c = b
    BY <1>1, <1>2, <1>5, <2>1
  <2>2. CASE c # b
    BY <1>3, <1>4, <1>5, <2>2
  <2> QED
    BY <2>1, <2>2
<1>6. ASSUME NEW p \in Paths, Exists(p)', req'[p].batch # None
      PROVE  \E c \in Batches' : req'[p].batch = c /\ p \in Remaining(c)'
  <2>1. CASE p \in Remaining(b)
    BY <1>6, <2>1
  <2>2. CASE p \notin Remaining(b)
    <3>1. Exists(p) /\ req'[p] = req[p]
      BY <1>2, <1>6, <2>2
    <3>2. PICK c \in Batches : req[p].batch = c /\ p \in Remaining(c)
      BY <1>6, <3>1 DEF RequestInv, Belonging
    <3>3. c # b
      BY <2>2, <3>2
    <3>4. c \in Batches' /\ p \in Remaining(c)'
      BY <1>4, <3>2, <3>3
    <3> QED
      BY <3>1, <3>2, <3>4
  <2> QED
    BY <2>1, <2>2
<1>7. Belonging'
  BY <1>5, <1>6 DEF Belonging
<1>8. BatchesAre'
  <2> SUFFICES ASSUME NEW c \in Batches' PROVE BatchIs(batch[c])' /\ LastGood(batch[c])'
    BY DEF BatchesAre
  <2>1. BatchIs(batch'[c]) /\ LastGood(batch[c])'
    BY <1>3, <1>4
  <2> QED
    BY <2>1 DEF BatchIs
<1>9. Streams' = Streams /\ Pending' \subseteq Pending
  BY <1>1, <1>2 DEF Streams, Pending
<1>10. Limited'
  BY <1>3, <1>9, LimitsKept DEF RequestInv
<1>11. Shaped'
  <2>1. todo' \subseteq Paths \cup Slots
    BY DEF RequestInv, Shaped
  <2> QED
    BY <2>1 DEF RequestInv, Shaped
<1>12. Sequenced'
  BY <1>2 DEF RequestInv, Sequenced, Requested, Single, ToSet
<1>13. RequestsAre'
  <2> SUFFICES ASSUME NEW p \in Paths PROVE IF Exists(p)' THEN RequestIs(req'[p], held'[p]) ELSE held'[p] = 0
    BY DEF RequestsAre, RequestIs
  <2>1. IF Exists(p) THEN RequestIs(req[p], held[p]) ELSE held[p] = 0
    BY DEF RequestInv, RequestsAre
  <2>2. CASE p \in Remaining(b)
    BY <1>1, <1>2, <2>2
  <2>3. CASE p \notin Remaining(b)
    BY <1>2, <2>1, <2>3
  <2> QED
    BY <2>2, <2>3
<1>14. Threads'
  <2>1. main' = main /\ (main.pc = "load" => main.path \in Paths /\ ~Exists(main.path))
    BY MainIs DEF RequestInv, Threads
  <2>2. main.pc = "load" => ~Exists(main.path)'
    BY <1>2, <2>1 DEF Exists
  <2>3. todo' \subseteq Streams' \cup Batches'
    BY <1>3, <1>9 DEF RequestInv, Threads
  <2> QED
    BY <2>1, <2>2, <2>3 DEF Threads
<1> QED
  BY <1>7, <1>8, <1>10, <1>11, <1>12, <1>13, <1>14 DEF RequestInv

\* What a member of a batch may become.
Advances(r, s) ==
    /\ s \in RequestType /\ s.refs = r.refs /\ s.cancelled = r.cancelled /\ s.preempt = r.preempt
    /\ s.stream = r.stream /\ s.batch = r.batch
    /\ s.state = "pending" => r.state = "pending"
    /\ s.state = "complete" => s.data = "good"
    /\ s.isolated => r.isolated

\* A member that leaves its batch.
IsDetached(s, d) == d = [s EXCEPT !.batch = None]

LEMMA Detached ==
  ASSUME RequestInv, NEW b \in Batches, NEW p \in Remaining(b), NEW s, Advances(req[p], s),
         NEW d, IsDetached(s, d)
  PROVE  /\ d \in RequestType /\ RequestIs(d, held[p]) /\ d.stream = FALSE
         /\ d.state = "pending" => req[p].state = "pending"
         /\ d.cancelled = req[p].cancelled /\ d.batch = None
         /\ d.isolated => req[p].isolated
<1>1. /\ req[p] \in RequestType /\ RequestIs(req[p], held[p])
      /\ req[p].stream = FALSE /\ req[p].preempt = FALSE
  BY MemberIs
<1>2. /\ s \in RequestType /\ s.refs = req[p].refs /\ s.cancelled = req[p].cancelled /\ s.preempt = FALSE
      /\ s.stream = FALSE /\ (s.state = "pending" => req[p].state = "pending")
      /\ (s.state = "complete" => s.data = "good") /\ (s.isolated => req[p].isolated)
  BY <1>1 DEF Advances
<1>3. /\ d \in RequestType /\ d.refs = s.refs /\ d.cancelled = s.cancelled /\ d.preempt = s.preempt
      /\ d.stream = s.stream /\ d.batch = None /\ d.state = s.state /\ d.data = s.data /\ d.isolated = s.isolated
  BY <1>2 DEF RequestType, IsDetached
<1>4. RequestIs(d, held[p])
  BY <1>1, <1>2, <1>3 DEF RequestIs
<1> QED
  BY <1>2, <1>3, <1>4

\* The whole batch is gone.
LEMMA GoneKeeps ==
  ASSUME RequestInv, NEW b \in Batches, io = "serve", todo' = todo \ {b}, UNCHANGED <<caps, io, main, order, held>>,
         NEW left, \A p \in Remaining(b) : Advances(req[p], left[p]), BatchGone(b, left)
  PROVE  RequestInv' /\ Isolated' \subseteq Isolated /\ \A p \in Queued : req'[p] = req[p]
<1>1. /\ req' = [p \in Paths |-> IF p \in Remaining(b) THEN [left[p] EXCEPT !.batch = None] ELSE req[p]]
      /\ batch' = [batch EXCEPT ![b] = None]
  BY DEF BatchGone
<1>2. \A p \in Remaining(b) : p \in Paths /\ Exists(p) /\ req[p].batch # None
  BY MemberIs
<1>3. ASSUME NEW p \in Remaining(b)
      PROVE  /\ req'[p] \in RequestType /\ RequestIs(req'[p], held[p]) /\ req'[p].stream = FALSE
             /\ req'[p].state = "pending" => req[p].state = "pending"
             /\ req'[p].cancelled = req[p].cancelled /\ req'[p].batch = None
             /\ req'[p].isolated => req[p].isolated
  <2>1. IsDetached(left[p], req'[p])
    BY <1>1, <1>2 DEF IsDetached
  <2>2. Advances(req[p], left[p])
    OBVIOUS
  <2> QED
    BY <2>1, <2>2, Detached
<1>4. \A p \in Paths : p \notin Remaining(b) => req'[p] = req[p]
  BY <1>1
<1>5. req' \in [Paths -> RequestType \cup {None}]
  <2>1. req' = [p \in Paths |-> req'[p]]
    BY <1>1
  <2>2. \A p \in Paths : req'[p] \in RequestType \cup {None}
    BY <1>3, <1>4 DEF RequestInv, Shaped
  <2> QED
    BY <2>1, <2>2
<1>6. b \in Slots /\ batch \in [Slots -> BatchType \cup {None}]
  BY DEF Batches, RequestInv, Shaped
<1>7. /\ batch' \in [Slots -> BatchType \cup {None}] /\ batch'[b] = None
      /\ \A c \in Slots : c # b => batch'[c] = batch[c]
  BY <1>1, <1>6
<1>8. b \notin Batches'
  BY <1>7 DEF Batches
<1>9. RequestInv'
  BY <1>3, <1>4, <1>5, <1>7, <1>8, BatchServed
<1>10. Isolated' \subseteq Isolated
  BY <1>2, <1>3, <1>4 DEF Isolated, Exists
<1>11. \A p \in Queued : req'[p] = req[p]
  BY <1>2, <1>4 DEF Queued, Pending
<1> QED
  BY <1>9, <1>10, <1>11

LEMMA EndedBecomes ==
  ASSUME NEW r \in RequestType, r.stream = FALSE PROVE Advances(r, Ended(r, "error")) /\ (r.state # "complete" => Advances(r, r))
<1>1. Advances(r, Ended(r, "error"))
  BY EndedIs DEF Advances
<1>2. r.state # "complete" => Advances(r, r)
  BY DEF Advances
<1> QED
  BY <1>1, <1>2
\* Where a batch is.
LEMMA CurrentIs ==
  ASSUME RequestInv, NEW b \in Batches, NEW t, t = batch[b]
  PROVE  /\ b \in Slots /\ t \in BatchType /\ t.members \in Seq(Paths) /\ t.current \in Nat /\ Len(t.members) \in Nat
         /\ DOMAIN t.members = 1..Len(t.members) /\ BatchIs(t) /\ t.current \in 1..Len(t.members) + 1
         /\ Remaining(b) = {t.members[i] : i \in t.current..Len(t.members)}
         /\ t.trans # "fin" => t.current <= Len(t.members) /\ ~t.final
         /\ t.current <= Len(t.members) => t.members[t.current] \in Remaining(b)
         /\ \A i, j \in t.current..Len(t.members) : t.members[i] = t.members[j] => i = j
<1>1. /\ b \in Slots /\ t \in BatchType /\ t.members \in Seq(Paths) /\ t.current \in Nat /\ Len(t.members) \in Nat
      /\ DOMAIN t.members = 1..Len(t.members)
  BY BatchHas DEF RequestInv
<1>2. BatchIs(t)
  BY DEF RequestInv, BatchesAre
<1>3. Remaining(b) = {t.members[i] : i \in t.current..Len(t.members)}
  BY DEF Remaining
<1>4. t.current \in 1..Len(t.members) + 1 /\ (t.trans # "fin" => t.current <= Len(t.members) /\ ~t.final) /\ Single(t.members)
  <2>1. IF t.trans = "fin" THEN t.current >= Len(t.members) ELSE t.current <= Len(t.members) /\ ~t.final
    BY <1>2 DEF BatchIs
  <2>2. t.current \in 1..Len(t.members) + 1 /\ Single(t.members)
    BY <1>2 DEF BatchIs
  <2> QED
    BY <2>1, <2>2
<1>5. t.current <= Len(t.members) => t.current \in t.current..Len(t.members)
  BY <1>1
<1>6. t.current <= Len(t.members) => t.members[t.current] \in Remaining(b)
  BY <1>3, <1>5
<1>7. \A i, j \in t.current..Len(t.members) : t.members[i] = t.members[j] => i = j
  <2>1. t.current..Len(t.members) \subseteq 1..Len(t.members)
    BY <1>1, <1>4
  <2> QED
    BY <1>1, <1>4, <2>1 DEF Single
<1> QED
  BY <1>1, <1>2, <1>3, <1>4, <1>6, <1>7

\* A member has been received, and the batch goes on with the next one.
LEMMA AdvanceKeeps ==
  ASSUME RequestInv, NEW b \in Batches, io = "serve", todo' = todo \ {b}, UNCHANGED <<caps, io, main, order, held>>,
         batch[b].trans # "fin",
         NEW r, Advances(req[batch[b].members[batch[b].current]], r), Advance(b, r)
  PROVE  RequestInv' /\ Isolated' \subseteq Isolated /\ \A p \in Queued : req'[p] = req[p]
<1>1. PICK t : t = batch[b]
  OBVIOUS
<1>2. PICK p : p = t.members[t.current]
  OBVIOUS
<1>3. /\ b \in Slots /\ t \in BatchType /\ t.members \in Seq(Paths) /\ t.current \in Nat /\ Len(t.members) \in Nat
      /\ DOMAIN t.members = 1..Len(t.members) /\ BatchIs(t) /\ t.current \in 1..Len(t.members) + 1
      /\ Remaining(b) = {t.members[i] : i \in t.current..Len(t.members)}
      /\ t.current <= Len(t.members) /\ ~t.final /\ t.trans # "fin"
      /\ p \in Remaining(b)
      /\ \A i, j \in t.current..Len(t.members) : t.members[i] = t.members[j] => i = j
  <2>1. /\ b \in Slots /\ t \in BatchType /\ t.members \in Seq(Paths) /\ t.current \in Nat /\ Len(t.members) \in Nat
        /\ DOMAIN t.members = 1..Len(t.members) /\ BatchIs(t) /\ t.current \in 1..Len(t.members) + 1
        /\ Remaining(b) = {t.members[i] : i \in t.current..Len(t.members)}
        /\ t.trans # "fin" => t.current <= Len(t.members) /\ ~t.final
        /\ t.current <= Len(t.members) => t.members[t.current] \in Remaining(b)
        /\ \A i, j \in t.current..Len(t.members) : t.members[i] = t.members[j] => i = j
    BY <1>1, CurrentIs
  <2>2. t.trans # "fin"
    BY <1>1
  <2> QED
    BY <1>2, <2>1, <2>2
<1>4. PICK d : IsDetached(r, d)
  BY DEF IsDetached
<1>5. /\ d \in RequestType /\ RequestIs(d, held[p]) /\ d.stream = FALSE
      /\ d.state = "pending" => req[p].state = "pending"
      /\ d.cancelled = req[p].cancelled /\ d.batch = None
      /\ d.isolated => req[p].isolated
  <2>1. Advances(req[p], r)
    BY <1>1, <1>2
  <2>2. p \in Remaining(b)
    BY <1>3
  <2> QED
    BY <1>4, <2>1, <2>2, Detached
<1> DEFINE goes == IF t.current = Len(t.members) THEN "fin" ELSE "header"
           u == [t EXCEPT !.current = t.current + 1, !.trans = goes]
<1>6. batch \in [Slots -> BatchType \cup {None}] /\ req \in [Paths -> RequestType \cup {None}]
  BY DEF RequestInv, Shaped
<1>7. req' = [req EXCEPT ![p] = d] /\ batch' = [batch EXCEPT ![b] = u]
  <2>1. req' = [req EXCEPT ![p] = d]
    BY <1>1, <1>2, <1>4 DEF Advance, IsDetached
  <2>2. batch' = [batch EXCEPT ![b].current = @ + 1,
                               ![b].trans = IF t.current = Len(t.members) THEN "fin" ELSE "header"]
    BY <1>1 DEF Advance
  <2>3. batch' = [batch EXCEPT ![b] = u]
    BY <1>1, <1>3, <1>6, <2>2
  <2> QED
    BY <2>1, <2>3
<1>8. /\ u \in BatchType /\ u.members = t.members /\ u.current = t.current + 1 /\ u.trans = goes /\ u.final = t.final
  <2>1. t.current + 1 \in Nat /\ goes \in {"send", "header", "body", "fin"}
    BY <1>3
  <2> HIDE DEF goes
  <2> QED
    BY <1>3, <2>1 DEF BatchType
<1> HIDE DEF u
<1>9. /\ batch' \in [Slots -> BatchType \cup {None}] /\ batch'[b] = u /\ \A c \in Slots : c # b => batch'[c] = batch[c]
  BY <1>3, <1>6, <1>7, <1>8
<1>10. p \in Paths /\ Exists(p) /\ req[p].batch # None /\ \A o \in Remaining(b) : o \in Paths /\ Exists(o)
       /\ req[o].batch = b /\ req[o] \in RequestType /\ RequestIs(req[o], held[o]) /\ req[o].stream = FALSE
  BY <1>3, MemberIs
<1>11. /\ req' \in [Paths -> RequestType \cup {None}] /\ req'[p] = d
       /\ \A o \in Paths : o # p => req'[o] = req[o]
  BY <1>5, <1>6, <1>7, <1>10
<1>12. BatchIs(u)
  <2>1. t.current + 1 \in 1..Len(t.members) + 1
    BY <1>3
  <2>2. goes = "fin" => t.current + 1 >= Len(t.members)
    BY <1>3
  <2>3. goes # "fin" => t.current + 1 <= Len(t.members)
    BY <1>3
  <2> HIDE DEF goes
  <2> QED
    BY <1>3, <1>8, <2>1, <2>2, <2>3 DEF BatchIs
<1>13. LastGood(batch[b])'
  BY <1>3, <1>8, <1>9 DEF LastGood
<1>14. Remaining(b)' = Remaining(b) \ {p}
  <2>1. Remaining(b)' = {batch'[b].members[i] : i \in batch'[b].current..Len(batch'[b].members)}
    BY DEF Remaining
  <2>2. Remaining(b)' = {t.members[i] : i \in t.current + 1..Len(t.members)}
    BY <1>8, <1>9, <2>1
  <2>3. \A i : i \in t.current + 1..Len(t.members) <=> i \in t.current..Len(t.members) /\ i # t.current
    BY <1>3
  <2>4. t.current \in t.current..Len(t.members)
    BY <1>3
  <2>5. \A i \in t.current..Len(t.members) : t.members[i] = p <=> i = t.current
    BY <1>2, <1>3, <2>4
  <2> HIDE DEF goes
  <2>6. ASSUME NEW o \in Remaining(b) \ {p} PROVE o \in Remaining(b)'
    <3>1. PICK i \in t.current..Len(t.members) : o = t.members[i]
      BY <1>3
    <3>2. i \in t.current + 1..Len(t.members)
      BY <2>3, <2>5, <3>1
    <3> QED
      BY <2>2, <3>1, <3>2
  <2>7. ASSUME NEW o \in Remaining(b)' PROVE o \in Remaining(b) \ {p}
    <3>1. PICK i \in t.current + 1..Len(t.members) : o = t.members[i]
      BY <2>2
    <3>2. i \in t.current..Len(t.members) /\ i # t.current
      BY <2>3
    <3> QED
      BY <1>3, <2>5, <3>1, <3>2
  <2> QED
    BY <2>6, <2>7
<1>15. b \in Batches'
  BY <1>3, <1>8, <1>9, NotNone DEF Batches
<1>16. RequestInv'
  <2>1. \A o \in Remaining(b) :
            /\ req'[o] \in RequestType /\ RequestIs(req'[o], held[o]) /\ req'[o].stream = FALSE
            /\ req'[o].state = "pending" => req[o].state = "pending"
            /\ req'[o].cancelled = req[o].cancelled
            /\ req'[o].batch # None => req'[o].batch = b /\ b \in Batches' /\ o \in Remaining(b)'
    <3> SUFFICES ASSUME NEW o \in Remaining(b)
                 PROVE  /\ req'[o] \in RequestType /\ RequestIs(req'[o], held[o]) /\ req'[o].stream = FALSE
                        /\ req'[o].state = "pending" => req[o].state = "pending"
                        /\ req'[o].cancelled = req[o].cancelled
                        /\ req'[o].batch # None => req'[o].batch = b /\ b \in Batches' /\ o \in Remaining(b)'
      OBVIOUS
    <3>1. CASE o = p
      BY <1>5, <1>11, <3>1
    <3>2. CASE o # p
      BY <1>10, <1>11, <1>14, <1>15, <3>2
    <3> QED
      BY <3>1, <3>2
  <2>2. \A o \in Paths : o \notin Remaining(b) => req'[o] = req[o]
    BY <1>3, <1>11
  <2>3. BatchIs(batch'[b]) /\ \A o \in Remaining(b)' : o \in Remaining(b) /\ req'[o].batch = b
    BY <1>9, <1>10, <1>11, <1>12, <1>14
  <2> QED
    BY <1>9, <1>11, <1>13, <2>1, <2>2, <2>3, BatchServed
<1>17. Isolated' \subseteq Isolated
  BY <1>5, <1>10, <1>11 DEF Isolated, Exists
<1>18. \A o \in Queued : req'[o] = req[o]
  BY <1>10, <1>11 DEF Queued, Pending
<1> QED
  BY <1>16, <1>17, <1>18

\* The batch itself goes on, and one member may be settled but keeps it.
LEMMA GoesOn ==
  ASSUME RequestInv, NEW b \in Batches, io = "serve", todo' = todo \ {b}, UNCHANGED <<caps, io, main, order, held>>,
         batch[b].current <= Len(batch[b].members),
         NEW p, p = batch[b].members[batch[b].current], NEW r, Advances(req[p], r), r.state \in {"pending", "error"}, req' = [req EXCEPT ![p] = r],
         NEW u \in BatchType, u.members = batch[b].members, u.current = batch[b].current,
         IF u.trans = "fin" THEN u.current = Len(u.members) /\ (u.final => r.cancelled \/ r.data = "good") ELSE ~u.final,
         batch' = [batch EXCEPT ![b] = u]
  PROVE  RequestInv' /\ Isolated' \subseteq Isolated /\ \A o \in Queued : req'[o] = req[o]
<1>1. PICK t : t = batch[b]
  OBVIOUS
<1>3. /\ b \in Slots /\ t \in BatchType /\ t.members \in Seq(Paths) /\ t.current \in Nat /\ Len(t.members) \in Nat
      /\ DOMAIN t.members = 1..Len(t.members) /\ BatchIs(t) /\ t.current \in 1..Len(t.members) + 1
      /\ Remaining(b) = {t.members[i] : i \in t.current..Len(t.members)}
      /\ t.current <= Len(t.members)
      /\ p \in Remaining(b)
  BY <1>1, CurrentIs
<1>6. batch \in [Slots -> BatchType \cup {None}] /\ req \in [Paths -> RequestType \cup {None}]
  BY DEF RequestInv, Shaped
<1>9. /\ batch' \in [Slots -> BatchType \cup {None}] /\ batch'[b] = u /\ \A c \in Slots : c # b => batch'[c] = batch[c]
  BY <1>3, <1>6
<1>10. /\ p \in Paths /\ Exists(p) /\ p \in Requested /\ req[p].batch = b /\ b # None
       /\ req[p] \in RequestType /\ RequestIs(req[p], held[p])
       /\ req[p].stream = FALSE /\ req[p].preempt = FALSE /\ req[p].state \in {"pending", "error"}
  <2>1. p \in Remaining(b)
    BY <1>3
  <2> QED
    BY <2>1, MemberIs
<1>11. \A o \in Remaining(b) : o \in Paths /\ Exists(o)
       /\ req[o].batch = b /\ req[o] \in RequestType /\ RequestIs(req[o], held[o]) /\ req[o].stream = FALSE
  BY MemberIs
<1>12. /\ r \in RequestType /\ r.refs = req[p].refs /\ r.cancelled = req[p].cancelled /\ r.preempt = FALSE
       /\ r.stream = FALSE /\ r.batch = b /\ (r.state = "pending" => req[p].state = "pending")
       /\ (r.state = "complete" => r.data = "good") /\ (r.isolated => req[p].isolated)
  BY <1>10 DEF Advances
<1>13. RequestIs(r, held[p])
  BY <1>10, <1>12 DEF RequestIs
<1>14. /\ req' \in [Paths -> RequestType \cup {None}] /\ req'[p] = r
       /\ \A o \in Paths : o # p => req'[o] = req[o]
  BY <1>6, <1>10, <1>12
<1>15. Remaining(b)' = Remaining(b)
  <2>1. Remaining(b)' = {batch'[b].members[i] : i \in batch'[b].current..Len(batch'[b].members)}
    BY DEF Remaining
  <2> QED
    BY <1>1, <1>3, <1>9, <2>1
<1>16. b \in Batches'
  BY <1>3, <1>9, NotNone DEF Batches
<1>17. BatchIs(u) /\ LastGood(batch[b])'
  <2>1. BatchIs(u)
    BY <1>1, <1>3 DEF BatchIs
  <2>2. batch'[b].final /\ batch'[b].current = Len(batch'[b].members) =>
           req'[batch'[b].members[batch'[b].current]].cancelled \/ req'[batch'[b].members[batch'[b].current]].data = "good"
    BY <1>9, <1>14
  <2> QED
    BY <2>1, <2>2 DEF LastGood
<1>18. RequestInv'
  <2>1. \A o \in Remaining(b) :
            /\ req'[o] \in RequestType /\ RequestIs(req'[o], held[o]) /\ req'[o].stream = FALSE
            /\ req'[o].state = "pending" => req[o].state = "pending"
            /\ req'[o].cancelled = req[o].cancelled
            /\ req'[o].batch # None => req'[o].batch = b /\ b \in Batches' /\ o \in Remaining(b)'
    <3> SUFFICES ASSUME NEW o \in Remaining(b)
                 PROVE  /\ req'[o] \in RequestType /\ RequestIs(req'[o], held[o]) /\ req'[o].stream = FALSE
                        /\ req'[o].state = "pending" => req[o].state = "pending"
                        /\ req'[o].cancelled = req[o].cancelled
                        /\ req'[o].batch # None => req'[o].batch = b /\ b \in Batches' /\ o \in Remaining(b)'
      OBVIOUS
    <3>1. CASE o = p
      BY <1>12, <1>13, <1>14, <1>15, <1>16, <3>1
    <3>2. CASE o # p
      BY <1>11, <1>14, <1>15, <1>16, <3>2
    <3> QED
      BY <3>1, <3>2
  <2>2. \A o \in Paths : o \notin Remaining(b) => req'[o] = req[o]
    BY <1>3, <1>14
  <2>3. BatchIs(batch'[b]) /\ \A o \in Remaining(b)' : o \in Remaining(b) /\ req'[o].batch = b
    <3>1. BatchIs(batch'[b])
      BY <1>9, <1>17
    <3>2. ASSUME NEW o \in Remaining(b) PROVE req'[o].batch = b
      <4>1. o \in Paths /\ req[o].batch = b
        BY <1>11
      <4> QED
        BY <1>12, <1>14, <4>1
    <3> QED
      BY <1>15, <3>1, <3>2
  <2> QED
    <3>1. /\ batch' \in [Slots -> BatchType \cup {None}] /\ \A c \in Slots : c # b => batch'[c] = batch[c]
          /\ req' \in [Paths -> RequestType \cup {None}] /\ LastGood(batch[b])'
      BY <1>9, <1>14, <1>17
    <3> QED
      BY <2>1, <2>2, <2>3, <3>1, BatchServed
<1>19. Isolated' \subseteq Isolated
  BY <1>10, <1>12, <1>14 DEF Isolated, Exists
<1>20. \A o \in Queued : req'[o] = req[o]
  BY <1>10, <1>14 DEF Queued, Pending
<1> QED
  BY <1>18, <1>19, <1>20
LEMMA ServeBatchIs ==
  ASSUME RequestInv, NEW b \in Slots, ServeBatch(b)
  PROVE  /\ b \in Batches /\ io = "serve" /\ todo' = todo \ {b} /\ UNCHANGED <<caps, io, main, order, held>>
         /\ BatchGone(b, req) \/ BatchProceeds(b) \/ BatchFails(b)
<1>1. /\ io = "serve" /\ todo # {} /\ b = Turn /\ todo' = todo \ {b} /\ UNCHANGED <<caps, io, main, order, held>>
      /\ BatchGone(b, req) \/ BatchProceeds(b) \/ BatchFails(b)
  BY DEF ServeBatch
<1>2. b \in Batches
  BY <1>1, TurnIs
<1> QED
  BY <1>1, <1>2

LEMMA UnobservedKeeps ==
  ASSUME RequestInv, NEW b \in Batches, io = "serve", todo' = todo \ {b}, UNCHANGED <<caps, io, main, order, held>>,
         BatchGone(b, req)
  PROVE  RequestInv' /\ Isolated' \subseteq Isolated /\ \A p \in Queued : req'[p] = req[p]
<1>1. \A p \in Remaining(b) : Advances(req[p], req[p])
  BY MemberIs, EndedBecomes
<1> QED
  BY <1>1, GoneKeeps

LEMMA FailsKeeps ==
  ASSUME RequestInv, NEW b \in Batches, io = "serve", todo' = todo \ {b}, UNCHANGED <<caps, io, main, order, held>>,
         BatchFails(b)
  PROVE  RequestInv' /\ Isolated' \subseteq Isolated /\ \A p \in Queued : req'[p] = req[p]
<1>1. PICK left : left = [p \in Remaining(b) |-> IF req[p].state = "pending" THEN Ended(req[p], "error") ELSE req[p]]
  OBVIOUS
<1>2. BatchGone(b, left)
  BY <1>1 DEF BatchFails
<1>3. ASSUME NEW p \in Remaining(b) PROVE Advances(req[p], left[p])
  <2>1. req[p] \in RequestType /\ req[p].stream = FALSE /\ req[p].state \in {"pending", "error"}
    BY MemberIs
  <2>2. Advances(req[p], Ended(req[p], "error")) /\ Advances(req[p], req[p])
    BY <2>1, EndedBecomes
  <2>3. left[p] = IF req[p].state = "pending" THEN Ended(req[p], "error") ELSE req[p]
    BY <1>1
  <2> QED
    BY <2>2, <2>3
<1> QED
  BY <1>2, <1>3, GoneKeeps

LEMMA EndsKeeps ==
  ASSUME RequestInv, NEW b \in Batches, io = "serve", todo' = todo \ {b}, UNCHANGED <<caps, io, main, order, held>>,
         batch[b].trans = "fin", BatchEnds(b)
  PROVE  RequestInv' /\ Isolated' \subseteq Isolated /\ \A p \in Queued : req'[p] = req[p]
<1>1. PICK left : left = [p \in Remaining(b) |->
                            IF ~req[p].cancelled /\ batch[b].final THEN [req[p] EXCEPT !.state = "complete"] ELSE req[p]]
  OBVIOUS
<1>2. BatchGone(b, left)
  BY <1>1 DEF BatchEnds
<1>3. PICK t : t = batch[b]
  OBVIOUS
<1>4. /\ t.current \in Nat /\ Len(t.members) \in Nat /\ BatchIs(t)
      /\ Remaining(b) = {t.members[i] : i \in t.current..Len(t.members)}
  BY <1>3, CurrentIs
<1>5. t.current >= Len(t.members)
  BY <1>3, <1>4 DEF BatchIs
<1>6. ASSUME NEW p \in Remaining(b) PROVE t.current = Len(t.members) /\ p = t.members[t.current]
  <2>1. PICK i \in t.current..Len(t.members) : p = t.members[i]
    BY <1>4
  <2>2. i = t.current /\ t.current = Len(t.members)
    BY <1>4, <1>5
  <2> QED
    BY <2>1, <2>2
<1>7. ASSUME NEW p \in Remaining(b) PROVE Advances(req[p], left[p])
  <2>1. req[p] \in RequestType /\ req[p].stream = FALSE /\ req[p].state \in {"pending", "error"}
    BY MemberIs
  <2>2. Advances(req[p], req[p])
    BY <2>1, EndedBecomes
  <2>3. left[p] = IF ~req[p].cancelled /\ t.final THEN [req[p] EXCEPT !.state = "complete"] ELSE req[p]
    BY <1>1, <1>3
  <2>4. LastGood(t)
    BY <1>3 DEF RequestInv, BatchesAre
  <2>5. CASE ~req[p].cancelled /\ t.final
    <3>1. req[p].data = "good"
      BY <1>6, <2>4, <2>5 DEF LastGood
    <3>2. left[p] = [req[p] EXCEPT !.state = "complete"]
      BY <2>3, <2>5
    <3> QED
      BY <2>1, <3>1, <3>2 DEF Advances, RequestType
  <2>6. CASE ~(~req[p].cancelled /\ t.final)
    BY <2>2, <2>3, <2>6
  <2> QED
    BY <2>5, <2>6
<1> QED
  BY <1>2, <1>7, GoneKeeps

\* What a member becomes when its body has been read.
LEMMA SettledIs ==
  ASSUME NEW r \in RequestType, r.stream = FALSE, r.state \in {"pending", "error"}
  PROVE  /\ Advances(r, r) /\ Advances(r, [r EXCEPT !.state = "error"])
         /\ Advances(r, [r EXCEPT !.state = "error", !.data = "none"])
         /\ Advances(r, [r EXCEPT !.data = "good"]) /\ Advances(r, [r EXCEPT !.state = "complete", !.data = "good"])
         /\ [r EXCEPT !.state = "error", !.data = "none"].state = "error"
         /\ [r EXCEPT !.data = "good"].state = r.state /\ [r EXCEPT !.data = "good"].data = "good"
<1>1. Advances(r, r)
  BY DEF Advances
<1>2. Advances(r, [r EXCEPT !.state = "error"])
  BY DEF Advances, RequestType
<1>3. Advances(r, [r EXCEPT !.state = "error", !.data = "none"]) /\ [r EXCEPT !.state = "error", !.data = "none"].state = "error"
  BY DEF Advances, RequestType
<1>4. /\ Advances(r, [r EXCEPT !.data = "good"]) /\ [r EXCEPT !.data = "good"].state = r.state
      /\ [r EXCEPT !.data = "good"].data = "good"
  BY DEF Advances, RequestType
<1>5. Advances(r, [r EXCEPT !.state = "complete", !.data = "good"])
  BY DEF Advances, RequestType
<1> QED
  BY <1>1, <1>2, <1>3, <1>4, <1>5

\* A batch whose records go on without a change to a request.
LEMMA RecordsKeep ==
  ASSUME RequestInv, NEW b \in Batches, io = "serve", todo' = todo \ {b}, UNCHANGED <<caps, io, main, order, held>>,
         batch[b].trans # "fin", NEW trans \in {"header", "body"}, batch' = [batch EXCEPT ![b].trans = trans], UNCHANGED req
  PROVE  RequestInv' /\ Isolated' \subseteq Isolated /\ \A p \in Queued : req'[p] = req[p]
<1>1. PICK t : t = batch[b]
  OBVIOUS
<1>2. PICK p : p = t.members[t.current]
  OBVIOUS
<1>3. /\ b \in Slots /\ t \in BatchType /\ t.current <= Len(t.members) /\ ~t.final /\ p \in Remaining(b)
  BY <1>1, <1>2, CurrentIs
<1>4. batch \in [Slots -> BatchType \cup {None}] /\ req \in [Paths -> RequestType \cup {None}]
  BY DEF RequestInv, Shaped
<1>5. /\ p \in Paths /\ req[p] \in RequestType /\ req[p].stream = FALSE /\ req[p].state \in {"pending", "error"}
  BY <1>3, MemberIs
<1>6. Advances(req[p], req[p]) /\ req' = [req EXCEPT ![p] = req[p]]
  BY <1>4, <1>5, SettledIs
<1>7. PICK u : u = [t EXCEPT !.trans = trans]
  OBVIOUS
<1>8. u \in BatchType /\ u.members = t.members /\ u.current = t.current /\ u.trans = trans /\ u.final = t.final
  BY <1>3, <1>7 DEF BatchType
<1>9. batch' = [batch EXCEPT ![b] = u]
  BY <1>1, <1>3, <1>4, <1>7
<1>10. batch[b].current <= Len(batch[b].members) /\ p = batch[b].members[batch[b].current]
       /\ u.members = batch[b].members /\ u.current = batch[b].current /\ u.trans # "fin" /\ ~u.final
  BY <1>1, <1>2, <1>3, <1>8
<1> QED
  BY <1>5, <1>6, <1>8, <1>9, <1>10, GoesOn

LEMMA MemberFinishedKeeps ==
  ASSUME RequestInv, NEW b \in Batches, io = "serve", todo' = todo \ {b}, UNCHANGED <<caps, io, main, order, held>>,
         batch[b].trans = "body", NEW valid \in BOOLEAN, MemberFinished(b, valid)
  PROVE  RequestInv' /\ Isolated' \subseteq Isolated /\ \A p \in Queued : req'[p] = req[p]
<1>1. PICK t : t = batch[b]
  OBVIOUS
<1>2. PICK p : p = t.members[t.current]
  OBVIOUS
<1>3. /\ b \in Slots /\ t \in BatchType /\ t.current <= Len(t.members) /\ ~t.final /\ p \in Remaining(b)
  BY <1>1, <1>2, CurrentIs
<1>4. batch \in [Slots -> BatchType \cup {None}] /\ req \in [Paths -> RequestType \cup {None}]
  BY DEF RequestInv, Shaped
<1>5. /\ p \in Paths /\ req[p] \in RequestType /\ req[p].stream = FALSE /\ req[p].state \in {"pending", "error"}
      /\ req[p].cancelled \in BOOLEAN
  <2>1. /\ p \in Paths /\ req[p] \in RequestType /\ req[p].stream = FALSE /\ req[p].state \in {"pending", "error"}
    BY <1>3, MemberIs
  <2> QED
    BY <2>1 DEF RequestType
<1>6. /\ Advances(req[p], req[p]) /\ Advances(req[p], [req[p] EXCEPT !.state = "error", !.data = "none"])
      /\ Advances(req[p], [req[p] EXCEPT !.data = "good"])
      /\ Advances(req[p], [req[p] EXCEPT !.state = "complete", !.data = "good"])
      /\ [req[p] EXCEPT !.state = "error", !.data = "none"].state = "error"
      /\ [req[p] EXCEPT !.data = "good"].state = req[p].state /\ [req[p] EXCEPT !.data = "good"].data = "good"
  BY <1>5, SettledIs
<1>7. PICK s : s = IF req[p].cancelled THEN req[p]
                   ELSE IF ~valid THEN [req[p] EXCEPT !.state = "error", !.data = "none"]
                   ELSE IF FinalMember(b) THEN [req[p] EXCEPT !.data = "good"]
                   ELSE [req[p] EXCEPT !.state = "complete", !.data = "good"]
  OBVIOUS
<1>8. /\ Advances(req[p], s)
      /\ FinalMember(b) => s.state \in {"pending", "error"}
      /\ FinalMember(b) /\ valid /\ ~req[p].cancelled => s.data = "good"
  <2>1. CASE req[p].cancelled
    BY <1>5, <1>6, <1>7, <2>1
  <2>2. CASE ~req[p].cancelled /\ ~valid
    BY <1>5, <1>6, <1>7, <2>2
  <2>3. CASE ~req[p].cancelled /\ valid /\ FinalMember(b)
    BY <1>5, <1>6, <1>7, <2>3
  <2>4. CASE ~req[p].cancelled /\ valid /\ ~FinalMember(b)
    BY <1>5, <1>6, <1>7, <2>4
  <2> QED
    BY <2>1, <2>2, <2>3, <2>4
<1>9. IF FinalMember(b)
      THEN /\ req' = [req EXCEPT ![p] = s]
           /\ batch' = [batch EXCEPT ![b].trans = "fin", ![b].final = valid /\ ~req[p].cancelled]
      ELSE Advance(b, s)
  BY <1>1, <1>2, <1>7 DEF MemberFinished, FinalMember
<1>10. CASE FinalMember(b)
  <2> DEFINE f == valid /\ ~req[p].cancelled
  <2>1. PICK g \in BOOLEAN : g <=> f
    <3>1. f \in BOOLEAN
      OBVIOUS
    <3> QED
      BY <3>1
  <2>2. PICK u : u = [t EXCEPT !.trans = "fin", !.final = g]
    OBVIOUS
  <2>3. u \in BatchType /\ u.members = t.members /\ u.current = t.current /\ u.trans = "fin" /\ u.final = g
    BY <1>3, <2>2 DEF BatchType
  <2>4. batch' = [batch EXCEPT ![b] = u]
    <3>1. g = f
      BY <2>1
    <3> QED
      BY <1>1, <1>3, <1>4, <1>9, <1>10, <2>2, <3>1
  <2>5. batch[b].current <= Len(batch[b].members) /\ p = batch[b].members[batch[b].current]
        /\ u.members = batch[b].members /\ u.current = batch[b].current /\ u.current = Len(u.members)
    BY <1>1, <1>2, <1>3, <1>10, <2>3 DEF FinalMember
  <2>6. u.final => s.cancelled \/ s.data = "good"
    BY <1>8, <1>10, <2>1, <2>3
  <2>7. req' = [req EXCEPT ![p] = s] /\ s.state \in {"pending", "error"}
    BY <1>8, <1>9, <1>10
  <2> HIDE DEF f
  <2> QED
    BY <1>8, <2>3, <2>4, <2>5, <2>6, <2>7, GoesOn
<1>11. CASE ~FinalMember(b)
  <2>1. Advances(req[batch[b].members[batch[b].current]], s) /\ Advance(b, s) /\ batch[b].trans # "fin"
    BY <1>1, <1>2, <1>8, <1>9, <1>11
  <2> QED
    BY <2>1, AdvanceKeeps
<1> QED
  BY <1>10, <1>11

LEMMA ProceedsKeeps ==
  ASSUME RequestInv, NEW b \in Batches, io = "serve", todo' = todo \ {b}, UNCHANGED <<caps, io, main, order, held>>,
         BatchProceeds(b)
  PROVE  RequestInv' /\ Isolated' \subseteq Isolated /\ \A p \in Queued : req'[p] = req[p]
<1>1. CASE batch[b].trans = "send" /\ batch' = [batch EXCEPT ![b].trans = "header"] /\ UNCHANGED req
  BY <1>1, RecordsKeep
<1>2. CASE batch[b].trans = "header" /\ batch' = [batch EXCEPT ![b].trans = "body"] /\ UNCHANGED req
  BY <1>2, RecordsKeep
<1>3. PICK p : p = batch[b].members[batch[b].current]
  OBVIOUS
<1>4. CASE /\ batch[b].trans = "header"
           /\ Advance(b, IF req[p].cancelled THEN req[p] ELSE [req[p] EXCEPT !.state = "error"])
  <2>1. p \in Remaining(b)
    BY <1>3, <1>4, CurrentIs
  <2>2. req[p] \in RequestType /\ req[p].stream = FALSE /\ req[p].state \in {"pending", "error"}
    BY <2>1, MemberIs
  <2>3. PICK s : s = IF req[p].cancelled THEN req[p] ELSE [req[p] EXCEPT !.state = "error"]
    OBVIOUS
  <2>4. Advances(req[p], req[p]) /\ Advances(req[p], [req[p] EXCEPT !.state = "error"])
    BY <2>2, SettledIs
  <2>5. Advances(req[p], s)
    BY <2>3, <2>4
  <2>6. Advances(req[batch[b].members[batch[b].current]], s) /\ Advance(b, s) /\ batch[b].trans # "fin"
    BY <1>3, <1>4, <2>3, <2>5
  <2> QED
    BY <2>6, AdvanceKeeps
<1>5. ASSUME batch[b].trans = "body", NEW valid \in BOOLEAN, MemberFinished(b, valid)
      PROVE  RequestInv' /\ Isolated' \subseteq Isolated /\ \A o \in Queued : req'[o] = req[o]
  BY <1>5, MemberFinishedKeeps
<1>6. CASE batch[b].trans = "fin" /\ BatchEnds(b)
  BY <1>6, EndsKeeps
<1> QED
  BY <1>1, <1>2, <1>3, <1>4, <1>5, <1>6 DEF BatchProceeds

LEMMA ServeBatchKeeps ==
  ASSUME RequestInv, NEW b \in Slots, ServeBatch(b)
  PROVE  RequestInv' /\ Isolated' \subseteq Isolated /\ \A p \in Queued : req'[p] = req[p]
<1>1. /\ b \in Batches /\ io = "serve" /\ todo' = todo \ {b} /\ UNCHANGED <<caps, io, main, order, held>>
      /\ BatchGone(b, req) \/ BatchProceeds(b) \/ BatchFails(b)
  BY ServeBatchIs
<1> QED
  BY <1>1, UnobservedKeeps, ProceedsKeeps, FailsKeeps
LEMMA NextKeepsRequests == RequestInv /\ [Next]_vars => RequestInv'
<1> SUFFICES ASSUME RequestInv, [Next]_vars PROVE RequestInv'
  OBVIOUS
<1>1. CASE UNCHANGED vars
  <2>1. UNCHANGED <<caps, io, todo, req, order, batch, held>> /\ UNCHANGED main
    BY <1>1 DEF vars
  <2>2. Shaped' /\ Threads'
    BY <2>1, Still DEF RequestInv, Shaped, Threads
  <2> QED
    BY <2>1, <2>2, Still DEF RequestInv
<1>2. CASE Connect
  BY <1>2, ConnectKeeps
<1>3. CASE \E c \in {"generic", "batch"} : SetCapabilities(c)
  BY <1>3, SetCapabilitiesKeeps
<1>4. CASE \E p \in Paths : \/ \E prio \in BOOLEAN : (prio => p \in Faces) /\ (Share(p, prio) \/ Start(p, prio))
                            \/ Release(p)
  BY <1>4, ShareKeeps, StartKeeps, ReleaseKeeps
<1>5. CASE StartLoaded \/ ReleaseVictim \/ NoHandoff
  BY <1>5, StartLoadedKeeps, ReleaseVictimKeeps, NoHandoffKeeps
<1>6. CASE \E v \in Faces : HandoffNeedless(v) \/ HandoffComplete(v) \/ Handoff(v)
  BY <1>6, HandoffNeedlessKeeps, HandoffCompleteKeeps, HandoffKeeps
<1>7. CASE Begin \/ Open \/ Opened
  BY <1>7, BeginKeeps, OpenKeeps, OpenedKeeps
<1>8. CASE Wait \/ Reap \/ Disconnect
  BY <1>8, WaitKeeps, ReapKeeps, DisconnectKeeps
<1>9. CASE \E p \in Paths : ServeStream(p)
  BY <1>9, ServeStreamKeeps
<1>10. CASE \E b \in Slots : ServeBatch(b)
  BY <1>10, ServeBatchKeeps
<1> QED
  BY <1>1, <1>2, <1>3, <1>4, <1>5, <1>6, <1>7, <1>8, <1>9, <1>10 DEF Next

LEMMA RequestsFollow == RequestInv => RequestsKept
<1> SUFFICES ASSUME RequestInv PROVE RequestsKept
  OBVIOUS
<1>1. AQTypeOK
  <2>1. \A p \in Paths : Exists(p) => req[p] \in RequestType
    BY RequestHas DEF RequestInv
  <2>2. \A b \in Batches : batch[b] \in BatchType /\ Len(batch[b].members) \in 1..BatchMax
    BY BatchHas DEF RequestInv, BatchesAre, BatchIs
  <2> QED
    BY <2>1, <2>2 DEF RequestInv, Shaped, Limited, AQTypeOK
<1>2. HandlesLive
  <2> SUFFICES ASSUME NEW p \in Paths, held[p] > 0 PROVE Exists(p) /\ req[p].refs = held[p] /\ ~req[p].cancelled
    BY DEF HandlesLive
  <2>1. held[p] \in Nat /\ held[p] # 0
    BY DEF RequestInv, Shaped
  <2> QED
    BY <2>1 DEF RequestInv, RequestsAre, RequestIs
<1>3. MembersLive
  <2>1. ASSUME NEW b \in Batches, NEW i \in batch[b].current..Len(batch[b].members)
        PROVE  Exists(batch[b].members[i]) /\ req[batch[b].members[i]].batch = b /\ ~req[batch[b].members[i]].stream
    <3>1. batch[b].members[i] \in Remaining(b)
      BY DEF Remaining
    <3> QED
      BY <3>1, MemberIs
  <2>2. ASSUME NEW p \in Attached PROVE req[p].batch \in Batches /\ p \in Remaining(req[p].batch)
    BY DEF Attached, RequestInv, Belonging
  <2> QED
    BY <2>1, <2>2 DEF MembersLive
<1>4. CompleteIsFinal
  BY DEF CompleteIsFinal, RequestInv, RequestsAre, RequestIs
<1>5. BatchBeginsWithOldest
  <2> SUFFICES ASSUME Queued # {}, OldestQueued \in Faces
               PROVE  BatchOf(OldestQueued) # <<>> /\ BatchOf(OldestQueued)[1] = OldestQueued
    BY DEF BatchBeginsWithOldest
  <2>1. OldestQueued \in Queued \cap Faces
    BY NextIs DEF RequestInv
  <2>2. /\ BatchOf(OldestQueued) \in Seq(Paths) /\ Len(BatchOf(OldestQueued)) \in 1..BatchMax
        /\ BatchOf(OldestQueued)[1] = OldestQueued
    BY <2>1, BatchOfIs DEF RequestInv
  <2>3. Len(BatchOf(OldestQueued)) # 0
    BY <2>2, AssetAssumption
  <2> QED
    BY <2>2, <2>3
<1>6. NoneStranded
  BY DEF NoneStranded, RequestInv, Threads
<1> QED
  BY <1>1, <1>2, <1>3, <1>4, <1>5, <1>6 DEF RequestsKept

LEMMA RequestInvariant == Spec => []RequestInv
<1>1. Init => RequestInv
  BY RequestInit
<1>2. RequestInv /\ [Next]_vars => RequestInv'
  BY NextKeepsRequests
<1> QED
  BY <1>1, <1>2, PTL DEF Spec

\* What users, batches and streams know of a request agrees: a handle is never
\* destroyed under its user, a batch reaches only its own members, a complete
\* request stays so, and nothing pending is left without a connection.
THEOREM RequestsAlwaysKept == Spec => []RequestsKept
<1>1. RequestInv => RequestsKept
  BY RequestsFollow
<1> QED
  BY <1>1, RequestInvariant, PTL
-----------------------------------------------------------------------------
(* Who gets a stream. *)

\* A step by which no waiting request gets a stream and none gets the right to a victim's.
Quiet ==
    /\ Isolated' \subseteq Isolated
    /\ \A p \in Queued : req'[p] = None \/ (~req'[p].stream /\ req'[p].batch = None)

LEMMA QuietIs ==
  ASSUME RequestInv,
         \A p \in Paths : \/ req'[p] = None \/ req'[p] = req[p]
                          \/ p \notin Queued /\ (req'[p].isolated => Exists(p) /\ req[p].isolated)
                          \/ /\ Exists(p) /\ (req'[p].isolated => req[p].isolated)
                             /\ req'[p].stream = req[p].stream /\ req'[p].batch = req[p].batch
  PROVE  Quiet
<1>1. \A p \in Queued : p \in Paths /\ Exists(p) /\ ~req[p].stream /\ req[p].batch = None
  BY OpenedIs
<1>2. Isolated' \subseteq Isolated
  BY DEF Isolated, Exists
<1>3. \A p \in Queued : req'[p] = None \/ (~req'[p].stream /\ req'[p].batch = None)
  BY <1>1
<1> QED
  BY <1>2, <1>3 DEF Quiet

LEMMA FewIsolated ==
  ASSUME RequestInv
  PROVE  /\ IsFiniteSet(Isolated) /\ Cardinality(Isolated) \in Nat
         /\ IsFiniteSet(Intents) /\ Cardinality(Intents) \in Nat
<1>1. IsFiniteSet(Listed) /\ IsFiniteSet(Batches)
  BY FewIs DEF RequestInv
<1>2. Listed = Requested
  BY QueuedIs DEF RequestInv
<1>3. Isolated \in SUBSET Listed /\ Intents \in SUBSET (Listed \cup Batches)
  BY <1>2 DEF Isolated, Intents, PreemptedBatches, Requested
<1>4. IsFiniteSet(Listed \cup Batches)
  BY <1>1, FS_Union
<1>5. IsFiniteSet(Isolated) /\ IsFiniteSet(Intents)
  BY <1>1, <1>3, <1>4, FS_Subset
<1> QED
  BY <1>5, FS_CardinalityType

LEMMA QuietByRight == ASSUME RequestInv, Quiet PROVE ServedInOrder /\ HandoffsReclaim
<1>1. ServedInOrder
  BY DEF Quiet, ServedInOrder
<1>2. Isolated' \in SUBSET Isolated
  BY DEF Quiet
<1>3. /\ IsFiniteSet(Isolated) /\ Cardinality(Isolated) \in Nat
      /\ IsFiniteSet(Isolated') /\ Cardinality(Isolated') <= Cardinality(Isolated)
  BY <1>2, FewIsolated, FS_Subset
<1>4. Cardinality(Isolated') \in Nat
  BY <1>3, FS_CardinalityType
<1>5. HandoffsReclaim
  BY <1>3, <1>4 DEF HandoffsReclaim
<1> QED
  BY <1>1, <1>5

\* The main thread shares, starts and frees requests.
LEMMA ShareQuiet == ASSUME RequestInv, NEW p \in Paths, NEW prio \in BOOLEAN, Share(p, prio) PROVE Quiet
<1> DEFINE seen == req[p].prio \/ (prio /\ req[p].state = "pending")
           r == [req[p] EXCEPT !.refs = req[p].refs + 1, !.prio = seen]
<1>1. Exists(p) /\ req' = [req EXCEPT ![p].refs = @ + 1, ![p].prio = @ \/ (prio /\ req[p].state = "pending")]
  BY DEF Share
<1>2. req[p] \in RequestType /\ req \in [Paths -> RequestType \cup {None}]
  BY <1>1, RequestHas DEF RequestInv, Shaped
<1>3. req' = [req EXCEPT ![p] = r]
  BY <1>1, <1>2
<1>4. r.isolated = req[p].isolated /\ r.stream = req[p].stream /\ r.batch = req[p].batch
  BY <1>2 DEF RequestType
<1> HIDE DEF r
<1>5. req'[p] = r /\ \A o \in Paths : o # p => req'[o] = req[o]
  BY <1>2, <1>3
<1> QED
  BY <1>1, <1>4, <1>5, QuietIs

LEMMA FreeQuiet == ASSUME RequestInv, NEW p \in Paths, Free(p) PROVE Quiet
<1>1. held[p] > 0 /\ held[p] \in Nat
  BY DEF Free, RequestInv, Shaped
<1>2. Exists(p) /\ req[p] \in RequestType /\ req \in [Paths -> RequestType \cup {None}]
  <2>1. Exists(p)
    BY <1>1 DEF RequestInv, RequestsAre
  <2> QED
    BY <2>1, RequestHas DEF RequestInv, Shaped
<1>3. CASE req[p].refs > 1
  <2> DEFINE r == [req[p] EXCEPT !.refs = req[p].refs - 1]
  <2>1. req' = [req EXCEPT ![p] = r]
    BY <1>2, <1>3 DEF Free
  <2>2. r.isolated = req[p].isolated /\ r.stream = req[p].stream /\ r.batch = req[p].batch
    BY <1>2 DEF RequestType
  <2> HIDE DEF r
  <2>3. req'[p] = r /\ \A o \in Paths : o # p => req'[o] = req[o]
    BY <1>2, <2>1
  <2> QED
    BY <1>2, <2>2, <2>3, QuietIs
<1>4. CASE ~(req[p].refs > 1) /\ InUse(p)
  <2> DEFINE r == [req[p] EXCEPT !.refs = 0, !.cancelled = TRUE]
  <2>1. req' = [req EXCEPT ![p] = r]
    BY <1>2, <1>4 DEF Free
  <2>2. r.isolated = req[p].isolated /\ r.stream = req[p].stream /\ r.batch = req[p].batch
    BY <1>2 DEF RequestType
  <2> HIDE DEF r
  <2>3. req'[p] = r /\ \A o \in Paths : o # p => req'[o] = req[o]
    BY <1>2, <2>1
  <2> QED
    BY <1>2, <2>2, <2>3, QuietIs
<1>5. CASE ~(req[p].refs > 1) /\ ~InUse(p)
  <2>1. req' = Destroyed({p})
    BY <1>5 DEF Free
  <2>2. \A o \in Paths : req'[o] = None \/ req'[o] = req[o]
    BY <2>1 DEF Destroyed
  <2> QED
    BY <2>2, QuietIs
<1> QED
  BY <1>3, <1>4, <1>5

LEMMA StartLoadedQuiet == ASSUME RequestInv, StartLoaded PROVE Quiet
<1>1. main.pc = "load"
  BY DEF StartLoaded
<1>2. main.path \in Paths /\ main.prio \in BOOLEAN /\ ~Exists(main.path)
  BY <1>1, MainIs DEF MainType, RequestInv, Threads
<1>3. main.path \notin Queued
  BY <1>2, OpenedIs
<1>4. req \in [Paths -> RequestType \cup {None}]
  BY DEF RequestInv, Shaped
<1>5. CASE UNCHANGED req
  BY <1>5, QuietIs
<1>6. CASE req' = [req EXCEPT ![main.path] = NewRequest(main.prio)]
  <2>1. req'[main.path] = NewRequest(main.prio) /\ \A o \in Paths : o # main.path => req'[o] = req[o]
    BY <1>2, <1>4, <1>6
  <2>2. ~req'[main.path].isolated
    BY <1>2, <2>1, NewRequestIs
  <2> QED
    BY <1>3, <2>1, <2>2, QuietIs
<1> QED
  BY <1>5, <1>6 DEF StartLoaded

LEMMA HandoffCompleteQuiet == ASSUME RequestInv, NEW v \in Faces, HandoffComplete(v) PROVE Quiet
<1> DEFINE p == main.path
           r == [req[p] EXCEPT !.prio = TRUE]
<1>1. p \in Queued /\ req' = [req EXCEPT ![p].prio = TRUE]
  BY DEF HandoffComplete
<1>2. p \in Paths /\ Exists(p) /\ req[p] \in RequestType /\ req \in [Paths -> RequestType \cup {None}]
  BY <1>1, OpenedIs DEF RequestInv, Shaped
<1>3. req' = [req EXCEPT ![p] = r]
  BY <1>1, <1>2
<1>4. r.isolated = req[p].isolated /\ r.stream = req[p].stream /\ r.batch = req[p].batch
  BY <1>2 DEF RequestType
<1> HIDE DEF r, p
<1>5. req'[p] = r /\ \A o \in Paths : o # p => req'[o] = req[o]
  BY <1>2, <1>3
<1> QED
  BY <1>2, <1>4, <1>5, QuietIs
\* A handoff takes a stream that nobody has taken.
LEMMA HandoffByRight == ASSUME RequestInv, NEW v \in Faces, Handoff(v) PROVE ServedInOrder /\ HandoffsReclaim
<1>1. PICK p : p = main.path
  OBVIOUS
<1>2. PICK b : b = req[v].batch
  OBVIOUS
<1>3. /\ p \in Queued /\ p # v /\ v \in Pending /\ ~Reclaimed(v)
      /\ req'[p] = [req[p] EXCEPT !.prio = TRUE, !.isolated = TRUE]
      /\ req'[v] = [req[v] EXCEPT !.preempt = @ \/ b = None]
      /\ \A o \in Paths : o \notin {p, v} => req'[o] = req[o]
      /\ b = None => req[v].stream /\ UNCHANGED batch
      /\ b # None => b \in Batches /\ batch' = [batch EXCEPT ![b].preempt = TRUE]
  BY <1>1, <1>2, HandoffIs
<1>4. /\ p \in Paths /\ Exists(p) /\ v \in Paths /\ Exists(v) /\ req[p] \in RequestType /\ req[v] \in RequestType
      /\ batch \in [Slots -> BatchType \cup {None}]
  BY <1>3, OpenedIs, RequestHas DEF Pending, RequestInv, Shaped
<1>5. req'[p].stream = req[p].stream /\ req'[p].batch = req[p].batch /\ req'[p].preempt = req[p].preempt /\ req'[p] # None
  <2>1. req'[p] \in RequestType
    BY <1>3, <1>4 DEF RequestType
  <2> QED
    BY <1>3, <1>4, <2>1, NotNone DEF RequestType
<1>6. PICK m \in BOOLEAN : m = (req[v].preempt \/ b = None)
  <2>1. (req[v].preempt \/ b = None) \in BOOLEAN
    OBVIOUS
  <2> QED
    BY <2>1
<1>7. req'[v] = [req[v] EXCEPT !.preempt = m]
  BY <1>3, <1>6
<1>8. /\ req'[v].stream = req[v].stream /\ req'[v].batch = req[v].batch /\ req'[v].preempt = m /\ req'[v] # None
  <2>1. req'[v] \in RequestType
    BY <1>4, <1>7 DEF RequestType
  <2> QED
    BY <1>4, <1>7, <2>1, NotNone DEF RequestType
<1>9. ServedInOrder
  <2>1. ASSUME NEW o \in Queued PROVE ~req'[o].stream /\ req'[o].batch = None
    <3>1. o \in Paths /\ ~req[o].stream /\ req[o].batch = None
      BY OpenedIs
    <3> QED
      BY <1>3, <1>5, <1>8, <3>1
  <2> QED
    BY <2>1 DEF ServedInOrder
<1>10. \A o \in Paths : Exists(o)' <=> Exists(o)
  BY <1>3, <1>4, <1>5, <1>8 DEF Exists
<1>11. req[v].preempt \in BOOLEAN /\ ~req[v].preempt /\ (b # None => ~batch[b].preempt)
  BY <1>2, <1>3, <1>4 DEF Reclaimed, RequestType
<1>12. IsFiniteSet(Intents) /\ Cardinality(Intents) \in Nat
  BY FewIsolated
<1>13. Paths \cap Slots = {} /\ PreemptedBatches \subseteq Slots
  BY AssetAssumption DEF PreemptedBatches, Batches
<1>14. CASE b = None
  <2>1. PreemptedBatches' = PreemptedBatches
    BY <1>3, <1>14 DEF PreemptedBatches, Batches
  <2>2. req'[v].preempt
    BY <1>6, <1>8, <1>14
  <2>3. Intents' = Intents \cup {v}
    BY <1>3, <1>4, <1>5, <1>10, <2>1, <2>2 DEF Intents
  <2>4. v \notin Intents
    BY <1>4, <1>11, <1>13 DEF Intents
  <2>5. Cardinality(Intents') = Cardinality(Intents) + 1
    BY <1>12, <2>3, <2>4, FS_AddElement
  <2> QED
    BY <1>9, <1>12, <2>5 DEF HandoffsReclaim
<1>15. CASE b # None
  <2> DEFINE t == [batch[b] EXCEPT !.preempt = TRUE]
  <2>1. b \in Slots /\ b \in Batches /\ batch[b] \in BatchType
    BY <1>3, <1>15, BatchHas DEF RequestInv
  <2>2. batch' = [batch EXCEPT ![b] = t]
    BY <1>3, <1>4, <1>15, <2>1
  <2>3. t \in BatchType /\ t.preempt = TRUE
    BY <2>1 DEF BatchType
  <2> HIDE DEF t
  <2>4. batch'[b] = t /\ t # None /\ \A c \in Slots : c # b => batch'[c] = batch[c]
    BY <1>4, <2>1, <2>2, <2>3, NotNone
  <2>5. PreemptedBatches' = PreemptedBatches \cup {b}
    BY <2>1, <2>3, <2>4 DEF PreemptedBatches, Batches
  <2>6. req'[v].preempt = req[v].preempt
    BY <1>6, <1>8, <1>11, <1>15
  <2>7. Intents' = Intents \cup {b}
    BY <1>3, <1>4, <1>5, <1>10, <2>5, <2>6 DEF Intents
  <2>8. b \notin Intents
    BY <1>11, <1>13, <1>15, <2>1 DEF Intents, PreemptedBatches
  <2>9. Cardinality(Intents') = Cardinality(Intents) + 1
    BY <1>12, <2>7, <2>8, FS_AddElement
  <2> QED
    BY <1>9, <1>12, <2>9 DEF HandoffsReclaim
<1> QED
  BY <1>14, <1>15

LEMMA BeginQuiet == ASSUME RequestInv, Begin PROVE Quiet
<1>1. PICK S \in SUBSET Requested :
            /\ \A p \in Paths \ S : req'[p] = req[p]
            /\ \A p \in S :
                  /\ req'[p].stream = FALSE /\ req'[p].batch = None
                  /\ req'[p].isolated => req[p].isolated
  BY BeginIs
<1>2. \A p \in S : p \in Paths /\ Exists(p)
  BY DEF Requested
<1>3. Isolated' \subseteq Isolated
  BY <1>1, <1>2 DEF Isolated, Exists
<1>4. \A p \in Queued : p \in Paths /\ ~req[p].stream /\ req[p].batch = None
  BY OpenedIs
<1>5. \A p \in Queued : ~req'[p].stream /\ req'[p].batch = None
  BY <1>1, <1>4
<1> QED
  BY <1>3, <1>5 DEF Quiet

\* What is opened is a generic request, or no generic request is older.
LEMMA OpenByRight == ASSUME RequestInv, Open PROVE ServedInOrder /\ HandoffsReclaim
<1>1. PICK first \in Queued :
            /\ first = OldestQueued
            /\ \/ /\ req' = [req EXCEPT ![first] = [[req[first] EXCEPT !.prio = FALSE, !.isolated = FALSE]
                                                       EXCEPT !.stream = TRUE, !.trans = "send"]]
                  /\ UNCHANGED batch
               \/ /\ first \in Faces
                  /\ \E b \in Slots \ Batches :
                        /\ req' = [p \in Paths |->
                              IF p \in ToSet(BatchOf(first))
                              THEN [[req[p] EXCEPT !.prio = FALSE, !.isolated = FALSE] EXCEPT !.batch = b] ELSE req[p]]
  BY OpenIs
<1>2. \E S \in SUBSET Queued :
         /\ \A p \in Paths \ S : req'[p] = req[p]
         /\ \A p \in S : req'[p].isolated = FALSE
         /\ \A p \in S \cap Faces : \A g \in Queued \cap Generics : Before(p, g)
  <2>1. CASE req' = [req EXCEPT ![first] = [[req[first] EXCEPT !.prio = FALSE, !.isolated = FALSE]
                                               EXCEPT !.stream = TRUE, !.trans = "send"]]
    <3> DEFINE r == [[req[first] EXCEPT !.prio = FALSE, !.isolated = FALSE] EXCEPT !.stream = TRUE, !.trans = "send"]
    <3>1. first \in Paths /\ req[first] \in RequestType /\ req \in [Paths -> RequestType \cup {None}]
      BY OpenedIs DEF RequestInv, Shaped
    <3>2. r.isolated = FALSE
      BY <3>1 DEF RequestType
    <3>3. req' = [req EXCEPT ![first] = r]
      BY <2>1
    <3> HIDE DEF r
    <3>4. req'[first] = r /\ \A p \in Paths : p # first => req'[p] = req[p]
      BY <3>1, <3>3
    <3>5. first \in Faces => \A g \in Queued \cap Generics : Before(first, g)
      BY <1>1, NextIs DEF RequestInv
    <3> WITNESS {first} \in SUBSET Queued
    <3> QED
      BY <3>2, <3>4, <3>5
  <2>2. ASSUME first \in Faces, NEW b \in Slots \ Batches,
               req' = [p \in Paths |->
                  IF p \in ToSet(BatchOf(first))
                  THEN [[req[p] EXCEPT !.prio = FALSE, !.isolated = FALSE] EXCEPT !.batch = b] ELSE req[p]]
        PROVE  \E S \in SUBSET Queued :
                  /\ \A p \in Paths \ S : req'[p] = req[p]
                  /\ \A p \in S : req'[p].isolated = FALSE
                  /\ \A p \in S \cap Faces : \A g \in Queued \cap Generics : Before(p, g)
    <3>1. PICK M : M = ToSet(BatchOf(first))
      OBVIOUS
    <3>2. M \in SUBSET Queued /\ \A p \in M : \A g \in Queued \cap Generics : Before(p, g)
      BY <1>1, <2>2, <3>1, BatchOfIs DEF RequestInv
    <3>3. \A p \in Paths \ M : req'[p] = req[p]
      BY <2>2, <3>1
    <3>4. ASSUME NEW p \in M PROVE req'[p].isolated = FALSE
      <4> DEFINE r == [[req[p] EXCEPT !.prio = FALSE, !.isolated = FALSE] EXCEPT !.batch = b]
      <4>1. p \in Paths /\ req[p] \in RequestType
        BY <3>2, OpenedIs
      <4>2. r.isolated = FALSE
        BY <4>1 DEF RequestType
      <4>3. req'[p] = r
        BY <2>2, <3>1, <4>1
      <4> HIDE DEF r
      <4> QED
        BY <4>2, <4>3
    <3> QED
      BY <3>2, <3>3, <3>4
  <2> QED
    BY <1>1, <2>1, <2>2
<1>3. PICK S \in SUBSET Queued :
         /\ \A p \in Paths \ S : req'[p] = req[p]
         /\ \A p \in S : req'[p].isolated = FALSE
         /\ \A p \in S \cap Faces : \A g \in Queued \cap Generics : Before(p, g)
  BY <1>2
<1>4. ServedInOrder
  <2> SUFFICES ASSUME NEW g \in Queued \cap Generics, NEW p \in Queued \cap Faces, Before(g, p)
               PROVE  ~req'[p].stream /\ req'[p].batch = None
    BY DEF ServedInOrder
  <2>1. ~Before(p, g)
    BY BeforeIs DEF RequestInv
  <2>2. p \notin S
    BY <1>3, <2>1
  <2>3. p \in Paths /\ ~req[p].stream /\ req[p].batch = None
    BY OpenedIs
  <2> QED
    BY <1>3, <2>2, <2>3
<1>5. Isolated' \in SUBSET Isolated
  BY <1>3 DEF Isolated, Exists
<1>6. /\ IsFiniteSet(Isolated) /\ Cardinality(Isolated) \in Nat
      /\ IsFiniteSet(Isolated') /\ Cardinality(Isolated') <= Cardinality(Isolated)
  BY <1>5, FewIsolated, FS_Subset
<1>7. Cardinality(Isolated') \in Nat
  BY <1>6, FS_CardinalityType
<1>8. HandoffsReclaim
  BY <1>6, <1>7 DEF HandoffsReclaim
<1> QED
  BY <1>4, <1>8

LEMMA ServeQuiet ==
  ASSUME RequestInv, (\E p \in Paths : ServeStream(p)) \/ (\E b \in Slots : ServeBatch(b)) PROVE Quiet
<1>1. ASSUME NEW p \in Paths, ServeStream(p) PROVE Quiet
  <2>1. /\ Exists(p) /\ req[p] \in RequestType /\ req[p].stream /\ RequestIs(req[p], held[p]) /\ held[p] \in Nat
    BY <1>1, ServeStreamIs
  <2>2. PICK s \in Served(req[p]) : req' = [req EXCEPT ![p] = s]
    BY <1>1, ServeStreamIs
  <2>3. s.isolated => req[p].isolated
    BY <2>1, ServedIs
  <2>4. p \notin Queued
    BY <2>1, OpenedIs
  <2>5. req'[p] = s /\ \A o \in Paths : o # p => req'[o] = req[o]
    BY <2>2 DEF RequestInv, Shaped
  <2> QED
    BY <2>1, <2>3, <2>4, <2>5, QuietIs
<1>2. ASSUME NEW b \in Slots, ServeBatch(b) PROVE Quiet
  <2>1. Isolated' \subseteq Isolated /\ \A p \in Queued : req'[p] = req[p]
    BY <1>2, ServeBatchKeeps
  <2>2. \A p \in Queued : ~req'[p].stream /\ req'[p].batch = None
    BY <2>1, OpenedIs
  <2> QED
    BY <2>1, <2>2 DEF Quiet
<1> QED
  BY <1>1, <1>2

LEMMA DisconnectQuiet == ASSUME RequestInv, Disconnect PROVE Quiet
<1>1. PICK S : S = {p \in Paths : Exists(p) /\ req[p].refs = 0}
  OBVIOUS
<1>2. req' = [p \in Paths |->
                IF ~Exists(p) \/ p \in S THEN None
                ELSE IF [req[p] EXCEPT !.batch = None].state = "pending"
                     THEN Ended([req[p] EXCEPT !.batch = None], "error") ELSE [req[p] EXCEPT !.batch = None]]
  BY <1>1 DEF Disconnect
<1>3. ASSUME NEW p \in Paths, Exists(p), p \notin S
      PROVE  /\ req'[p].isolated => req[p].isolated
             /\ p \in Queued => ~req'[p].stream /\ req'[p].batch = None
  <2> DEFINE r == [req[p] EXCEPT !.batch = None]
  <2>1. req[p] \in RequestType
    BY <1>3, RequestHas DEF RequestInv
  <2>2. r \in RequestType /\ r.stream = req[p].stream /\ r.batch = None /\ r.isolated = req[p].isolated
    BY <2>1 DEF RequestType
  <2>3. req'[p] = IF r.state = "pending" THEN Ended(r, "error") ELSE r
    BY <1>2, <1>3
  <2> HIDE DEF r
  <2>4. Ended(r, "error").stream = FALSE /\ Ended(r, "error").batch = r.batch /\ Ended(r, "error").isolated = FALSE
    BY <2>2, EndedIs
  <2>5. p \in Queued => ~req[p].stream
    BY OpenedIs
  <2> QED
    BY <2>2, <2>3, <2>4, <2>5
<1>4. \A p \in Paths : ~Exists(p) \/ p \in S => req'[p] = None
  BY <1>2
<1>5. Isolated' \subseteq Isolated
  BY <1>3, <1>4 DEF Isolated, Exists
<1>6. \A p \in Queued : req'[p] = None \/ (~req'[p].stream /\ req'[p].batch = None)
  BY <1>3, <1>4, OpenedIs
<1> QED
  BY <1>5, <1>6 DEF Quiet

LEMMA NextByRight == RequestInv /\ [Next]_vars => ServedInOrder /\ HandoffsReclaim
<1> SUFFICES ASSUME RequestInv, [Next]_vars PROVE ServedInOrder /\ HandoffsReclaim
  OBVIOUS
<1>1. CASE UNCHANGED req
  BY <1>1, QuietIs, QuietByRight
<1>2. CASE Connect \/ (\E c \in {"generic", "batch"} : SetCapabilities(c)) \/ NoHandoff \/ Opened \/ Wait \/ UNCHANGED vars
  BY <1>1, <1>2 DEF Connect, SetCapabilities, NoHandoff, Opened, Wait, vars
<1>3. CASE \E p \in Paths : \/ \E prio \in BOOLEAN : (prio => p \in Faces) /\ (Share(p, prio) \/ Start(p, prio))
                            \/ Release(p)
  <2>1. ASSUME NEW p \in Paths, NEW prio \in BOOLEAN, Share(p, prio) PROVE Quiet
    BY <2>1, ShareQuiet
  <2>2. ASSUME NEW p \in Paths, NEW prio \in BOOLEAN, Start(p, prio) PROVE Quiet
    BY <2>2, QuietIs DEF Start
  <2>3. ASSUME NEW p \in Paths, Release(p) PROVE Quiet
    BY <2>3, FreeQuiet DEF Release
  <2> QED
    BY <1>3, <2>1, <2>2, <2>3, QuietByRight
<1>4. CASE StartLoaded
  BY <1>4, StartLoadedQuiet, QuietByRight
<1>5. CASE ReleaseVictim
  <2>1. main.path \in Paths /\ Free(main.path)
    BY <1>5, MainIs DEF ReleaseVictim
  <2> QED
    BY <2>1, FreeQuiet, QuietByRight
<1>6. CASE \E v \in Faces : HandoffNeedless(v) \/ HandoffComplete(v) \/ Handoff(v)
  <2>1. ASSUME NEW v \in Faces, HandoffNeedless(v) PROVE UNCHANGED req
    BY <2>1 DEF HandoffNeedless
  <2> QED
    BY <1>1, <1>6, <2>1, HandoffCompleteQuiet, HandoffByRight, QuietByRight
<1>7. CASE Begin \/ Open
  BY <1>7, BeginQuiet, OpenByRight, QuietByRight
<1>8. CASE Reap
  <2>1. \A p \in Paths : req'[p] = None \/ req'[p] = req[p]
    BY <1>8 DEF Reap, Destroyed
  <2> QED
    BY <2>1, QuietIs, QuietByRight
<1>9. CASE Disconnect
  BY <1>9, DisconnectQuiet, QuietByRight
<1>10. CASE (\E p \in Paths : ServeStream(p)) \/ (\E b \in Slots : ServeBatch(b))
  BY <1>10, ServeQuiet, QuietByRight
<1> QED
  BY <1>2, <1>3, <1>4, <1>5, <1>6, <1>7, <1>8, <1>9, <1>10 DEF Next

\* No face gets a stream while an older generic request waits for one, and each
\* handoff takes a stream or a batch that no other handoff has taken.
THEOREM StreamsAlwaysByRight == Spec => StreamsByRight
<1>1. RequestInv /\ [Next]_vars => [ServedInOrder /\ HandoffsReclaim]_vars
  BY NextByRight
<1> QED
  BY <1>1, RequestInvariant, PTL DEF Spec, StreamsByRight

-----------------------------------------------------------------------------
(* The service of the server. *)

\* The connection that comes a number of turns after another.
TurnFrom(c, j) == conns[IF IndexIn(c) + j <= Len(conns) THEN IndexIn(c) + j ELSE IndexIn(c) + j - Len(conns)]

\* The connections that this pass has visited, or visits.
Visited == {TurnFrom(tick.start, j) : j \in 0..(tick.visited - 1)} \cup (IF stage = "visit" THEN {} ELSE {tick.at})

TickType ==
    [bytes : 0..TickBytes, work : 0..TickWork, before : Nat, start : Connections \cup {NoConn},
     at : Connections \cup {NoConn}, visited : Nat, seen : SUBSET Connections]
VisitType ==
    [bytes : 0..PassBytes, work : 0..PassWork, round : Nat, accepted : BOOLEAN, i : Nat \ {0}, progressed : BOOLEAN]

ServiceShape ==
    /\ conns \in Seq(Connections) /\ Single(conns)
    /\ cursor \in Connections \cup {NoConn} /\ zombies \subseteq Connections
    /\ streams \in [Connections -> Seq(Nat)] /\ offered \in [Connections -> [Kinds -> 0..MaxOffered]]
    /\ next \in [Connections -> Kinds] /\ stage \in {"idle", "visit", "round", "accept", "leave"}
    /\ tick \in TickType /\ visit \in VisitType
    /\ waited \in [Connections -> Nat]

StreamsBounded ==
    /\ \A c \in Connections : Len(streams[c]) <= StreamsMax
    /\ \A c \in Connections \ Registered : streams[c] = <<>>

\* A visit has no more than the tick has left.
VisitBounded ==
    stage \in {"round", "accept", "leave"} =>
        visit.bytes <= PassBudget(tick.bytes) /\ visit.work <= Least(tick.work, PassWork)

\* A tick goes round from its start.
Rotation ==
    stage # "idle" =>
        /\ tick.start \in Registered /\ tick.visited <= Len(conns)
        /\ stage # "visit" => tick.visited < Len(conns)
        /\ tick.at = TurnFrom(tick.start, tick.visited)
        /\ Visited \subseteq tick.seen /\ tick.seen \subseteq Registered

\* Its first pass began at the cursor, with the whole budget.
FirstPass ==
    stage # "idle" /\ tick.seen # Registered =>
        /\ tick.start = cursor
        /\ tick.visited = 0 /\ stage = "visit" => tick.bytes = TickBytes /\ tick.work = TickWork
        /\ tick.visited = 0 /\ stage # "visit" => tick.bytes = TickBytes /\ tick.work = TickWork - 1
        /\ tick.visited = 1 /\ stage = "visit" => tick.bytes >= TickBytes - PassBytes
                                                  /\ tick.work >= TickWork - 1 - PassWork

\* Of three connections, the one that waits is next.
NextWaits ==
    Cardinality(Connections) <= 3 =>
        \A c \in Connections : waited[c] <= 1 /\ (c \in Registered /\ waited[c] = 1 => cursor = c)

CursorIn == cursor \in Registered \cup {NoConn} /\ ((cursor = NoConn) = (conns = <<>>))

ServiceInv ==
    ServiceShape /\ StreamsBounded /\ VisitBounded /\ CursorIn /\ Rotation /\ FirstPass /\ NextWaits

-----------------------------------------------------------------------------
(* The ring. *)

\* The numbers of the service.
LEMMA ServiceNumbers ==
    /\ TickBytes \in Nat /\ TickWork \in Nat /\ PassBytes \in Nat /\ PassWork \in Nat /\ StreamsMax \in Nat
    /\ AcceptMax \in Nat /\ MaxUnits \in Nat /\ MaxOffered \in Nat
    /\ TickBytes > 0 /\ PassBytes > 0 /\ TickWork > 0 /\ PassWork > 0 /\ StreamsMax > 0
    /\ PassBytes < TickBytes /\ TickWork >= 2 * (PassWork + 1)
  BY ServiceAssumption

LEMMA RingIs ==
  ASSUME ServiceShape
  PROVE  /\ Len(conns) \in Nat /\ DOMAIN conns = 1..Len(conns)
         /\ \A i \in 1..Len(conns) : conns[i] \in Connections /\ conns[i] \in Registered
         /\ \A i, j \in 1..Len(conns) : conns[i] = conns[j] => i = j
         /\ \A c \in Registered : IndexIn(c) \in 1..Len(conns) /\ conns[IndexIn(c)] = c
         /\ \A i \in 1..Len(conns) : IndexIn(conns[i]) = i
         /\ Registered \subseteq Connections /\ (conns = <<>> <=> Registered = {})
         /\ (conns = <<>> <=> Len(conns) = 0)
<1>1. conns \in Seq(Connections) /\ Single(conns)
  BY DEF ServiceShape
<1>2. Len(conns) \in Nat /\ DOMAIN conns = 1..Len(conns) /\ \A i \in 1..Len(conns) : conns[i] \in Connections
      /\ (conns = <<>> <=> Len(conns) = 0)
  BY <1>1
<1>3. Registered = {conns[i] : i \in 1..Len(conns)}
  BY <1>2 DEF Registered, ToSet
<1>4. \A i, j \in 1..Len(conns) : conns[i] = conns[j] => i = j
  BY <1>1, <1>2 DEF Single
<1>5. \A c \in Registered : IndexIn(c) \in 1..Len(conns) /\ conns[IndexIn(c)] = c
  <2> TAKE c \in Registered
  <2>1. \E i \in DOMAIN conns : conns[i] = c
    BY <1>2, <1>3
  <2> QED
    BY <2>1, <1>2 DEF IndexIn
<1>6. \A i \in 1..Len(conns) : conns[i] \in Registered
  BY <1>3
<1>7. \A i \in 1..Len(conns) : IndexIn(conns[i]) = i
  BY <1>4, <1>5, <1>6
<1>8. Len(conns) # 0 => conns[1] \in Registered
  BY <1>2, <1>6
<1>9. Len(conns) = 0 => Registered = {}
  BY <1>2, <1>3
<1> QED
  <2>1. Registered \subseteq Connections
    BY <1>2, <1>3
  <2>2. conns = <<>> <=> Registered = {}
    BY <1>2, <1>8, <1>9
  <2> QED
    BY <1>2, <1>4, <1>5, <1>6, <1>7, <2>1, <2>2

\* As many connections as places.
LEMMA RingCount ==
  ASSUME ServiceShape
  PROVE  /\ IsFiniteSet(Registered) /\ Cardinality(Registered) = Len(conns)
         /\ Cardinality(Connections) \in Nat /\ Len(conns) <= Cardinality(Connections)
<1>1. conns \in Bijection(1..Len(conns), Registered)
  <2>1. conns \in [1..Len(conns) -> Registered]
    <3>1. conns \in [1..Len(conns) -> Connections]
      BY DEF ServiceShape
    <3> QED
      BY <3>1, RingIs
  <2>2. \A i, j \in 1..Len(conns) : conns[i] = conns[j] => i = j
    BY RingIs
  <2>3. \A t \in Registered : \E i \in 1..Len(conns) : conns[i] = t
    BY RingIs
  <2> QED
    BY <2>1, <2>2, <2>3 DEF Bijection, Injection, Surjection, IsInjective
<1>2. ExistsBijection(1..Len(conns), Registered)
  BY <1>1 DEF ExistsBijection
<1>3. ASSUME NEW n \in Nat PROVE IsFiniteSet(1..n) /\ Cardinality(1..n) = n
  <2>1. n \in Int /\ 1 \in Int
    OBVIOUS
  <2>2. IsFiniteSet(1..n) /\ Cardinality(1..n) = IF 1 > n THEN 0 ELSE n - 1 + 1
    BY <2>1, FS_Interval
  <2> QED
    BY <2>2
<1>4. IsFiniteSet(1..Len(conns)) /\ Cardinality(1..Len(conns)) = Len(conns)
  BY <1>3, RingIs
<1>5. IsFiniteSet(Registered) /\ Cardinality(Registered) = Len(conns)
  BY <1>2, <1>4, FS_Bijection
<1>6. IsFiniteSet(Connections)
  BY ServiceAssumption
<1>7. Registered \in SUBSET Connections
  BY RingIs
<1>8. Cardinality(Connections) \in Nat
  BY <1>6, FS_CardinalityType
<1>9. Cardinality(Registered) <= Cardinality(Connections)
  BY <1>6, <1>7, FS_Subset
<1> QED
  BY <1>5, <1>8, <1>9

\* From any connection, the turns come to every other once and then to itself.
LEMMA TurnsGoRound ==
  ASSUME ServiceShape, NEW c \in Registered
  PROVE  /\ Len(conns) > 0 /\ TurnFrom(c, 0) = c /\ TurnFrom(c, Len(conns)) = c
         /\ \A j \in 0..Len(conns) : TurnFrom(c, j) \in Registered
         /\ \A j \in 0..(Len(conns) - 1) : After(TurnFrom(c, j)) = TurnFrom(c, j + 1)
         /\ \A j, k \in 0..(Len(conns) - 1) : TurnFrom(c, j) = TurnFrom(c, k) => j = k
         /\ \A d \in Registered : \E j \in 0..(Len(conns) - 1) : TurnFrom(c, j) = d
<1> DEFINE n == Len(conns)
           p == IndexIn(c)
           at(j) == IF p + j <= n THEN p + j ELSE p + j - n
<1>1. n \in Nat /\ p \in 1..n /\ conns[p] = c /\ n > 0
  BY RingIs
<1>2. \A j \in 0..n : TurnFrom(c, j) = conns[at(j)]
  BY DEF TurnFrom
<1>3. \A j \in 0..n : at(j) \in 1..n
  <2> HIDE DEF n, p
  <2> QED
    BY <1>1
<1>4. at(0) = p /\ at(n) = p
  <2> HIDE DEF n, p
  <2> QED
    BY <1>1
<1>5. \A j \in 0..(n - 1) : at(j + 1) = IF at(j) = n THEN 1 ELSE at(j) + 1
  <2> HIDE DEF n, p
  <2> QED
    BY <1>1
<1>6. \A j, k \in 0..(n - 1) : at(j) = at(k) => j = k
  <2> HIDE DEF n, p
  <2> QED
    BY <1>1
<1>7. \A i \in 1..n : \E j \in 0..(n - 1) : at(j) = i
  <2> TAKE i \in 1..n
  <2> DEFINE w == IF p <= i THEN i - p ELSE i - p + n
  <2>1. w \in 0..(n - 1) /\ at(w) = i
    <3> HIDE DEF n, p
    <3> QED
      BY <1>1
  <2> QED
    BY <2>1
<1>8. 0 \in 0..n /\ n \in 0..n /\ \A j \in 0..(n - 1) : j \in 0..n /\ j + 1 \in 0..n
  <2> HIDE DEF n
  <2> QED
    BY <1>1
<1> HIDE DEF at
<1>9. TurnFrom(c, 0) = c /\ TurnFrom(c, n) = c
  BY <1>1, <1>2, <1>4, <1>8
<1>10. \A j \in 0..n : TurnFrom(c, j) \in Registered
  BY <1>2, <1>3, RingIs
<1>11. \A j \in 0..(n - 1) : After(TurnFrom(c, j)) = TurnFrom(c, j + 1)
  <2> TAKE j \in 0..(n - 1)
  <2>1. IndexIn(TurnFrom(c, j)) = at(j)
    BY <1>2, <1>3, <1>8, RingIs
  <2>2. After(TurnFrom(c, j)) = conns[IF at(j) = n THEN 1 ELSE at(j) + 1]
    BY <2>1 DEF After
  <2> QED
    BY <2>2, <1>2, <1>5, <1>8
<1>12. \A j, k \in 0..(n - 1) : TurnFrom(c, j) = TurnFrom(c, k) => j = k
  <2> TAKE j, k \in 0..(n - 1)
  <2>1. TurnFrom(c, j) = conns[at(j)] /\ TurnFrom(c, k) = conns[at(k)] /\ at(j) \in 1..n /\ at(k) \in 1..n
    BY <1>2, <1>3, <1>8
  <2> QED
    <3>1. conns[at(j)] = conns[at(k)] => at(j) = at(k)
      BY <2>1, RingIs
    <3> QED
      BY <2>1, <3>1, <1>6
<1>13. \A d \in Registered : \E j \in 0..(n - 1) : TurnFrom(c, j) = d
  <2> TAKE d \in Registered
  <2>1. IndexIn(d) \in 1..n /\ conns[IndexIn(d)] = d
    BY RingIs
  <2>2. PICK j \in 0..(n - 1) : at(j) = IndexIn(d)
    BY <2>1, <1>7
  <2> QED
    BY <2>1, <2>2, <1>2, <1>8
<1> QED
  BY <1>1, <1>9, <1>10, <1>11, <1>12, <1>13

\* A list without the entry at a place.
LEMMA Removal ==
  ASSUME NEW S, NEW s \in Seq(S), NEW i \in 1..Len(s)
  PROVE  /\ RemoveAt(s, i) \in Seq(S) /\ Len(RemoveAt(s, i)) = Len(s) - 1
         /\ \A j \in 1..(Len(s) - 1) : RemoveAt(s, i)[j] = s[IF j < i THEN j ELSE j + 1]
<1> DEFINE f == SubSeq(s, 1, i - 1)
           g == SubSeq(s, i + 1, Len(s))
<1>1. Len(s) \in Nat /\ i \in Nat /\ 1 <= i /\ i <= Len(s) /\ \A j \in 1..Len(s) : s[j] \in S
  OBVIOUS
<1>2. f \in Seq(S) /\ Len(f) = i - 1 /\ \A j \in 1..(i - 1) : f[j] = s[j]
  BY <1>1
<1>3. g \in Seq(S) /\ Len(g) = Len(s) - i /\ \A j \in 1..(Len(s) - i) : g[j] = s[i + j]
  BY <1>1
<1>4. RemoveAt(s, i) = f \o g
  BY DEF RemoveAt
<1> HIDE DEF f, g
<1>5. f \o g \in Seq(S) /\ Len(f \o g) = Len(s) - 1
  <2>0. f \in Seq(S) /\ g \in Seq(S)
    BY <1>2, <1>3
  <2>1. f \o g \in Seq(S) /\ Len(f \o g) = Len(f) + Len(g)
    BY <2>0
  <2> QED
    BY <2>1, <1>1, <1>2, <1>3
<1>6. ASSUME NEW j \in 1..(Len(s) - 1) PROVE (f \o g)[j] = s[IF j < i THEN j ELSE j + 1]
  <2>1. (f \o g)[j] = IF j <= Len(f) THEN f[j] ELSE g[j - Len(f)]
    BY <1>1, <1>2, <1>3
  <2>2. CASE j < i
    BY <2>1, <2>2, <1>1, <1>2
  <2>3. CASE ~(j < i)
    <3>1. j - Len(f) = j - i + 1 /\ j - i + 1 \in 1..(Len(s) - i) /\ i + (j - i + 1) = j + 1 /\ ~(j <= Len(f))
      BY <2>3, <1>1, <1>2
    <3> QED
      BY <3>1, <2>1, <2>3, <1>3
  <2> QED
    BY <2>2, <2>3
<1> QED
  BY <1>4, <1>5, <1>6

-----------------------------------------------------------------------------
(* Between ticks. *)

LEMMA ServiceInitially == ServiceInit => ServiceInv
<1> SUFFICES ASSUME ServiceInit PROVE ServiceInv
  OBVIOUS
<1>1. /\ conns = <<>> /\ cursor = NoConn /\ zombies = {} /\ stage = "idle" /\ tick = NoTick /\ visit = NoVisit
      /\ streams = [c \in Connections |-> <<>>] /\ offered = [c \in Connections |-> [k \in Kinds |-> 0]]
      /\ next = [c \in Connections |-> "asset"] /\ waited = [c \in Connections |-> 0]
  BY DEF ServiceInit
<1>2. Registered = {}
  BY <1>1 DEF Registered, ToSet
<1>3. NoTick \in TickType /\ NoVisit \in VisitType
  BY ServiceNumbers DEF NoTick, NoVisit, TickType, VisitType
<1>4. /\ conns \in Seq(Connections) /\ Single(conns) /\ streams \in [Connections -> Seq(Nat)]
      /\ next \in [Connections -> Kinds] /\ waited \in [Connections -> Nat]
  BY <1>1 DEF Single, Kinds
<1>5. offered \in [Connections -> [Kinds -> 0..MaxOffered]]
  BY <1>1, ServiceNumbers
<1>6. ServiceShape
  BY <1>1, <1>3, <1>4, <1>5 DEF ServiceShape
<1>7. StreamsBounded
  BY <1>1, ServiceNumbers DEF StreamsBounded
<1>8. VisitBounded /\ Rotation /\ FirstPass /\ CursorIn
  BY <1>1, <1>2 DEF VisitBounded, Rotation, FirstPass, CursorIn
<1>9. NextWaits
  BY <1>1, <1>2 DEF NextWaits
<1> QED
  BY <1>6, <1>7, <1>8, <1>9 DEF ServiceInv

\* Between ticks nothing is said of one.
LEMMA IdleStep ==
  ASSUME stage' = "idle", ServiceShape', StreamsBounded', CursorIn', NextWaits' PROVE ServiceInv'
  BY DEF ServiceInv, VisitBounded, Rotation, FirstPass

LEMMA RegisterKeepsService ==
  ASSUME ServiceInv, NEW c \in Connections, Register(c) PROVE ServiceInv'
<1>1. /\ stage = "idle" /\ c \notin Registered /\ conns' = Append(conns, c)
      /\ cursor' = (IF cursor = NoConn THEN c ELSE cursor)
      /\ next' = [next EXCEPT ![c] = "asset"] /\ waited' = [waited EXCEPT ![c] = 0]
      /\ zombies' = zombies /\ streams' = streams /\ offered' = offered /\ stage' = stage /\ tick' = tick
      /\ visit' = visit
  BY DEF Register
<1>2. ServiceShape /\ StreamsBounded /\ CursorIn /\ NextWaits
  BY DEF ServiceInv
<1>3. conns \in Seq(Connections) /\ Len(conns) \in Nat
  BY <1>2, RingIs DEF ServiceShape
<1>4. /\ conns' \in Seq(Connections) /\ Len(conns') = Len(conns) + 1 /\ conns'[Len(conns) + 1] = c
      /\ \A i \in 1..Len(conns) : conns'[i] = conns[i]
  BY <1>1, <1>3
<1>5. Single(conns')
  <2> SUFFICES ASSUME NEW i \in 1..(Len(conns) + 1), NEW j \in 1..(Len(conns) + 1), conns'[i] = conns'[j] PROVE i = j
    BY <1>4 DEF Single
  <2>1. \A k \in 1..(Len(conns) + 1) : k \in 1..Len(conns) \/ k = Len(conns) + 1
    BY <1>3
  <2>2. \A k \in 1..Len(conns) : conns'[k] = conns[k] /\ conns[k] # c
    BY <1>1, <1>2, <1>4, RingIs
  <2>3. \A k, l \in 1..Len(conns) : conns[k] = conns[l] => k = l
    BY <1>2, RingIs
  <2> QED
    BY <1>4, <2>1, <2>2, <2>3
<1>6. Registered' = Registered \cup {c}
  <2>1. Registered' = {conns'[i] : i \in 1..(Len(conns) + 1)}
    BY <1>4 DEF Registered, ToSet
  <2>2. Registered = {conns[i] : i \in 1..Len(conns)}
    BY <1>3 DEF Registered, ToSet
  <2>3. 1..(Len(conns) + 1) = (1..Len(conns)) \cup {Len(conns) + 1}
    BY <1>3
  <2> QED
    BY <2>1, <2>2, <2>3, <1>4
<1>7. ServiceShape'
  BY <1>1, <1>2, <1>4, <1>5 DEF ServiceShape, Kinds
<1>8. StreamsBounded'
  BY <1>1, <1>2, <1>6 DEF StreamsBounded
<1>9. CursorIn'
  <2>1. conns' # <<>> /\ cursor' # NoConn
    <3>1. NoConn \notin Connections
      BY ServiceAssumption
    <3>2. conns' # <<>>
      BY <1>3, <1>4
    <3> QED
      BY <3>1, <3>2, <1>1
  <2> QED
    BY <1>1, <1>2, <1>6, <2>1 DEF CursorIn
<1>10. NextWaits'
  <2> SUFFICES ASSUME Cardinality(Connections) <= 3, NEW d \in Connections
               PROVE  waited'[d] <= 1 /\ (d \in Registered' /\ waited'[d] = 1 => cursor' = d)
    BY DEF NextWaits
  <2>1. CASE d = c
    BY <2>1, <1>1, <1>2 DEF ServiceShape
  <2>2. CASE d # c
    BY <2>2, <1>1, <1>2, <1>6, ServiceAssumption DEF ServiceShape, NextWaits
  <2> QED
    BY <2>1, <2>2
<1> QED
  BY <1>1, <1>7, <1>8, <1>9, <1>10, IdleStep

LEMMA ClearKeepsService ==
  ASSUME ServiceInv, NEW c \in Connections, Clear(c) PROVE ServiceInv'
<1>1. /\ stage = "idle" /\ c \in Registered /\ conns' = RemoveAt(conns, IndexIn(c))
      /\ cursor' = CursorWithout(c) /\ streams' = [streams EXCEPT ![c] = <<>>]
      /\ offered' = [offered EXCEPT ![c] = [k \in Kinds |-> 0]] /\ zombies' = zombies \ {c}
      /\ next' = next /\ stage' = stage /\ tick' = tick /\ visit' = visit /\ waited' = waited
  BY DEF Clear
<1>2. ServiceShape /\ StreamsBounded /\ CursorIn /\ NextWaits
  BY DEF ServiceInv
<1> DEFINE n == Len(conns)
           p == IndexIn(c)
<1>3. conns \in Seq(Connections) /\ n \in Nat /\ p \in 1..n /\ conns[p] = c
  BY <1>1, <1>2, RingIs DEF ServiceShape
<1>4. conns' \in Seq(Connections) /\ Len(conns') = n - 1
      /\ \A j \in 1..(n - 1) : conns'[j] = conns[IF j < p THEN j ELSE j + 1]
  BY <1>1, <1>3, Removal
<1>5. \A i, j \in 1..n : conns[i] = conns[j] => i = j
  BY <1>2, RingIs
<1> HIDE DEF n, p
<1>6. Single(conns')
  <2> SUFFICES ASSUME NEW i \in 1..(n - 1), NEW j \in 1..(n - 1), conns'[i] = conns'[j] PROVE i = j
    BY <1>4 DEF Single
  <2> DEFINE from(k) == IF k < p THEN k ELSE k + 1
  <2>1. \A k \in 1..(n - 1) : from(k) \in 1..n /\ conns'[k] = conns[from(k)]
    BY SMTT(30), <1>3, <1>4
  <2>2. from(i) = from(j)
    <3> HIDE DEF from
    <3> QED
      BY <2>1, <1>5
  <2> QED
    BY <2>2, <1>3
<1>7. Registered' = Registered \ {c}
  <2>1. Registered' = {conns'[i] : i \in 1..(n - 1)}
    BY <1>4 DEF Registered, ToSet
  <2>2. Registered = {conns[i] : i \in 1..n}
    BY <1>3 DEF Registered, ToSet, n
  <2>3. ASSUME NEW d \in Registered, d # c PROVE d \in Registered'
    <3>1. PICK i \in 1..n : conns[i] = d
      BY <2>2
    <3>2. i # p
      BY <3>1, <2>3, <1>3
    <3> DEFINE j == IF i < p THEN i ELSE i - 1
    <3>3. j \in 1..(n - 1) /\ (IF j < p THEN j ELSE j + 1) = i
      BY <3>1, <3>2, <1>3
    <3>4. conns'[j] = d
      BY <3>1, <3>3, <1>4
    <3> QED
      BY <3>3, <3>4, <2>1
  <2>4. ASSUME NEW d \in Registered' PROVE d \in Registered /\ d # c
    <3>1. PICK j \in 1..(n - 1) : conns'[j] = d
      BY <2>1
    <3> DEFINE i == IF j < p THEN j ELSE j + 1
    <3>2. i \in 1..n /\ i # p /\ conns[i] = d
      BY <3>1, <1>3, <1>4
    <3> HIDE DEF i
    <3> QED
      BY <3>2, <2>2, <1>3, <1>5
  <2> QED
    BY <2>3, <2>4
<1>8. cursor' \in Registered' \cup {NoConn} /\ (cursor' = NoConn <=> n = 1)
      /\ (\A d \in Registered' : cursor = d => cursor' = d)
  <2>1. NoConn \notin Registered
    BY <1>2, RingIs, ServiceAssumption
  <2>2. cursor' = IF n = 1 THEN NoConn ELSE IF cursor = c THEN After(c) ELSE cursor
    BY <1>1 DEF CursorWithout, n
  <2>3. After(c) \in Registered /\ (n # 1 => After(c) # c)
    <3>1. After(c) = conns[IF p = n THEN 1 ELSE p + 1]
      BY DEF After, p, n
    <3> DEFINE o == IF p = n THEN 1 ELSE p + 1
    <3>2. o \in 1..n /\ (n # 1 => o # p)
      BY <1>3
    <3> HIDE DEF o
    <3>3. conns[o] \in Registered
      BY <3>2, <1>2, RingIs DEF n
    <3> QED
      BY <3>1, <3>2, <3>3, <1>3, <1>5 DEF o
  <2>4. cursor \in Registered
    BY <1>1, <1>2, RingIs DEF CursorIn
  <2>5. n = 1 => Registered' = {}
    <3> SUFFICES ASSUME n = 1, NEW d \in Registered' PROVE FALSE
      OBVIOUS
    <3>1. d \in Registered /\ d # c
      BY <1>7
    <3>2. IndexIn(d) \in 1..n /\ conns[IndexIn(d)] = d
      BY <3>1, <1>2, RingIs DEF n
    <3>3. IndexIn(d) = p
      BY <3>2, <1>3
    <3> QED
      BY <3>1, <3>2, <3>3, <1>3
  <2> QED
    BY <2>1, <2>2, <2>3, <2>4, <2>5, <1>7
<1>9. ServiceShape'
  <2>1. streams' \in [Connections -> Seq(Nat)]
    BY <1>1, <1>2 DEF ServiceShape
  <2>2. offered' \in [Connections -> [Kinds -> 0..MaxOffered]]
    <3>1. [k \in Kinds |-> 0] \in [Kinds -> 0..MaxOffered]
      BY ServiceNumbers
    <3> QED
      BY <3>1, <1>1, <1>2 DEF ServiceShape
  <2>3. cursor' \in Connections \cup {NoConn}
    BY <1>7, <1>8, <1>2, RingIs
  <2> QED
    BY <1>1, <1>2, <1>4, <1>6, <2>1, <2>2, <2>3 DEF ServiceShape
<1>10. StreamsBounded'
  <2>1. \A d \in Connections : streams'[d] = IF d = c THEN <<>> ELSE streams[d]
    BY <1>1, <1>2 DEF ServiceShape
  <2>2. Len(<<>>) = 0 /\ 0 <= StreamsMax
    BY ServiceNumbers
  <2> QED
    BY <1>2, <1>7, <2>1, <2>2 DEF StreamsBounded
<1>11. CursorIn'
  <2>1. conns' = <<>> <=> n = 1
    BY <1>3, <1>4
  <2> QED
    BY <1>8, <2>1 DEF CursorIn
<1>12. NextWaits'
  BY <1>1, <1>2, <1>7, <1>8 DEF NextWaits
<1> QED
  BY <1>1, <1>9, <1>10, <1>11, <1>12, IdleStep

LEMMA OfferKeepsService ==
  ASSUME ServiceInv, NEW c \in Connections, NEW k \in Offers, Offer(c, k) PROVE ServiceInv'
<1>1. /\ stage = "idle" /\ offered[c][k] < MaxOffered /\ offered' = [offered EXCEPT ![c][k] = @ + 1]
      /\ conns' = conns /\ cursor' = cursor /\ zombies' = zombies /\ streams' = streams /\ next' = next
      /\ stage' = stage /\ tick' = tick /\ visit' = visit /\ waited' = waited
  BY DEF Offer
<1>2. ServiceShape /\ StreamsBounded /\ CursorIn /\ NextWaits
  BY DEF ServiceInv
<1>3. k \in Kinds
  BY ServiceAssumption DEF Kinds
<1>4. offered[c] \in [Kinds -> 0..MaxOffered] /\ offered[c][k] \in 0..MaxOffered
  BY <1>2, <1>3 DEF ServiceShape
<1>5. offered[c][k] + 1 \in 0..MaxOffered
  BY <1>1, <1>4, ServiceNumbers
<1>6. [offered[c] EXCEPT ![k] = offered[c][k] + 1] \in [Kinds -> 0..MaxOffered]
  BY <1>4, <1>5
<1>7. offered' \in [Connections -> [Kinds -> 0..MaxOffered]]
  BY <1>1, <1>2, <1>6 DEF ServiceShape
<1>8. ServiceShape'
  BY <1>1, <1>2, <1>7 DEF ServiceShape
<1>9. StreamsBounded' /\ CursorIn' /\ NextWaits'
  BY <1>1, <1>2 DEF StreamsBounded, CursorIn, NextWaits, Registered
<1> QED
  BY <1>1, <1>8, <1>9, IdleStep

-----------------------------------------------------------------------------
(* A tick. *)

LEMMA LeastIs == \A a, b \in Nat : Least(a, b) \in Nat /\ Least(a, b) <= a /\ Least(a, b) <= b /\ Least(a, b) \in {a, b}
  BY DEF Least

\* What a tick under way has in it.
LEMMA TickIs ==
  ASSUME ServiceInv, stage # "idle"
  PROVE  /\ tick.bytes \in 0..TickBytes /\ tick.work \in 0..TickWork /\ tick.visited \in Nat
         /\ tick.start \in Registered /\ tick.at \in Registered /\ tick.at \in Connections
         /\ tick.at = TurnFrom(tick.start, tick.visited)
         /\ tick.visited <= Len(conns) /\ Len(conns) \in Nat /\ Len(conns) > 0
         /\ Visited \subseteq tick.seen /\ tick.seen \subseteq Registered
         /\ visit.bytes \in 0..PassBytes /\ visit.work \in 0..PassWork
<1>1. ServiceShape /\ Rotation
  BY DEF ServiceInv
<1>2. tick \in TickType /\ visit \in VisitType
  BY <1>1 DEF ServiceShape
<1>3. tick.bytes \in 0..TickBytes /\ tick.work \in 0..TickWork /\ tick.visited \in Nat
      /\ visit.bytes \in 0..PassBytes /\ visit.work \in 0..PassWork
  BY <1>2 DEF TickType, VisitType
<1>4. /\ tick.start \in Registered /\ tick.visited <= Len(conns) /\ tick.at = TurnFrom(tick.start, tick.visited)
      /\ Visited \subseteq tick.seen /\ tick.seen \subseteq Registered
  BY <1>1 DEF Rotation
<1>5. Len(conns) \in Nat /\ Len(conns) > 0
  BY <1>1, <1>4, RingIs, TurnsGoRound
<1>6. tick.visited \in 0..Len(conns)
  BY <1>3, <1>4, <1>5
<1>7. tick.at \in Registered
  <2> DEFINE from == tick.start
             at == tick.visited
  <2>1. from \in Registered /\ at \in 0..Len(conns) /\ tick.at = TurnFrom(from, at)
    BY <1>4, <1>6
  <2> HIDE DEF from, at
  <2>2. TurnFrom(from, at) \in Registered
    BY <1>1, <2>1, TurnsGoRound
  <2> QED
    BY <2>1, <2>2
<1> QED
  BY <1>1, <1>3, <1>4, <1>5, <1>7, RingIs

\* A pass that is done has seen every connection.
LEMMA PassSeesAll ==
  ASSUME ServiceInv, stage = "visit", PassDone PROVE tick.seen = Registered
<1>1. ServiceShape
  BY DEF ServiceInv
<1>2. tick.start \in Registered /\ Visited \subseteq tick.seen /\ tick.seen \subseteq Registered
  BY TickIs
<1>3. ASSUME NEW d \in Registered PROVE d \in tick.seen
  <2>1. PICK j \in 0..(Len(conns) - 1) : TurnFrom(tick.start, j) = d
    BY <1>1, <1>2, TurnsGoRound
  <2>2. d \in Visited
    BY <2>1 DEF Visited, PassDone
  <2> QED
    BY <1>2, <2>2
<1> QED
  BY <1>2, <1>3

\* A tick that ends has seen two connections if there are two, and if it has not
\* seen all of them the next one begins where it stands.
LEMMA TickEnds ==
  ASSUME ServiceInv, stage = "visit", IF PassDone THEN LastPass ELSE Spent, tick.seen # Registered
  PROVE  /\ ~PassDone /\ tick.visited >= 2 /\ tick.visited < Len(conns) /\ tick.start = cursor
         /\ \A j \in 0..(tick.visited - 1) : TurnFrom(cursor, j) \in tick.seen
         /\ tick.at = TurnFrom(cursor, tick.visited)
<1>1. ~PassDone /\ Spent
  BY PassSeesAll
<1>2. tick.visited \in Nat /\ Len(conns) \in Nat /\ tick.visited < Len(conns)
  BY <1>1, TickIs DEF PassDone
<1>3. /\ tick.start = cursor
      /\ tick.visited = 0 => tick.bytes = TickBytes /\ tick.work = TickWork
      /\ tick.visited = 1 => tick.bytes >= TickBytes - PassBytes /\ tick.work >= TickWork - 1 - PassWork
  BY DEF ServiceInv, FirstPass
<1>4. tick.visited # 0
  BY <1>1, <1>3, ServiceNumbers DEF Spent
<1>5. tick.visited # 1
  <2>1. TickBytes - PassBytes > 0 /\ TickWork - 1 - PassWork > 0
    BY ServiceNumbers
  <2>2. tick.bytes \in Nat /\ tick.work \in Nat
    BY TickIs, ServiceNumbers
  <2> QED
    BY <1>1, <1>3, <2>1, <2>2, ServiceNumbers DEF Spent
<1>6. \A j \in 0..(tick.visited - 1) : TurnFrom(cursor, j) \in tick.seen
  BY <1>3, TickIs DEF Visited
<1>7. tick.at = TurnFrom(cursor, tick.visited)
  BY <1>3, TickIs
<1> QED
  BY <1>1, <1>2, <1>3, <1>4, <1>5, <1>6, <1>7

LEMMA BeginTickKeepsService ==
  ASSUME ServiceInv, BeginTick PROVE ServiceInv'
<1>1. /\ stage = "idle" /\ conns # <<>> /\ stage' = "visit"
      /\ tick' = [bytes |-> TickBytes, work |-> TickWork, before |-> TickBytes, start |-> cursor, at |-> cursor,
                  visited |-> 0, seen |-> {}]
      /\ conns' = conns /\ cursor' = cursor /\ zombies' = zombies /\ streams' = streams /\ offered' = offered
      /\ next' = next /\ visit' = visit /\ waited' = waited
  BY DEF BeginTick
<1>2. ServiceShape /\ StreamsBounded /\ CursorIn /\ NextWaits
  BY DEF ServiceInv
<1>3. cursor \in Registered /\ cursor \in Connections
  BY <1>1, <1>2, RingIs DEF CursorIn
<1>4. tick' \in TickType
  BY <1>1, <1>3, ServiceNumbers DEF TickType
<1>5. ServiceShape'
  BY <1>1, <1>2, <1>4 DEF ServiceShape
<1>6. StreamsBounded' /\ CursorIn' /\ NextWaits' /\ VisitBounded'
  BY <1>1, <1>2 DEF StreamsBounded, CursorIn, NextWaits, Registered, VisitBounded
<1>7. TurnFrom(cursor, 0) = cursor /\ Len(conns) \in Nat
  BY <1>2, <1>3, RingIs, TurnsGoRound
<1>8. Rotation'
  <2>1. Visited' = {}
    BY <1>1 DEF Visited, TurnFrom, IndexIn
  <2>2. TurnFrom(cursor, 0)' = cursor
    BY <1>1, <1>7 DEF TurnFrom, IndexIn
  <2>3. Registered' = Registered
    BY <1>1 DEF Registered
  <2> QED
    BY <1>1, <1>3, <1>7, <2>1, <2>2, <2>3 DEF Rotation, TurnFrom, IndexIn
<1>9. FirstPass'
  BY <1>1 DEF FirstPass
<1> QED
  BY <1>5, <1>6, <1>8, <1>9 DEF ServiceInv

\* Where the tick stands, for a step that leaves the connections alone.
LEMMA SameRing ==
  ASSUME conns' = conns
  PROVE  Registered' = Registered /\ \A c, j : TurnFrom(c, j)' = TurnFrom(c, j)
  BY DEF Registered, TurnFrom, IndexIn

LEMMA RingTick ==
  ASSUME conns' = conns
  PROVE  /\ (TurnFrom(tick.start, tick.visited))' = TurnFrom(tick'.start, tick'.visited)
         /\ Visited' = {TurnFrom(tick'.start, j) : j \in 0..(tick'.visited - 1)}
                        \cup (IF stage' = "visit" THEN {} ELSE {tick'.at})
  BY DEF TurnFrom, IndexIn, Visited

\* A visit to a connection begins, or the connection is passed over.
LEMMA VisitKeepsService ==
  ASSUME ServiceInv, Visit PROVE ServiceInv'
<1> DEFINE c == tick.at
           work == Least(tick.work - 1, PassWork)
<1>1. /\ stage = "visit" /\ tick.visited < Len(conns) /\ ~Spent
      /\ conns' = conns /\ cursor' = cursor /\ zombies' = zombies /\ streams' = streams /\ offered' = offered
      /\ next' = next /\ waited' = waited
  BY DEF Visit
<1>2. ServiceShape /\ StreamsBounded /\ CursorIn /\ NextWaits /\ FirstPass
  BY DEF ServiceInv
<1>3. tick \in TickType /\ visit \in VisitType
  BY <1>2 DEF ServiceShape
<1>4. /\ tick.bytes \in 0..TickBytes /\ tick.work \in 0..TickWork /\ tick.visited \in Nat
      /\ tick.start \in Registered /\ c \in Registered /\ c \in Connections
      /\ c = tick.at /\ c = TurnFrom(tick.start, tick.visited) /\ Len(conns) \in Nat
      /\ Visited \subseteq tick.seen /\ tick.seen \subseteq Registered
  BY <1>1, TickIs
<1>5. tick.work > 0 /\ tick.bytes > 0 /\ tick.work - 1 \in 0..TickWork
  BY <1>1, <1>4, ServiceNumbers DEF Spent
<1>6. \A j \in 0..(tick.visited - 1) : TurnFrom(tick.start, j) \in tick.seen
  BY <1>1, <1>4 DEF Visited
<1>7. (tick.seen \cup {c}) # Registered => tick.seen # Registered
  BY <1>4
<1>8. StreamsBounded' /\ CursorIn' /\ NextWaits'
  BY <1>1, <1>2 DEF StreamsBounded, CursorIn, NextWaits, Registered
<1>9. CASE c \in zombies
  <2>1. /\ tick' = [tick EXCEPT !.work = @ - 1, !.visited = @ + 1, !.at = After(c), !.seen = @ \cup {c}]
        /\ visit' = visit /\ stage' = stage
    BY <1>9 DEF Visit
  <2> HIDE DEF c
  <2>2. After(c) = TurnFrom(tick.start, tick.visited + 1) /\ After(c) \in Registered /\ After(c) \in Connections
    <3>1. tick.visited \in 0..(Len(conns) - 1) /\ tick.visited + 1 \in 0..Len(conns)
      BY <1>1, <1>4
    <3>2. After(TurnFrom(tick.start, tick.visited)) = TurnFrom(tick.start, tick.visited + 1)
          /\ TurnFrom(tick.start, tick.visited + 1) \in Registered
      BY <3>1, <1>2, <1>4, TurnsGoRound
    <3>3. Registered \subseteq Connections
      BY <1>2, RingIs
    <3> QED
      BY <3>2, <3>3, <1>4
  <2>3. /\ tick'.work = tick.work - 1 /\ tick'.visited = tick.visited + 1 /\ tick'.at = After(c)
        /\ tick'.seen = tick.seen \cup {c} /\ tick'.bytes = tick.bytes /\ tick'.start = tick.start
    BY <1>3, <2>1 DEF TickType
  <2>4. tick' \in TickType
    <3>1. tick.seen \cup {c} \in SUBSET Connections /\ tick.visited + 1 \in Nat
      BY <1>3, <1>4 DEF TickType
    <3> QED
      BY <3>1, <1>3, <1>5, <2>1, <2>2 DEF TickType
  <2>5. ServiceShape'
    BY <1>1, <1>2, <2>1, <2>4 DEF ServiceShape
  <2>6. VisitBounded'
    BY <1>1, <2>1 DEF VisitBounded
  <2>7. Visited' \subseteq tick'.seen
    <3>1. Visited' = {TurnFrom(tick.start, j) : j \in 0..tick.visited}
      <4>1. tick'.visited - 1 = tick.visited
        BY <1>4, <2>3
      <4> QED
        BY <1>1, <2>1, <2>3, <4>1, RingTick
    <3>2. \A j \in 0..tick.visited : j \in 0..(tick.visited - 1) \/ j = tick.visited
      BY <1>4
    <3> QED
      BY <3>1, <3>2, <1>4, <1>6, <2>3
  <2>8. Rotation'
    <3>2. tick'.at = (TurnFrom(tick.start, tick.visited))'
      BY <1>1, <2>2, <2>3, RingTick
    <3>3. tick'.visited <= Len(conns)
      BY <1>1, <1>4, <2>3
    <3> QED
      BY <1>1, <1>4, <2>1, <2>3, <2>7, <3>2, <3>3, SameRing DEF Rotation
  <2>9. FirstPass'
    <3> SUFFICES ASSUME tick'.seen # Registered
                 PROVE  /\ tick'.start = cursor
                        /\ tick'.visited = 0 => tick'.bytes = TickBytes /\ tick'.work = TickWork
                        /\ tick'.visited = 1 => tick'.bytes >= TickBytes - PassBytes
                                                /\ tick'.work >= TickWork - 1 - PassWork
      BY <1>1, <2>1, SameRing DEF FirstPass
    <3>1. tick.start = cursor /\ (tick.visited = 0 => tick.bytes = TickBytes /\ tick.work = TickWork)
      BY <1>1, <1>2, <1>7, <2>3 DEF FirstPass
    <3> QED
      BY <3>1, <1>4, <2>3, ServiceNumbers
  <2> QED
    BY <1>8, <2>5, <2>6, <2>8, <2>9 DEF ServiceInv
<1>10. CASE c \notin zombies
  <2>1. /\ tick' = [tick EXCEPT !.work = @ - 1, !.seen = @ \cup {c}]
        /\ visit' = [NoVisit EXCEPT !.bytes = PassBudget(tick.bytes), !.work = IF work = 0 THEN 0 ELSE work - 1]
        /\ stage' \in {"leave", "round", "accept"}
    BY <1>10 DEF Visit
  <2> HIDE DEF c
  <2>2. /\ tick'.work = tick.work - 1 /\ tick'.visited = tick.visited /\ tick'.at = tick.at
        /\ tick'.seen = tick.seen \cup {c} /\ tick'.bytes = tick.bytes /\ tick'.start = tick.start
    BY <1>3, <2>1 DEF TickType
  <2>3. tick' \in TickType
    BY <1>3, <1>4, <1>5, <2>1 DEF TickType
  <2>4. PassBudget(tick.bytes) \in 0..PassBytes /\ work \in 0..PassWork
    <3>1. tick.bytes \in Nat /\ tick.work - 1 \in Nat /\ PassBytes \in Nat /\ PassWork \in Nat
      BY <1>4, <1>5, ServiceNumbers
    <3>2. Least(tick.bytes, PassBytes) \in 0..PassBytes /\ Least(tick.work - 1, PassWork) \in 0..PassWork
      <4>1. \A a, b \in Nat : Least(a, b) \in 0..b
        BY LeastIs
      <4> QED
        BY <3>1, <4>1
    <3> QED
      BY <3>2 DEF PassBudget, work
  <2> HIDE DEF work
  <2>5. (IF work = 0 THEN 0 ELSE work - 1) \in 0..PassWork /\ (IF work = 0 THEN 0 ELSE work - 1) <= work
    BY <2>4, ServiceNumbers
  <2>6. visit' \in VisitType /\ visit'.bytes = PassBudget(tick.bytes) /\ visit'.work = (IF work = 0 THEN 0 ELSE work - 1)
    <3>1. visit' = [bytes |-> PassBudget(tick.bytes), work |-> (IF work = 0 THEN 0 ELSE work - 1), round |-> 0,
                    accepted |-> FALSE, i |-> 1, progressed |-> FALSE]
      BY <2>1 DEF NoVisit
    <3> DEFINE left == IF work = 0 THEN 0 ELSE work - 1
    <3>2. left \in 0..PassWork
      BY <2>5
    <3> HIDE DEF left
    <3> QED
      BY <3>1, <3>2, <2>4 DEF VisitType, left
  <2>7. ServiceShape'
    BY <1>1, <1>2, <2>1, <2>3, <2>6 DEF ServiceShape
  <2>8. VisitBounded'
    <3>1. PassBudget(tick.bytes)' = PassBudget(tick.bytes) /\ PassBudget(tick'.bytes) = PassBudget(tick.bytes)
          /\ Least(tick'.work, PassWork) = work
      BY <2>2 DEF PassBudget, work, Least
    <3>2. visit'.bytes <= PassBudget(tick'.bytes) /\ visit'.work <= Least(tick'.work, PassWork)
      BY <3>1, <2>4, <2>5, <2>6, ServiceNumbers
    <3> QED
      BY <3>2 DEF VisitBounded, PassBudget, Least
  <2>9. Visited' \subseteq tick'.seen
    <3>1. Visited' = {TurnFrom(tick.start, j) : j \in 0..(tick.visited - 1)} \cup {c}
      BY <1>1, <1>4, <2>1, <2>2, RingTick
    <3> QED
      BY <3>1, <1>6, <2>2
  <2>10. Rotation'
    <3>1. tick'.at = (TurnFrom(tick.start, tick.visited))'
      BY <1>1, <1>4, <2>2, RingTick
    <3> QED
      BY <1>1, <1>4, <2>1, <2>2, <2>9, <3>1, SameRing DEF Rotation
  <2>11. FirstPass'
    <3> SUFFICES ASSUME tick'.seen # Registered
                 PROVE  /\ tick'.start = cursor
                        /\ tick'.visited = 0 => tick'.bytes = TickBytes /\ tick'.work = TickWork - 1
      BY <1>1, <2>1, SameRing DEF FirstPass
    <3>1. tick.start = cursor /\ (tick.visited = 0 => tick.bytes = TickBytes /\ tick.work = TickWork)
      BY <1>1, <1>2, <1>7, <2>2 DEF FirstPass
    <3> QED
      BY <3>1, <2>2
  <2> QED
    BY <1>8, <2>7, <2>8, <2>10, <2>11 DEF ServiceInv
<1> QED
  BY <1>9, <1>10

\* A step of a visit changes the streams of its connection and uses up what the
\* visit has; the tick does not move.
LEMMA VisitStep ==
  ASSUME ServiceInv,
         conns' = conns, cursor' = cursor, tick' = tick, waited' = waited,
         stage \in {"round", "accept", "leave"}, stage' \in {"round", "accept", "leave"},
         zombies' \subseteq Connections, next' \in [Connections -> Kinds],
         offered' \in [Connections -> [Kinds -> 0..MaxOffered]],
         visit' \in VisitType, visit'.bytes <= visit.bytes, visit'.work <= visit.work,
         NEW f \in Seq(Nat), Len(f) <= StreamsMax, streams' = [streams EXCEPT ![tick.at] = f]
  PROVE  ServiceInv'
<1>1. ServiceShape /\ StreamsBounded /\ VisitBounded /\ CursorIn /\ Rotation /\ FirstPass /\ NextWaits
  BY DEF ServiceInv
<1>2. tick.at \in Registered /\ tick.at \in Connections
  BY TickIs
<1>3. \A c \in Connections : streams'[c] = IF c = tick.at THEN f ELSE streams[c]
  BY <1>1, <1>2 DEF ServiceShape
<1>4. streams' \in [Connections -> Seq(Nat)]
  BY <1>1 DEF ServiceShape
<1>5. ServiceShape'
  BY <1>1, <1>4 DEF ServiceShape
<1>6. StreamsBounded'
  BY <1>1, <1>2, <1>3, SameRing DEF StreamsBounded
<1>7. VisitBounded'
  <2>1. visit.bytes <= PassBudget(tick.bytes) /\ visit.work <= Least(tick.work, PassWork)
    BY <1>1 DEF VisitBounded
  <2>2. visit.bytes \in Nat /\ visit.work \in Nat /\ visit'.bytes \in Nat /\ visit'.work \in Nat
    BY <1>1, ServiceNumbers DEF ServiceShape, VisitType
  <2>3. PassBudget(tick.bytes) \in Nat /\ Least(tick.work, PassWork) \in Nat
    <3>1. tick.bytes \in Nat /\ tick.work \in Nat /\ PassBytes \in Nat /\ PassWork \in Nat
      BY TickIs, ServiceNumbers
    <3> QED
      BY <3>1, LeastIs DEF PassBudget
  <2>4. visit'.bytes <= PassBudget(tick.bytes) /\ visit'.work <= Least(tick.work, PassWork)
    BY <2>1, <2>2, <2>3
  <2> QED
    BY <2>4 DEF VisitBounded, PassBudget, Least
<1>8. CursorIn' /\ NextWaits'
  BY <1>1, SameRing DEF CursorIn, NextWaits
<1>9. Visited' = Visited
  BY DEF Visited, TurnFrom, IndexIn
<1>10. Rotation'
  BY <1>1, <1>9, SameRing, RingTick DEF Rotation
<1>11. FirstPass'
  BY <1>1, SameRing DEF FirstPass
<1> QED
  BY <1>5, <1>6, <1>7, <1>8, <1>10, <1>11 DEF ServiceInv

\* The visit of a step, and what its connection has.
LEMMA VisitIs ==
  ASSUME ServiceInv, stage \in {"round", "accept", "leave"}
  PROVE  /\ visit \in VisitType /\ visit.i \in Nat /\ visit.i >= 1 /\ visit.round \in Nat
         /\ visit.bytes \in 0..PassBytes /\ visit.work \in 0..PassWork
         /\ tick.at \in Connections /\ streams[tick.at] \in Seq(Nat) /\ Len(streams[tick.at]) \in Nat
         /\ Len(streams[tick.at]) <= StreamsMax
         /\ streams \in [Connections -> Seq(Nat)] /\ zombies \subseteq Connections
         /\ next \in [Connections -> Kinds] /\ offered \in [Connections -> [Kinds -> 0..MaxOffered]]
<1>1. ServiceShape /\ StreamsBounded
  BY DEF ServiceInv
<1>2. tick.at \in Connections
  BY TickIs
<1>3. visit \in VisitType /\ streams \in [Connections -> Seq(Nat)] /\ zombies \subseteq Connections
      /\ next \in [Connections -> Kinds] /\ offered \in [Connections -> [Kinds -> 0..MaxOffered]]
  BY <1>1 DEF ServiceShape
<1>4. visit.i \in Nat /\ visit.i >= 1 /\ visit.round \in Nat /\ visit.bytes \in 0..PassBytes /\ visit.work \in 0..PassWork
  BY <1>3 DEF VisitType
<1>5. streams[tick.at] \in Seq(Nat) /\ Len(streams[tick.at]) \in Nat
  BY <1>2, <1>3
<1> QED
  BY <1>1, <1>2, <1>3, <1>4, <1>5 DEF StreamsBounded

\* A round may go on: there is a stream, and work left for it.
LEMMA RoundIs ==
  ASSUME ServiceInv, stage = "round", ~RoundStops
  PROVE  /\ visit.i \in 1..Len(streams[tick.at]) /\ streams[tick.at][visit.i] \in Nat
         /\ visit.work - 1 \in 0..PassWork /\ visit.work - 1 <= visit.work
         /\ streams[tick.at][visit.i] # 0 => visit.bytes - 1 \in 0..PassBytes /\ visit.bytes - 1 <= visit.bytes
<1>1. /\ visit.i \in Nat /\ visit.i >= 1 /\ visit.bytes \in 0..PassBytes /\ visit.work \in 0..PassWork
      /\ streams[tick.at] \in Seq(Nat) /\ Len(streams[tick.at]) \in Nat
  BY VisitIs
<1>2. visit.i <= Len(streams[tick.at]) /\ visit.work # 0
  BY <1>1 DEF RoundStops
<1>3. visit.i \in 1..Len(streams[tick.at])
  BY <1>1, <1>2
<1>4. streams[tick.at][visit.i] \in Nat
  BY <1>1, <1>3
<1>5. visit.work - 1 \in 0..PassWork /\ visit.work - 1 <= visit.work
  BY <1>1, <1>2, ServiceNumbers
<1>6. streams[tick.at][visit.i] # 0 => visit.bytes # 0
  BY <1>2 DEF RoundStops
<1>7. streams[tick.at][visit.i] # 0 => visit.bytes - 1 \in 0..PassBytes /\ visit.bytes - 1 <= visit.bytes
  BY <1>1, <1>6, ServiceNumbers
<1> QED
  BY <1>3, <1>4, <1>5, <1>7

\* A stream that has come to a number, or is freed.
LEMMA StreamComesTo ==
  ASSUME ServiceInv, stage = "round", ~RoundStops, NEW m \in Nat, Becomes(m)
  PROVE  \E f \in Seq(Nat) : Len(f) <= StreamsMax /\ streams' = [streams EXCEPT ![tick.at] = f]
<1> DEFINE f == [streams[tick.at] EXCEPT ![visit.i] = m]
<1>1. streams[tick.at] \in Seq(Nat) /\ visit.i \in 1..Len(streams[tick.at]) /\ Len(streams[tick.at]) <= StreamsMax
  BY VisitIs, RoundIs
<1>2. f \in Seq(Nat) /\ Len(f) = Len(streams[tick.at])
  BY <1>1
<1>3. streams' = [streams EXCEPT ![tick.at] = f]
  BY DEF Becomes
<1> QED
  BY <1>1, <1>2, <1>3

LEMMA StreamIsFreed ==
  ASSUME ServiceInv, stage = "round", ~RoundStops, IsFreed
  PROVE  \E f \in Seq(Nat) : Len(f) <= StreamsMax /\ streams' = [streams EXCEPT ![tick.at] = f]
<1> DEFINE f == RemoveAt(streams[tick.at], visit.i)
<1>1. streams[tick.at] \in Seq(Nat) /\ visit.i \in 1..Len(streams[tick.at]) /\ Len(streams[tick.at]) <= StreamsMax
      /\ Len(streams[tick.at]) \in Nat
  BY VisitIs, RoundIs
<1>2. f \in Seq(Nat) /\ Len(f) = Len(streams[tick.at]) - 1
  BY <1>1, Removal
<1>3. streams' = [streams EXCEPT ![tick.at] = f]
  BY DEF IsFreed
<1> HIDE DEF f
<1>4. Len(f) <= StreamsMax
  BY <1>1, <1>2, ServiceNumbers
<1> QED
  BY <1>2, <1>3, <1>4

LEMMA StreamsStay ==
  ASSUME ServiceInv, stage \in {"round", "accept", "leave"}, streams' = streams
  PROVE  \E f \in Seq(Nat) : Len(f) <= StreamsMax /\ streams' = [streams EXCEPT ![tick.at] = f]
<1>1. streams' = [streams EXCEPT ![tick.at] = streams[tick.at]]
  BY VisitIs
<1> QED
  BY <1>1, VisitIs

LEMMA ProgressKeepsService ==
  ASSUME ServiceInv, Progress PROVE ServiceInv'
<1> DEFINE s == streams[tick.at][visit.i]
<1>1. /\ stage = "round" /\ ~RoundStops /\ conns' = conns /\ cursor' = cursor /\ zombies' = zombies
      /\ offered' = offered /\ next' = next /\ stage' = stage /\ tick' = tick /\ waited' = waited
  BY DEF Progress
<1>2. /\ visit \in VisitType /\ visit.i \in Nat /\ visit.i >= 1 /\ zombies \subseteq Connections
      /\ next \in [Connections -> Kinds] /\ offered \in [Connections -> [Kinds -> 0..MaxOffered]]
      /\ visit.bytes \in 0..PassBytes
  BY <1>1, VisitIs
<1>3. s \in Nat /\ visit.work - 1 \in 0..PassWork /\ visit.work - 1 <= visit.work
      /\ (s # 0 => visit.bytes - 1 \in 0..PassBytes /\ visit.bytes - 1 <= visit.bytes)
  BY <1>1, RoundIs
<1>4. CASE s = 0 /\ (\E m \in 1..MaxUnits : Becomes(m))
           /\ visit' = [visit EXCEPT !.work = @ - 1, !.progressed = TRUE, !.i = @ + 1]
  <2>1. PICK m \in Nat : Becomes(m)
    BY <1>4, ServiceNumbers
  <2>2. PICK f \in Seq(Nat) : Len(f) <= StreamsMax /\ streams' = [streams EXCEPT ![tick.at] = f]
    BY <1>1, <2>1, StreamComesTo
  <2>3. visit' \in VisitType /\ visit'.bytes = visit.bytes /\ visit'.work = visit.work - 1
    <3>1. visit.i + 1 \in Nat \ {0}
      BY <1>2
    <3> QED
      BY <1>2, <1>3, <1>4, <3>1 DEF VisitType
  <2>4. visit'.bytes <= visit.bytes
    BY <1>2, <2>3
  <2> QED
    BY <1>1, <1>2, <1>3, <2>2, <2>3, <2>4, VisitStep
<1>5. CASE s # 0 /\ (IF s = 1 THEN IsFreed ELSE Becomes(s - 1))
           /\ visit' = [visit EXCEPT !.work = @ - 1, !.bytes = @ - 1, !.progressed = TRUE,
                                     !.i = IF s = 1 THEN @ ELSE @ + 1]
  <2> HIDE DEF s
  <2>1. s - 1 \in Nat
    BY <1>3, <1>5
  <2>2. \E f \in Seq(Nat) : Len(f) <= StreamsMax /\ streams' = [streams EXCEPT ![tick.at] = f]
    BY <1>1, <1>5, <2>1, StreamComesTo, StreamIsFreed
  <2>3. visit' \in VisitType /\ visit'.bytes = visit.bytes - 1 /\ visit'.work = visit.work - 1
    <3> DEFINE i == IF s = 1 THEN visit.i ELSE visit.i + 1
    <3>1. i \in Nat \ {0}
      BY <1>2
    <3>2. visit' = [visit EXCEPT !.work = @ - 1, !.bytes = @ - 1, !.progressed = TRUE, !.i = i]
      BY <1>5
    <3> HIDE DEF i
    <3> QED
      BY <1>2, <1>3, <1>5, <3>1, <3>2 DEF VisitType
  <2> QED
    BY <1>1, <1>2, <1>3, <1>5, <2>2, <2>3, VisitStep
<1> QED
  BY <1>4, <1>5 DEF Progress

LEMMA BlockedKeepsService ==
  ASSUME ServiceInv, Blocked PROVE ServiceInv'
<1>1. /\ stage = "round" /\ ~RoundStops /\ conns' = conns /\ cursor' = cursor /\ zombies' = zombies
      /\ offered' = offered /\ next' = next /\ stage' = stage /\ tick' = tick /\ waited' = waited
      /\ streams' = streams
  BY DEF Blocked
<1>2. PICK read \in BOOLEAN : visit' = [visit EXCEPT !.work = @ - 1, !.i = @ + 1, !.progressed = @ \/ read]
  BY DEF Blocked
<1>3. /\ visit \in VisitType /\ visit.i \in Nat /\ zombies \subseteq Connections
      /\ next \in [Connections -> Kinds] /\ offered \in [Connections -> [Kinds -> 0..MaxOffered]]
      /\ visit.bytes \in 0..PassBytes /\ visit.work - 1 \in 0..PassWork /\ visit.work - 1 <= visit.work
  BY <1>1, VisitIs, RoundIs
<1>4. visit' \in VisitType /\ visit'.bytes = visit.bytes /\ visit'.work = visit.work - 1
  <2> DEFINE p == visit.progressed \/ read
  <2>1. visit.i + 1 \in Nat \ {0} /\ p \in BOOLEAN
    BY <1>3
  <2>2. visit' = [visit EXCEPT !.work = @ - 1, !.i = @ + 1, !.progressed = p]
    BY <1>2
  <2> HIDE DEF p
  <2> QED
    BY <1>3, <2>1, <2>2 DEF VisitType
<1>5. visit'.bytes <= visit.bytes
  BY <1>3, <1>4
<1> QED
  BY <1>1, <1>3, <1>4, <1>5, StreamsStay, VisitStep

LEMMA ResetKeepsService ==
  ASSUME ServiceInv, Reset PROVE ServiceInv'
<1>1. /\ stage = "round" /\ ~RoundStops /\ IsFreed /\ conns' = conns /\ cursor' = cursor
      /\ offered' = offered /\ next' = next /\ stage' = stage /\ tick' = tick /\ waited' = waited
  BY DEF Reset
<1>2. PICK refused \in BOOLEAN :
         /\ zombies' \in {zombies} \cup IF refused THEN {zombies \cup {tick.at}} ELSE {}
         /\ visit' = [visit EXCEPT !.work = @ - 1, !.progressed = @ \/ refused]
  BY DEF Reset
<1>3. /\ visit \in VisitType /\ tick.at \in Connections /\ zombies \subseteq Connections
      /\ next \in [Connections -> Kinds] /\ offered \in [Connections -> [Kinds -> 0..MaxOffered]]
      /\ visit.bytes \in 0..PassBytes /\ visit.work - 1 \in 0..PassWork /\ visit.work - 1 <= visit.work
  BY <1>1, VisitIs, RoundIs
<1>4. visit' \in VisitType /\ visit'.bytes = visit.bytes /\ visit'.work = visit.work - 1
  <2> DEFINE p == visit.progressed \/ refused
  <2>1. p \in BOOLEAN
    OBVIOUS
  <2>2. visit' = [visit EXCEPT !.work = @ - 1, !.progressed = p]
    BY <1>2
  <2> HIDE DEF p
  <2> QED
    BY <1>3, <2>1, <2>2 DEF VisitType
<1>5. visit'.bytes <= visit.bytes
  BY <1>3, <1>4
<1>6. zombies' \subseteq Connections
  BY <1>2, <1>3
<1> QED
  BY <1>1, <1>3, <1>4, <1>5, <1>6, StreamIsFreed, VisitStep

LEMMA RoundEndKeepsService ==
  ASSUME ServiceInv, RoundEnd PROVE ServiceInv'
<1>1. /\ stage = "round" /\ conns' = conns /\ cursor' = cursor /\ zombies' = zombies
      /\ offered' = offered /\ next' = next /\ tick' = tick /\ waited' = waited
      /\ stage' \in {"round", "accept", "leave"}
      /\ streams' = (IF visit.progressed THEN [streams EXCEPT ![tick.at] = Rotated(@)] ELSE streams)
      /\ visit' = [visit EXCEPT !.round = @ + 1, !.i = 1, !.progressed = FALSE]
  BY DEF RoundEnd
<1>2. /\ visit \in VisitType /\ visit.round \in Nat /\ zombies \subseteq Connections
      /\ next \in [Connections -> Kinds] /\ offered \in [Connections -> [Kinds -> 0..MaxOffered]]
      /\ visit.bytes \in 0..PassBytes /\ visit.work \in 0..PassWork
      /\ streams[tick.at] \in Seq(Nat) /\ Len(streams[tick.at]) \in Nat /\ Len(streams[tick.at]) <= StreamsMax
  BY <1>1, VisitIs
<1>3. visit' \in VisitType /\ visit'.bytes = visit.bytes /\ visit'.work = visit.work
  <2>1. 1 \in Nat \ {0} /\ visit.round + 1 \in Nat /\ FALSE \in BOOLEAN
    BY <1>2
  <2> QED
    BY <1>1, <1>2, <2>1 DEF VisitType
<1>4. visit'.bytes <= visit.bytes /\ visit'.work <= visit.work
  BY <1>2, <1>3
<1>5. Rotated(streams[tick.at]) \in Seq(Nat) /\ Len(Rotated(streams[tick.at])) = Len(streams[tick.at])
  <2> DEFINE s == streams[tick.at]
  <2>1. s \in Seq(Nat) /\ Len(s) \in Nat
    BY <1>2
  <2> HIDE DEF s
  <2>2. CASE Len(s) > 1
    <3>1. Tail(s) \in Seq(Nat) /\ Len(Tail(s)) = Len(s) - 1 /\ s[1] \in Nat
      BY <2>1, <2>2
    <3>2. <<s[1]>> \in Seq(Nat) /\ Len(<<s[1]>>) = 1
      BY <3>1
    <3>3. Tail(s) \o <<s[1]>> \in Seq(Nat) /\ Len(Tail(s) \o <<s[1]>>) = Len(Tail(s)) + Len(<<s[1]>>)
      BY <3>1, <3>2
    <3>4. Len(Tail(s) \o <<s[1]>>) = Len(s)
      BY <2>1, <3>1, <3>2, <3>3
    <3> QED
      BY <2>2, <3>3, <3>4 DEF Rotated, s
  <2> QED
    BY <2>1, <2>2 DEF Rotated, s
<1>6. \E f \in Seq(Nat) : Len(f) <= StreamsMax /\ streams' = [streams EXCEPT ![tick.at] = f]
  BY <1>1, <1>2, <1>5, StreamsStay
<1> QED
  BY <1>1, <1>2, <1>3, <1>4, <1>6, VisitStep

LEMMA AcceptKeepsService ==
  ASSUME ServiceInv, Accept PROVE ServiceInv'
<1> DEFINE c == tick.at
           k == Accepted(c)
<1>1. /\ stage = "accept" /\ MayAccept(c) /\ conns' = conns /\ cursor' = cursor /\ zombies' = zombies
      /\ stage' = stage /\ tick' = tick /\ waited' = waited
      /\ offered' = [offered EXCEPT ![c][k] = @ - 1] /\ next' = [next EXCEPT ![c] = Other(k)]
      /\ streams' = [streams EXCEPT ![c] = Append(@, 0)]
      /\ visit' = [visit EXCEPT !.work = @ - 1, !.i = @ + 1]
  BY DEF Accept
<1>2. /\ visit \in VisitType /\ visit.i \in Nat /\ zombies \subseteq Connections /\ c \in Connections
      /\ next \in [Connections -> Kinds] /\ offered \in [Connections -> [Kinds -> 0..MaxOffered]]
      /\ visit.bytes \in 0..PassBytes /\ visit.work \in 0..PassWork
      /\ streams \in [Connections -> Seq(Nat)]
      /\ streams[c] \in Seq(Nat) /\ Len(streams[c]) \in Nat
  BY <1>1, VisitIs
<1>3. \A j \in Kinds : Other(j) \in Kinds /\ \A l \in Kinds : l = j \/ l = Other(j)
  BY DEF Other, Kinds
<1> HIDE DEF c
<1>4. k \in Kinds /\ offered[c][k] > 0
  <2>1. PICK j \in Kinds : offered[c][j] > 0
    BY <1>1 DEF MayAccept
  <2>2. FirstKind(c) \in Kinds
    BY <1>2 DEF FirstKind
  <2>3. CASE offered[c][FirstKind(c)] > 0
    BY <2>2, <2>3 DEF Accepted
  <2>4. CASE ~(offered[c][FirstKind(c)] > 0)
    <3>1. k = Other(FirstKind(c))
      BY <2>4 DEF Accepted
    <3>2. j = Other(FirstKind(c))
      BY <1>3, <2>1, <2>2, <2>4
    <3> QED
      BY <1>3, <2>1, <2>2, <3>1, <3>2
  <2> QED
    BY <2>3, <2>4
<1> HIDE DEF k
<1>5. offered' \in [Connections -> [Kinds -> 0..MaxOffered]]
  <2>1. offered[c] \in [Kinds -> 0..MaxOffered] /\ offered[c][k] \in 0..MaxOffered
    BY <1>2, <1>4
  <2>2. offered[c][k] - 1 \in 0..MaxOffered
    BY <1>4, <2>1, ServiceNumbers
  <2>3. [offered[c] EXCEPT ![k] = offered[c][k] - 1] \in [Kinds -> 0..MaxOffered]
    BY <2>1, <2>2
  <2> QED
    BY <1>1, <1>2, <2>3
<1>6. next' \in [Connections -> Kinds]
  BY <1>1, <1>2, <1>3, <1>4
<1>7. visit.work > 0 /\ Len(streams[c]) < StreamsMax
  BY <1>1 DEF MayAccept, Tries, StreamRoom
<1>8. visit' \in VisitType /\ visit'.bytes = visit.bytes /\ visit'.work = visit.work - 1
  <2>1. visit.i + 1 \in Nat \ {0} /\ visit.work - 1 \in 0..PassWork
    BY SMTT(30), <1>2, <1>7, ServiceNumbers
  <2> QED
    BY <1>1, <1>2, <2>1 DEF VisitType
<1>9. visit'.bytes <= visit.bytes /\ visit'.work <= visit.work
  BY <1>2, <1>8, ServiceNumbers
<1> DEFINE f == Append(streams[c], 0)
<1>10. f \in Seq(Nat) /\ Len(f) = Len(streams[c]) + 1
  BY <1>2
<1>11. streams' = [streams EXCEPT ![c] = f]
  BY <1>1
<1> HIDE DEF f
<1>12. Len(f) <= StreamsMax
  BY <1>2, <1>7, <1>10, ServiceNumbers
<1>13. streams' = [streams EXCEPT ![tick.at] = f]
  BY <1>11 DEF c
<1> QED
  BY <1>1, <1>2, <1>5, <1>6, <1>8, <1>9, <1>10, <1>12, <1>13, VisitStep

LEMMA AcceptEndKeepsService ==
  ASSUME ServiceInv, AcceptEnd PROVE ServiceInv'
<1> DEFINE work == IF Tries(tick.at) THEN visit.work - 1 ELSE visit.work
<1>1. /\ stage = "accept" /\ conns' = conns /\ cursor' = cursor /\ zombies' = zombies /\ streams' = streams
      /\ offered' = offered /\ next' = next /\ tick' = tick /\ waited' = waited
      /\ stage' \in {"round", "accept", "leave"}
      /\ visit' = [visit EXCEPT !.work = work, !.i = 1, !.accepted = TRUE]
  BY DEF AcceptEnd
<1>2. /\ visit \in VisitType /\ zombies \subseteq Connections
      /\ next \in [Connections -> Kinds] /\ offered \in [Connections -> [Kinds -> 0..MaxOffered]]
      /\ visit.bytes \in 0..PassBytes /\ visit.work \in 0..PassWork
  BY <1>1, VisitIs
<1>3. work \in 0..PassWork /\ work <= visit.work
  BY <1>2, ServiceNumbers DEF Tries
<1> HIDE DEF work
<1>4. visit' \in VisitType /\ visit'.bytes = visit.bytes /\ visit'.work = work
  <2>1. 1 \in Nat \ {0} /\ TRUE \in BOOLEAN
    OBVIOUS
  <2> QED
    BY <1>1, <1>2, <1>3, <2>1 DEF VisitType
<1>5. visit'.bytes <= visit.bytes /\ visit'.work <= visit.work
  BY <1>2, <1>3, <1>4
<1> QED
  BY <1>1, <1>2, <1>4, <1>5, StreamsStay, VisitStep

\* The end of a visit.
LEMMA LeaveKeepsService ==
  ASSUME ServiceInv, Leave PROVE ServiceInv'
<1> DEFINE bytes == tick.bytes - (PassBudget(tick.bytes) - visit.bytes)
           work  == tick.work - (Least(tick.work, PassWork) - visit.work)
<1>1. /\ stage = "leave" /\ stage' = "visit" /\ visit' = NoVisit
      /\ tick' = [tick EXCEPT !.bytes = bytes, !.work = work, !.visited = @ + 1, !.at = After(tick.at)]
      /\ conns' = conns /\ cursor' = cursor /\ zombies' = zombies /\ streams' = streams
      /\ offered' = offered /\ next' = next /\ waited' = waited
  BY DEF Leave
<1>2. ServiceShape /\ StreamsBounded /\ VisitBounded /\ CursorIn /\ Rotation /\ FirstPass /\ NextWaits
  BY DEF ServiceInv
<1>3. tick \in TickType
  BY <1>2 DEF ServiceShape
<1>4. /\ tick.bytes \in 0..TickBytes /\ tick.work \in 0..TickWork /\ tick.visited \in Nat
      /\ tick.start \in Registered /\ tick.at \in Connections
      /\ tick.at = TurnFrom(tick.start, tick.visited) /\ Len(conns) \in Nat
      /\ Visited \subseteq tick.seen /\ tick.seen \subseteq Registered
      /\ visit.bytes \in 0..PassBytes /\ visit.work \in 0..PassWork
  BY <1>1, TickIs
<1>5. /\ PassBudget(tick.bytes) \in Nat /\ PassBudget(tick.bytes) <= tick.bytes /\ PassBudget(tick.bytes) <= PassBytes
      /\ Least(tick.work, PassWork) \in Nat /\ Least(tick.work, PassWork) <= tick.work
      /\ Least(tick.work, PassWork) <= PassWork
  <2>1. tick.bytes \in Nat /\ tick.work \in Nat /\ PassBytes \in Nat /\ PassWork \in Nat
    BY <1>4, ServiceNumbers
  <2> QED
    BY <2>1, LeastIs DEF PassBudget
<1>6. visit.bytes <= PassBudget(tick.bytes) /\ visit.work <= Least(tick.work, PassWork)
  BY <1>1, <1>2 DEF VisitBounded
<1>7. /\ bytes \in 0..TickBytes /\ work \in 0..TickWork
      /\ bytes >= tick.bytes - PassBytes /\ work >= tick.work - PassWork
  <2> DEFINE pb == PassBudget(tick.bytes)
             pw == Least(tick.work, PassWork)
             b == tick.bytes
             w == tick.work
             vb == visit.bytes
             vw == visit.work
  <2>1. /\ pb \in Nat /\ pb <= b /\ pb <= PassBytes /\ pw \in Nat /\ pw <= w /\ pw <= PassWork
        /\ vb \in Nat /\ vb <= pb /\ vw \in Nat /\ vw <= pw /\ b \in 0..TickBytes /\ w \in 0..TickWork
        /\ PassBytes \in Nat /\ PassWork \in Nat /\ TickBytes \in Nat /\ TickWork \in Nat
    BY <1>4, <1>5, <1>6, ServiceNumbers
  <2>2. bytes = b - (pb - vb) /\ work = w - (pw - vw)
    OBVIOUS
  <2> HIDE DEF bytes, work, pb, pw, b, w, vb, vw
  <2>3. bytes \in 0..TickBytes /\ work \in 0..TickWork /\ bytes >= b - PassBytes /\ work >= w - PassWork
    BY <2>1, <2>2
  <2> QED
    BY <2>3 DEF b, w
<1> HIDE DEF bytes, work
<1>8. tick.visited < Len(conns)
  BY <1>1, <1>2 DEF Rotation
<1>9. After(tick.at) = TurnFrom(tick.start, tick.visited + 1) /\ After(tick.at) \in Connections
  <2>1. tick.visited \in 0..(Len(conns) - 1) /\ tick.visited + 1 \in 0..Len(conns)
    BY <1>4, <1>8
  <2>2. After(TurnFrom(tick.start, tick.visited)) = TurnFrom(tick.start, tick.visited + 1)
        /\ TurnFrom(tick.start, tick.visited + 1) \in Registered
    BY <2>1, <1>2, <1>4, TurnsGoRound
  <2>3. Registered \subseteq Connections
    BY <1>2, RingIs
  <2> QED
    BY <2>2, <2>3, <1>4
<1>10. /\ tick'.bytes = bytes /\ tick'.work = work /\ tick'.visited = tick.visited + 1 /\ tick'.at = After(tick.at)
       /\ tick'.seen = tick.seen /\ tick'.start = tick.start
  BY <1>1, <1>3 DEF TickType
<1>11. tick' \in TickType
  <2>1. tick.visited + 1 \in Nat
    BY <1>4
  <2> QED
    BY <2>1, <1>1, <1>3, <1>7, <1>9 DEF TickType
<1>12. NoVisit \in VisitType
  BY ServiceNumbers DEF NoVisit, VisitType
<1>13. ServiceShape'
  BY <1>1, <1>2, <1>11, <1>12 DEF ServiceShape
<1>14. StreamsBounded' /\ CursorIn' /\ NextWaits' /\ VisitBounded'
  BY <1>1, <1>2, SameRing DEF StreamsBounded, CursorIn, NextWaits, VisitBounded
<1>15. Visited' \subseteq tick'.seen
  <2>1. tick'.visited - 1 = tick.visited
    BY <1>4, <1>10
  <2>2. Visited' = {TurnFrom(tick.start, j) : j \in 0..tick.visited}
    BY <1>1, <1>10, <2>1, RingTick
  <2>3. \A j \in 0..tick.visited : j \in 0..(tick.visited - 1) \/ j = tick.visited
    BY <1>4
  <2>4. tick.at \in Visited /\ \A j \in 0..(tick.visited - 1) : TurnFrom(tick.start, j) \in Visited
    BY <1>1 DEF Visited
  <2> QED
    BY <1>4, <1>10, <2>2, <2>3, <2>4
<1>16. Rotation'
  <2>1. tick'.at = (TurnFrom(tick.start, tick.visited))'
    BY <1>1, <1>9, <1>10, RingTick
  <2>2. tick'.visited <= Len(conns)
    BY <1>4, <1>8, <1>10
  <2> QED
    BY <1>1, <1>4, <1>10, <1>15, <2>1, <2>2, SameRing DEF Rotation
<1>17. FirstPass'
  <2> SUFFICES ASSUME tick.seen # Registered
               PROVE  /\ tick.start = cursor /\ tick'.visited # 0
                      /\ tick'.visited = 1 => bytes >= TickBytes - PassBytes /\ work >= TickWork - 1 - PassWork
    BY <1>1, <1>10, SameRing DEF FirstPass
  <2>1. tick.start = cursor /\ (tick.visited = 0 => tick.bytes = TickBytes /\ tick.work = TickWork - 1)
    BY <1>1, <1>2 DEF FirstPass
  <2> QED
    <3>1. tick'.visited = tick.visited + 1 /\ tick.visited \in Nat
      BY <1>4, <1>10
    <3>2. tick.visited = 0 => bytes >= TickBytes - PassBytes /\ work >= TickWork - 1 - PassWork
      BY <2>1, <1>7
    <3> QED
      BY <2>1, <3>1, <3>2
<1> QED
  BY <1>13, <1>14, <1>16, <1>17 DEF ServiceInv

\* Another pass, after all have been visited.
LEMMA NextPassKeepsService ==
  ASSUME ServiceInv, NextPass PROVE ServiceInv'
<1>1. /\ stage = "visit" /\ PassDone
      /\ tick' = [tick EXCEPT !.start = After(@), !.at = After(tick.start), !.visited = 0, !.before = tick.bytes]
      /\ conns' = conns /\ cursor' = cursor /\ zombies' = zombies /\ streams' = streams
      /\ offered' = offered /\ next' = next /\ stage' = stage /\ visit' = visit /\ waited' = waited
  BY DEF NextPass
<1>2. ServiceShape /\ StreamsBounded /\ CursorIn /\ NextWaits
  BY DEF ServiceInv
<1>3. tick \in TickType
  BY <1>2 DEF ServiceShape
<1>4. tick.seen = Registered
  BY <1>1, PassSeesAll
<1>5. tick.start \in Registered /\ Len(conns) \in Nat /\ Len(conns) > 0 /\ tick.bytes \in 0..TickBytes
  BY <1>1, TickIs
<1>6. After(tick.start) \in Registered /\ After(tick.start) \in Connections
  <2>1. 0 \in 0..(Len(conns) - 1) /\ 0 + 1 \in 0..Len(conns)
    BY <1>5
  <2>2. After(TurnFrom(tick.start, 0)) = TurnFrom(tick.start, 0 + 1) /\ TurnFrom(tick.start, 0) = tick.start
        /\ TurnFrom(tick.start, 0 + 1) \in Registered
    BY <2>1, <1>2, <1>5, TurnsGoRound
  <2>3. Registered \subseteq Connections
    BY <1>2, RingIs
  <2> QED
    BY <2>2, <2>3
<1>7. /\ tick'.start = After(tick.start) /\ tick'.at = After(tick.start) /\ tick'.visited = 0
      /\ tick'.seen = tick.seen
  BY <1>1, <1>3 DEF TickType
<1>8. tick' \in TickType
  <2>1. tick.bytes \in Nat
    BY <1>5, ServiceNumbers
  <2> QED
    BY <2>1, <1>1, <1>3, <1>6 DEF TickType
<1>9. ServiceShape'
  BY <1>1, <1>2, <1>8 DEF ServiceShape
<1>10. StreamsBounded' /\ CursorIn' /\ NextWaits' /\ VisitBounded'
  BY <1>1, <1>2, SameRing DEF StreamsBounded, CursorIn, NextWaits, VisitBounded
<1>11. Rotation'
  <2>1. TurnFrom(After(tick.start), 0) = After(tick.start)
    BY <1>2, <1>6, TurnsGoRound
  <2>2. tick'.at = (TurnFrom(tick.start, tick.visited))'
    BY <1>1, <1>7, <2>1, RingTick
  <2>3. Visited' = {}
    BY <1>1, <1>7, RingTick
  <2> QED
    BY <1>1, <1>4, <1>5, <1>6, <1>7, <2>2, <2>3, SameRing DEF Rotation
<1>12. FirstPass'
  BY <1>1, <1>4, <1>7, SameRing DEF FirstPass
<1> QED
  BY <1>9, <1>10, <1>11, <1>12 DEF ServiceInv

\* The end of a tick: who was not seen is at most one of three, and is next.
LEMMA EndKeepsService ==
  ASSUME ServiceInv, End PROVE ServiceInv'
<1>1. /\ stage = "visit" /\ (IF PassDone THEN LastPass ELSE Spent)
      /\ stage' = "idle" /\ cursor' = NextCursor /\ tick' = NoTick
      /\ waited' = [c \in Connections |-> IF c \in tick.seen \/ c \notin Registered THEN 0 ELSE waited[c] + 1]
      /\ conns' = conns /\ zombies' = zombies /\ streams' = streams /\ offered' = offered /\ next' = next
      /\ visit' = visit
  BY DEF End
<1>2. ServiceShape /\ StreamsBounded /\ CursorIn /\ NextWaits
  BY DEF ServiceInv
<1>3. /\ tick.visited \in Nat /\ tick.start \in Registered /\ tick.at \in Registered
      /\ Len(conns) \in Nat /\ Len(conns) > 0 /\ tick.seen \subseteq Registered
  BY <1>1, TickIs
<1>4. NextCursor \in Registered
  <2>1. 0 \in 0..(Len(conns) - 1) /\ 0 + 1 \in 0..Len(conns)
    BY <1>3
  <2>2. After(TurnFrom(tick.start, 0)) = TurnFrom(tick.start, 0 + 1) /\ TurnFrom(tick.start, 0) = tick.start
        /\ TurnFrom(tick.start, 0 + 1) \in Registered
    BY <2>1, <1>2, <1>3, TurnsGoRound
  <2> QED
    BY <2>2, <1>3 DEF NextCursor
<1>5. Registered \subseteq Connections /\ NoConn \notin Connections /\ (conns = <<>> <=> Registered = {})
  BY <1>2, RingIs, ServiceAssumption
<1>6. NoTick \in TickType
  BY ServiceNumbers DEF NoTick, TickType
<1>7. waited' \in [Connections -> Nat]
  BY <1>1, <1>2 DEF ServiceShape
<1>8. ServiceShape'
  BY <1>1, <1>2, <1>4, <1>5, <1>6, <1>7 DEF ServiceShape
<1>9. StreamsBounded'
  BY <1>1, <1>2, SameRing DEF StreamsBounded
<1>10. CursorIn'
  BY <1>1, <1>4, <1>5, SameRing DEF CursorIn
<1>11. NextWaits'
  <2> SUFFICES ASSUME Cardinality(Connections) <= 3, NEW c \in Connections
               PROVE  waited'[c] <= 1 /\ (c \in Registered /\ waited'[c] = 1 => cursor' = c)
    BY <1>1, SameRing DEF NextWaits
  <2>1. CASE c \in tick.seen \/ c \notin Registered
    BY <2>1, <1>1
  <2>2. CASE c \notin tick.seen /\ c \in Registered
    <3>1. /\ ~PassDone /\ tick.visited >= 2 /\ tick.visited < Len(conns) /\ tick.start = cursor
          /\ \A j \in 0..(tick.visited - 1) : TurnFrom(cursor, j) \in tick.seen
          /\ tick.at = TurnFrom(cursor, tick.visited)
      BY <1>1, <2>2, TickEnds
    <3>2. Len(conns) <= 3
      BY <1>2, <1>3, RingCount
    <3>3. Len(conns) = 3 /\ tick.visited = 2
      <4> DEFINE n == Len(conns)
                 v == tick.visited
      <4>1. n \in Nat /\ v \in Nat /\ v >= 2 /\ v < n /\ n <= 3
        BY <1>3, <3>1, <3>2
      <4> HIDE DEF n, v
      <4>2. n = 3 /\ v = 2
        BY <4>1
      <4> QED
        BY <4>2 DEF n, v
    <3>4. cursor \in Registered
      BY <1>3, <3>1
    <3>5. PICK j \in 0..(Len(conns) - 1) : TurnFrom(cursor, j) = c
      BY <1>2, <2>2, <3>4, TurnsGoRound
    <3>6. j \notin 0..1 /\ 0 \in 0..(tick.visited - 1) /\ 1 \in 0..(tick.visited - 1)
      BY <2>2, <3>1, <3>3, <3>5
    <3>7. j = 2
      BY <3>3, <3>6
    <3>8. cursor' = c
      BY <1>1, <3>1, <3>3, <3>5, <3>7 DEF NextCursor
    <3>9. cursor # c
      <4>1. TurnFrom(cursor, 0) = cursor
        BY <1>2, <3>4, TurnsGoRound
      <4> QED
        BY <4>1, <2>2, <3>1, <3>6
    <3>10. waited[c] = 0
      <4>1. waited[c] \in Nat
        BY <1>2 DEF ServiceShape
      <4>2. waited[c] <= 1 /\ waited[c] # 1
        BY <1>2, <2>2, <3>9 DEF NextWaits
      <4> QED
        BY <4>1, <4>2
    <3> QED
      BY <1>1, <2>2, <3>8, <3>10
  <2> QED
    BY <2>1, <2>2
<1> QED
  BY <1>1, <1>8, <1>9, <1>10, <1>11, IdleStep

LEMMA ServiceInvariance == ServiceSpec => []ServiceInv
<1>1. ASSUME ServiceInv, [ServiceNext]_service_vars PROVE ServiceInv'
  <2>1. CASE UNCHANGED service_vars
    <3>1. /\ conns' = conns /\ cursor' = cursor /\ zombies' = zombies /\ streams' = streams /\ offered' = offered
          /\ next' = next /\ stage' = stage /\ tick' = tick /\ visit' = visit /\ waited' = waited
      BY <2>1 DEF service_vars
    <3>2. (ServiceShape /\ StreamsBounded /\ VisitBounded /\ CursorIn /\ NextWaits /\ FirstPass)'
      BY <1>1, <3>1
      DEF ServiceInv, ServiceShape, StreamsBounded, VisitBounded, CursorIn, NextWaits, FirstPass, Registered, PassBudget
    <3>3. Rotation'
      <4>1. Visited' = Visited
        BY <3>1 DEF Visited, TurnFrom, IndexIn
      <4> QED
        BY <1>1, <3>1, <4>1, RingTick, SameRing DEF ServiceInv, Rotation
    <3> QED
      BY <3>2, <3>3 DEF ServiceInv
  <2>2. CASE \E c \in Connections : Register(c) \/ Clear(c) \/ \E k \in Offers : Offer(c, k)
    BY <1>1, <2>2, RegisterKeepsService, ClearKeepsService, OfferKeepsService
  <2>3. CASE BeginTick \/ Visit \/ NextPass \/ End \/ Leave
    BY <1>1, <2>3, BeginTickKeepsService, VisitKeepsService, NextPassKeepsService, EndKeepsService, LeaveKeepsService
  <2>4. CASE Progress \/ Blocked \/ Reset \/ RoundEnd \/ Accept \/ AcceptEnd
    BY <1>1, <2>4, ProgressKeepsService, BlockedKeepsService, ResetKeepsService, RoundEndKeepsService,
       AcceptKeepsService, AcceptEndKeepsService
  <2> QED
    BY <1>1, <2>1, <2>2, <2>3, <2>4 DEF ServiceNext
<1> QED
  BY <1>1, ServiceInitially, PTL DEF ServiceSpec

LEMMA InvIsFair == ServiceInv => RotationFair
<1> SUFFICES ASSUME ServiceInv PROVE RotationFair
  OBVIOUS
<1>1. ServiceShape /\ StreamsBounded /\ CursorIn /\ Rotation /\ NextWaits
  BY DEF ServiceInv
<1>2. SVTypeOK
  <2>1. tick.bytes \in 0..TickBytes /\ tick.work \in 0..TickWork
        /\ visit.bytes \in 0..PassBytes /\ visit.work \in 0..PassWork
    BY <1>1 DEF ServiceShape, TickType, VisitType
  <2>2. \A c \in Connections : offered[c] \in [Kinds -> 0..MaxOffered]
    BY <1>1 DEF ServiceShape
  <2> QED
    BY <1>1, <2>1, <2>2 DEF SVTypeOK, StreamsBounded
<1>3. CursorValid
  BY <1>1, TickIs DEF CursorIn, CursorValid
<1>4. PeersRun
  <2> SUFFICES ASSUME stage = "visit", IF PassDone THEN LastPass ELSE Spent
               PROVE  Cardinality(tick.seen) >= Least(2, Len(conns))
    BY DEF PeersRun
  <2>1. /\ tick.start \in Registered /\ tick.seen \subseteq Registered /\ Len(conns) \in Nat
        /\ IsFiniteSet(Registered) /\ Cardinality(Registered) = Len(conns)
    BY <1>1, TickIs, RingCount
  <2>2. Least(2, Len(conns)) <= Len(conns) /\ Least(2, Len(conns)) <= 2 /\ Least(2, Len(conns)) \in Nat
    BY <2>1, LeastIs
  <2>3. CASE tick.seen = Registered
    BY <2>1, <2>2, <2>3
  <2>4. CASE tick.seen # Registered
    <3>1. /\ tick.visited >= 2 /\ tick.visited < Len(conns) /\ tick.start = cursor /\ tick.visited \in Nat
          /\ \A j \in 0..(tick.visited - 1) : TurnFrom(cursor, j) \in tick.seen
      BY <2>4, TickEnds, TickIs
    <3> DEFINE a == TurnFrom(cursor, 0)
               b == TurnFrom(cursor, 1)
    <3>2. a \in tick.seen /\ b \in tick.seen
      BY <3>1
    <3>3. a # b
      <4>1. 0 \in 0..(Len(conns) - 1) /\ 1 \in 0..(Len(conns) - 1)
        BY <2>1, <3>1
      <4> QED
        BY <4>1, <1>1, <2>1, <3>1, TurnsGoRound
    <3> HIDE DEF a, b
    <3>4. IsFiniteSet(tick.seen) /\ Cardinality(tick.seen) \in Nat
      BY <2>1, FS_Subset, FS_CardinalityType
    <3>5. IsFiniteSet({a}) /\ Cardinality({a}) = 1
      BY FS_Singleton
    <3>6. IsFiniteSet({a, b}) /\ Cardinality({a, b}) = 2
      <4>1. {a} \cup {b} = {a, b} /\ b \notin {a}
        BY <3>3
      <4> QED
        BY <4>1, <3>5, FS_AddElement
    <3>7. {a, b} \in SUBSET tick.seen
      BY <3>2
    <3>8. Cardinality({a, b}) <= Cardinality(tick.seen)
      BY <3>4, <3>7, FS_Subset
    <3> QED
      BY <2>2, <3>4, <3>6, <3>8
  <2> QED
    BY <2>3, <2>4
<1>5. NoneWaits
  BY <1>1 DEF NextWaits, NoneWaits
<1> QED
  BY <1>2, <1>3, <1>4, <1>5 DEF RotationFair

\* RotationFair: for any connections, budgets and kinds of streams, however
\* connections come, go and are cut off: the cursor is a connection that is
\* registered, no tick or visit exceeds its budgets, a tick that ends has visited two
\* connections if there are two, and of three each is visited in one of two ticks.
THEOREM RotationIsFair == ServiceSpec => []RotationFair
  BY ServiceInvariance, InvIsFair, PTL

\* Turns add up.
LEMMA TurnsAdd ==
  ASSUME ServiceShape, NEW c \in Registered, NEW v \in 0..(Len(conns) - 1), NEW k \in 0..(Len(conns) - 1 - v)
  PROVE  TurnFrom(TurnFrom(c, v), k) = TurnFrom(c, v + k)
<1> DEFINE n == Len(conns)
           p == IndexIn(c)
           q == IF p + v <= n THEN p + v ELSE p + v - n
<1>1. n \in Nat /\ p \in 1..n /\ v \in 0..(n - 1) /\ k \in 0..(n - 1 - v)
  BY RingIs
<1>2. q \in 1..n
  <2> HIDE DEF n, p
  <2> QED
    BY <1>1
<1>3. TurnFrom(c, v) = conns[q]
  BY DEF TurnFrom
<1>4. IndexIn(conns[q]) = q
  <2> HIDE DEF q
  <2> QED
    BY <1>2, RingIs
<1>5. TurnFrom(conns[q], k) = conns[IF q + k <= n THEN q + k ELSE q + k - n]
  <2> HIDE DEF q
  <2> QED
    BY <1>4 DEF TurnFrom
<1>6. TurnFrom(c, v + k) = conns[IF p + (v + k) <= n THEN p + (v + k) ELSE p + (v + k) - n]
  BY DEF TurnFrom
<1>7. (IF q + k <= n THEN q + k ELSE q + k - n) = (IF p + (v + k) <= n THEN p + (v + k) ELSE p + (v + k) - n)
  <2> HIDE DEF n, p
  <2> QED
    BY <1>1
<1> HIDE DEF n, p, q
<1> QED
  BY <1>3, <1>5, <1>6, <1>7

\* What a tick has not visited comes closer to the cursor, by two turns or more.
ComesCloser ==
    \A c \in Registered \ tick.seen : \A j \in 0..(Len(conns) - 1) :
        TurnFrom(cursor, j) = c => j >= 2 /\ \E k \in 0..(j - 2) : (TurnFrom(cursor, k))' = c

LEMMA EndAdvances == ASSUME ServiceInv, End PROVE ComesCloser
<1> SUFFICES ASSUME NEW c \in Registered \ tick.seen, NEW j \in 0..(Len(conns) - 1), TurnFrom(cursor, j) = c
             PROVE  j >= 2 /\ \E k \in 0..(j - 2) : (TurnFrom(cursor, k))' = c
  BY DEF ComesCloser
<1>1. /\ stage = "visit" /\ (IF PassDone THEN LastPass ELSE Spent) /\ cursor' = NextCursor /\ conns' = conns
  BY DEF End
<1>2. ServiceShape
  BY DEF ServiceInv
<1> DEFINE v == tick.visited
           n == Len(conns)
<1>3. /\ ~PassDone /\ v >= 2 /\ v < n /\ tick.start = cursor /\ tick.at = TurnFrom(cursor, v)
      /\ \A i \in 0..(v - 1) : TurnFrom(cursor, i) \in tick.seen
  BY <1>1, TickEnds
<1>4. v \in Nat /\ n \in Nat /\ cursor \in Registered
  BY <1>1, <1>3, TickIs
<1>5. ~(j \in 0..(v - 1))
  BY <1>3
<1>6. j \in Nat /\ j >= v /\ j <= n - 1
  <2> HIDE DEF v, n
  <2>1. j \in 0..(n - 1)
    BY DEF n
  <2> QED
    BY <1>4, <1>5, <2>1
<1>k. PICK k \in Nat : k = j - v
  <2> HIDE DEF v, n
  <2> QED
    BY <1>4, <1>6
<1>7. v \in 0..(n - 1) /\ k \in 0..(n - 1 - v) /\ k \in 0..(j - 2) /\ v + k = j /\ j >= 2
  <2> HIDE DEF v, n
  <2> QED
    BY <1>k, <1>3, <1>4, <1>6
<1>8. cursor' = TurnFrom(cursor, v)
  BY <1>1, <1>3 DEF NextCursor
<1>9. TurnFrom(TurnFrom(cursor, v), k) = TurnFrom(cursor, v + k)
  <2> HIDE DEF v
  <2> QED
    BY <1>2, <1>4, <1>7, TurnsAdd
<1> HIDE DEF v, n
<1>10. (TurnFrom(cursor, k))' = TurnFrom(cursor', k)
  BY <1>1 DEF TurnFrom, IndexIn
<1> QED
  BY <1>7, <1>8, <1>9, <1>10

\* For any number of connections, the end of a tick brings each one it did not
\* visit at least two turns closer to the cursor: who stays registered waits for at
\* most half as many ticks as there are connections before it, unless others
\* register before it.
THEOREM RotationAdvances == ServiceSpec => [][End => ComesCloser]_service_vars
<1>1. ServiceInv /\ [ServiceNext]_service_vars => [End => ComesCloser]_service_vars
  BY EndAdvances
<1> QED
  BY <1>1, ServiceInvariance, PTL DEF ServiceSpec

=============================================================================
