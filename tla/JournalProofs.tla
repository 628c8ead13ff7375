---------------------------- MODULE JournalProofs ----------------------------
(***************************************************************************)
(* Proofs about GameplayJournal: the retained files are a journal that the *)
(* validator accepts, within the limits; what saved files hold of reported *)
(* transactions is told by their watermarks; and a watermark goes back     *)
(* only for a cause the code has.                                          *)
(*                                                                         *)
(* The first part is about sequences of files alone: what opening a file,  *)
(* dropping the oldest ones and appending a record preserve.  The second   *)
(* part is the inductive invariant JournalInv with one lemma per action;   *)
(* the actions that write no record share QuietKeeps.                      *)
(***************************************************************************)
EXTENDS GameplayJournal, TLAPS

-----------------------------------------------------------------------------
(* The journal as its files. *)

\* Chained in a form that survives the loss of the oldest files: if a record
\* has any earlier record of its run, it also has its predecessor.
Linked(fs) ==
    \A r, s \in RecordsOf(fs) :
        r.run = s.run /\ r.seq < s.seq =>
            /\ r.phase # "torn"
            /\ s.prev < s.seq
            /\ \E q \in RecordsOf(fs) : q.seq = s.prev /\ r.seq <= q.seq

Bounded(fs) == Len(fs) <= Retention /\ \A i \in DOMAIN fs : Len(fs[i]) <= HardLimit

WellFormed(fs) ==
    /\ fs \in Seq(Seq(Record))
    /\ InOrder(fs) /\ Linked(fs) /\ Bundled(fs) /\ Bounded(fs)

LEMMA RecordFields ==
    ASSUME NEW r \in Record
    PROVE  /\ r.seq \in Nat /\ r.seq >= 1 /\ r.run \in Nat /\ r.prev \in Nat
           /\ r.of \in SUBSET Txs /\ r.doms \in SUBSET Domains
BY LimitsAssumption DEF Record

\* Where the records of files are.
LEMMA RecordsAre ==
    ASSUME NEW fs \in Seq(Seq(Record))
    PROVE  /\ \A r : r \in RecordsOf(fs) <=> \E i \in DOMAIN fs : \E k \in DOMAIN fs[i] : r = fs[i][k]
           /\ \A r : r \in RecordsOf(fs) <=> \E i \in DOMAIN fs : r \in ToSet(fs[i])
           /\ RecordsOf(fs) \subseteq Record
<1>1. \A i \in DOMAIN fs : fs[i] \in Seq(Record)
  OBVIOUS
<1>2. \A r : r \in RecordsOf(fs) <=> \E i \in DOMAIN fs : r \in ToSet(fs[i])
  BY DEF RecordsOf
<1>3. \A i \in DOMAIN fs : \A r : r \in ToSet(fs[i]) <=> \E k \in DOMAIN fs[i] : r = fs[i][k]
  BY DEF ToSet
<1>4. \A i \in DOMAIN fs : \A k \in DOMAIN fs[i] : fs[i][k] \in Record
  BY <1>1
<1>5. \A r : r \in RecordsOf(fs) <=> \E i \in DOMAIN fs : \E k \in DOMAIN fs[i] : r = fs[i][k]
  BY <1>2, <1>3
<1>6. RecordsOf(fs) \subseteq Record
  BY <1>4, <1>5
<1>7. QED
  BY <1>2, <1>5, <1>6

\* Order makes the place of a record unique.
LEMMA OnePlace ==
    ASSUME NEW fs \in Seq(Seq(Record)), InOrder(fs), NEW i \in DOMAIN fs, NEW j \in DOMAIN fs,
           NEW r \in ToSet(fs[i]), NEW s \in ToSet(fs[j]), r.seq <= s.seq
    PROVE  i <= j
<1>1. /\ fs[i] \in Seq(Record) /\ fs[j] \in Seq(Record) /\ i \in Nat /\ j \in Nat
  OBVIOUS
<1>2. PICK k \in DOMAIN fs[i] : r = fs[i][k]
  BY DEF ToSet
<1>3. PICK l \in DOMAIN fs[j] : s = fs[j][l]
  BY DEF ToSet
<1>4. r \in Record /\ s \in Record
  BY <1>1, <1>2, <1>3
<1>5. r.seq \in Nat /\ s.seq \in Nat
  BY <1>4, RecordFields
<1>6. j < i => s.seq < r.seq
  BY <1>2, <1>3 DEF InOrder
<1>7. QED
  BY <1>1, <1>5, <1>6

LEMMA LeastOfTwo ==
    ASSUME NEW a \in Nat, NEW b \in Nat
    PROVE  Min({a, b}) \in Nat /\ Min({a, b}) <= a /\ Min({a, b}) <= b
<1>1. \E x \in {a, b} : \A y \in {a, b} : x <= y
  OBVIOUS
<1>2. Min({a, b}) \in {a, b} /\ \A y \in {a, b} : Min({a, b}) <= y
  BY <1>1 DEF Min
<1>3. QED
  BY <1>2

\* journal_enforce_retention() keeps the newest files.
LEMMA RetainedIs ==
    ASSUME NEW fs \in Seq(Seq(Record))
    PROVE  \E k \in Nat :
              /\ k <= Len(fs) /\ Len(fs) - k <= Retention - 1
              /\ Retained(fs) \in Seq(Seq(Record)) /\ Len(Retained(fs)) = Len(fs) - k
              /\ \A i \in 1..(Len(fs) - k) : Retained(fs)[i] = fs[k + i]
<1>1. Len(fs) \in Nat /\ Retention - 1 \in Nat
  BY LimitsAssumption
<1> DEFINE m == Min({Len(fs), Retention - 1})
           k == Len(fs) - m
<1>2. m \in Nat /\ m <= Len(fs) /\ m <= Retention - 1
  BY <1>1, LeastOfTwo
<1>3. Retained(fs) = SubSeq(fs, k + 1, Len(fs))
  BY DEF Retained
<1> HIDE DEF m
<1>4. k \in Nat /\ k <= Len(fs) /\ Len(fs) - k <= Retention - 1
  BY <1>1, <1>2
<1> HIDE DEF k
<1>5. \A i \in (k + 1)..Len(fs) : fs[i] \in Seq(Record)
  BY <1>4
<1>6. /\ Retained(fs) \in Seq(Seq(Record)) /\ Len(Retained(fs)) = Len(fs) - k
      /\ \A i \in 1..(Len(fs) - k) : Retained(fs)[i] = fs[k + i]
  BY <1>1, <1>3, <1>4, <1>5
<1>7. QED
  BY <1>4, <1>6

LEMMA Shifted ==
    ASSUME NEW n \in Nat, NEW k \in Nat, k <= n
    PROVE  /\ \A i \in 1..(n - k + 1) : i # n - k + 1 =>
                 i \in 1..(n - k) /\ i + k \in 1..n /\ k + i = i + k
           /\ \A j \in 1..n : j > k =>
                 j - k \in 1..(n - k) /\ j - k \in 1..(n - k + 1) /\ k + (j - k) = j
OBVIOUS

LEMMA OpenedIs ==
    ASSUME NEW fs \in Seq(Seq(Record))
    PROVE  \E k \in Nat :
              /\ k <= Len(fs) /\ Len(fs) - k + 1 <= Retention
              /\ Opened(fs) \in Seq(Seq(Record)) /\ Len(Opened(fs)) = Len(fs) - k + 1
              /\ \A i \in 1..(Len(fs) - k) : Opened(fs)[i] = fs[k + i]
              /\ Opened(fs)[Len(fs) - k + 1] = <<>>
<1>1. PICK k \in Nat :
              /\ k <= Len(fs) /\ Len(fs) - k <= Retention - 1
              /\ Retained(fs) \in Seq(Seq(Record)) /\ Len(Retained(fs)) = Len(fs) - k
              /\ \A i \in 1..(Len(fs) - k) : Retained(fs)[i] = fs[k + i]
  BY RetainedIs
<1> DEFINE rs == Retained(fs)
<1>2. rs \in Seq(Seq(Record)) /\ Len(rs) = Len(fs) - k /\ <<>> \in Seq(Record)
  BY <1>1
<1>3. Opened(fs) = Append(rs, <<>>)
  BY DEF Opened
<1>4. \A i \in 1..(Len(fs) - k) : rs[i] = fs[k + i]
  BY <1>1
<1> HIDE DEF rs
<1>5. /\ Opened(fs) \in Seq(Seq(Record)) /\ Len(Opened(fs)) = Len(rs) + 1
      /\ \A i \in 1..Len(rs) : Opened(fs)[i] = rs[i]
      /\ Opened(fs)[Len(rs) + 1] = <<>>
  BY <1>2, <1>3
<1>6. Len(fs) - k + 1 <= Retention
  BY <1>1, LimitsAssumption
<1>7. QED
  BY <1>1, <1>2, <1>4, <1>5, <1>6

\* Opening a file drops whole files at the old end only.
LEMMA OpenedKeeps ==
    ASSUME NEW fs \in Seq(Seq(Record)), InOrder(fs)
    PROVE  /\ RecordsOf(Opened(fs)) \subseteq RecordsOf(fs)
           /\ \A r \in RecordsOf(Opened(fs)), q \in RecordsOf(fs) :
                 r.seq <= q.seq => q \in RecordsOf(Opened(fs))
           /\ InOrder(Opened(fs))
           /\ \A i \in DOMAIN Opened(fs) : \A r \in ToSet(Opened(fs)[i]) :
                 \E j \in DOMAIN fs : r \in ToSet(fs[j]) /\ ToSet(fs[j]) \subseteq RecordsOf(Opened(fs))
           /\ \A i, j \in DOMAIN Opened(fs) : \A r \in ToSet(Opened(fs)[i]), s \in ToSet(Opened(fs)[j]) :
                 \E n \in Nat : i + n \in DOMAIN fs /\ j + n \in DOMAIN fs
                                /\ r \in ToSet(fs[i + n]) /\ s \in ToSet(fs[j + n])
<1> DEFINE gs == Opened(fs)
<1>1. PICK k \in Nat :
              /\ k <= Len(fs) /\ Len(fs) - k + 1 <= Retention
              /\ gs \in Seq(Seq(Record)) /\ Len(gs) = Len(fs) - k + 1
              /\ \A i \in 1..(Len(fs) - k) : gs[i] = fs[k + i]
              /\ gs[Len(fs) - k + 1] = <<>>
  BY OpenedIs
<1> HIDE DEF gs
<1>2. DOMAIN fs = 1..Len(fs) /\ DOMAIN gs = 1..(Len(fs) - k + 1) /\ Len(fs) \in Nat
  BY <1>1
<1>shift. /\ \A i \in 1..(Len(fs) - k + 1) : i # Len(fs) - k + 1 =>
                 i \in 1..(Len(fs) - k) /\ i + k \in 1..Len(fs) /\ k + i = i + k
      /\ \A j \in 1..Len(fs) : j > k =>
                 j - k \in 1..(Len(fs) - k) /\ j - k \in 1..(Len(fs) - k + 1) /\ k + (j - k) = j
  <2>1. Len(fs) \in Nat /\ k \in Nat /\ k <= Len(fs)
    BY <1>1, <1>2
  <2>2. QED
    BY ONLY <2>1, Shifted
<1>3. \A i \in DOMAIN gs : \A n \in DOMAIN gs[i] : i + k \in DOMAIN fs /\ gs[i] = fs[i + k]
  <2> SUFFICES ASSUME NEW i \in DOMAIN gs, NEW n \in DOMAIN gs[i]
               PROVE  i + k \in DOMAIN fs /\ gs[i] = fs[i + k]
    OBVIOUS
  <2>1. i # Len(fs) - k + 1
    BY <1>1
  <2>2. i \in 1..(Len(fs) - k) /\ i + k \in 1..Len(fs) /\ k + i = i + k
    BY <1>shift, <1>2, <2>1, Zenon
  <2>3. gs[i] = fs[k + i]
    BY <1>1, <2>2
  <2>4. QED
    BY <1>2, <2>2, <2>3
<1>4. \A j \in DOMAIN fs : j > k => j - k \in DOMAIN gs /\ gs[j - k] = fs[j]
  <2> SUFFICES ASSUME NEW j \in DOMAIN fs, j > k
               PROVE  j - k \in DOMAIN gs /\ gs[j - k] = fs[j]
    OBVIOUS
  <2>1. j - k \in 1..(Len(fs) - k) /\ j - k \in 1..(Len(fs) - k + 1) /\ k + (j - k) = j
    BY <1>shift, <1>2, Zenon
  <2>2. gs[j - k] = fs[k + (j - k)]
    BY <1>1, <2>1
  <2>3. QED
    BY <1>2, <2>1, <2>2
<1>5. \A i \in DOMAIN gs : \A r \in ToSet(gs[i]) : i + k \in DOMAIN fs /\ r \in ToSet(fs[i + k])
  BY <1>3 DEF ToSet
<1>6. \A j \in DOMAIN fs : j > k => \A r \in ToSet(fs[j]) : r \in RecordsOf(gs)
  BY <1>1, <1>4, RecordsAre
<1>7. RecordsOf(gs) \subseteq RecordsOf(fs)
  BY <1>1, <1>5, RecordsAre
<1>8. \A r \in RecordsOf(gs), q \in RecordsOf(fs) : r.seq <= q.seq => q \in RecordsOf(gs)
  <2> SUFFICES ASSUME NEW r \in RecordsOf(gs), NEW q \in RecordsOf(fs), r.seq <= q.seq
               PROVE  q \in RecordsOf(gs)
    OBVIOUS
  <2>1. PICK i \in DOMAIN gs : r \in ToSet(gs[i])
    BY <1>1, RecordsAre
  <2>2. PICK j \in DOMAIN fs : q \in ToSet(fs[j])
    BY RecordsAre
  <2>3. i + k <= j
    BY <1>5, <2>1, <2>2, OnePlace
  <2>4. j > k
    BY <1>2, <2>1, <2>2, <2>3
  <2>5. QED
    BY <1>6, <2>2, <2>4
<1>9. InOrder(gs)
  <2> SUFFICES ASSUME NEW i \in DOMAIN gs, NEW j \in DOMAIN gs, NEW m \in DOMAIN gs[i], NEW n \in DOMAIN gs[j],
                      i < j \/ (i = j /\ m < n)
               PROVE  gs[i][m].seq < gs[j][n].seq
    BY DEF InOrder
  <2>1. i + k \in DOMAIN fs /\ gs[i] = fs[i + k] /\ j + k \in DOMAIN fs /\ gs[j] = fs[j + k]
    BY <1>3
  <2>2. i + k < j + k \/ (i + k = j + k /\ m < n)
    BY <1>2
  <2>3. QED
    BY <2>1, <2>2 DEF InOrder
<1>10. \A i \in DOMAIN gs : \A r \in ToSet(gs[i]) :
                 \E j \in DOMAIN fs : r \in ToSet(fs[j]) /\ ToSet(fs[j]) \subseteq RecordsOf(gs)
  <2> SUFFICES ASSUME NEW i \in DOMAIN gs, NEW r \in ToSet(gs[i])
               PROVE  \E j \in DOMAIN fs : r \in ToSet(fs[j]) /\ ToSet(fs[j]) \subseteq RecordsOf(gs)
    OBVIOUS
  <2>1. i + k \in DOMAIN fs /\ r \in ToSet(fs[i + k]) /\ i + k > k
    BY <1>2, <1>5
  <2>2. ToSet(fs[i + k]) \subseteq RecordsOf(gs)
    BY <1>6, <2>1
  <2>3. QED
    BY <2>1, <2>2
<1>11. \A i, j \in DOMAIN gs : \A r \in ToSet(gs[i]), s \in ToSet(gs[j]) :
                 \E n \in Nat : i + n \in DOMAIN fs /\ j + n \in DOMAIN fs
                                /\ r \in ToSet(fs[i + n]) /\ s \in ToSet(fs[j + n])
  BY <1>5
<1>12. QED
  BY <1>7, <1>8, <1>9, <1>10, <1>11 DEF gs

LEMMA OpenedWellFormed ==
    ASSUME NEW fs, WellFormed(fs)
    PROVE  /\ WellFormed(Opened(fs))
           /\ Opened(fs) # <<>> /\ Len(Opened(fs)[Len(Opened(fs))]) = 0
<1> DEFINE gs == Opened(fs)
<1>1. fs \in Seq(Seq(Record)) /\ InOrder(fs) /\ Linked(fs) /\ Bundled(fs) /\ Bounded(fs)
  BY DEF WellFormed
<1>2. /\ RecordsOf(gs) \subseteq RecordsOf(fs)
      /\ \A r \in RecordsOf(gs), q \in RecordsOf(fs) : r.seq <= q.seq => q \in RecordsOf(gs)
      /\ InOrder(gs)
      /\ \A i \in DOMAIN gs : \A r \in ToSet(gs[i]) :
            \E j \in DOMAIN fs : r \in ToSet(fs[j]) /\ ToSet(fs[j]) \subseteq RecordsOf(gs)
      /\ \A i, j \in DOMAIN gs : \A r \in ToSet(gs[i]), s \in ToSet(gs[j]) :
            \E n \in Nat : i + n \in DOMAIN fs /\ j + n \in DOMAIN fs
                           /\ r \in ToSet(fs[i + n]) /\ s \in ToSet(fs[j + n])
  BY <1>1, OpenedKeeps
<1>3. PICK k \in Nat :
              /\ k <= Len(fs) /\ Len(fs) - k + 1 <= Retention
              /\ gs \in Seq(Seq(Record)) /\ Len(gs) = Len(fs) - k + 1
              /\ \A i \in 1..(Len(fs) - k) : gs[i] = fs[k + i]
              /\ gs[Len(fs) - k + 1] = <<>>
  BY <1>1, OpenedIs
<1> HIDE DEF gs
<1>4. Linked(gs)
  <2> SUFFICES ASSUME NEW r \in RecordsOf(gs), NEW s \in RecordsOf(gs), r.run = s.run, r.seq < s.seq
               PROVE  /\ r.phase # "torn" /\ s.prev < s.seq
                      /\ \E q \in RecordsOf(gs) : q.seq = s.prev /\ r.seq <= q.seq
    BY DEF Linked
  <2>1. r \in RecordsOf(fs) /\ s \in RecordsOf(fs)
    BY <1>2
  <2>2. /\ r.phase # "torn" /\ s.prev < s.seq
        /\ \E q \in RecordsOf(fs) : q.seq = s.prev /\ r.seq <= q.seq
    BY <1>1, <2>1 DEF Linked
  <2>3. QED
    BY <1>2, <2>2
<1>5. Bundled(gs)
  <2> SUFFICES ASSUME NEW t \in Txs
               PROVE  LET At == {r \in RecordsOf(gs) : t \in r.of}
                      IN  /\ At # {} => \E r \in At : r.phase = "intent" /\ \A s \in At : r.seq <= s.seq
                          /\ \A i, j \in DOMAIN gs : \A r \in ToSet(gs[i]), s \in ToSet(gs[j]) :
                                t \in r.of /\ t \in s.of => i = j
                          /\ \A r \in At : r.phase \in {"commit", "abort"} =>
                                /\ \A s \in At : s.seq <= r.seq
                                /\ r.doms = UNION {s.doms : s \in At \ {r}}
    BY DEF Bundled
  <2> DEFINE F == {r \in RecordsOf(fs) : t \in r.of}
             G == {r \in RecordsOf(gs) : t \in r.of}
  <2>1. /\ F # {} => \E r \in F : r.phase = "intent" /\ \A s \in F : r.seq <= s.seq
        /\ \A i, j \in DOMAIN fs : \A r \in ToSet(fs[i]), s \in ToSet(fs[j]) :
              t \in r.of /\ t \in s.of => i = j
        /\ \A r \in F : r.phase \in {"commit", "abort"} =>
              /\ \A s \in F : s.seq <= r.seq
              /\ r.doms = UNION {s.doms : s \in F \ {r}}
    BY <1>1 DEF Bundled
  <2>2. \A i, j \in DOMAIN gs : \A r \in ToSet(gs[i]), s \in ToSet(gs[j]) :
              t \in r.of /\ t \in s.of => i = j
    <3> SUFFICES ASSUME NEW i \in DOMAIN gs, NEW j \in DOMAIN gs, NEW r \in ToSet(gs[i]), NEW s \in ToSet(gs[j]),
                        t \in r.of, t \in s.of
                 PROVE  i = j
      OBVIOUS
    <3>1. PICK n \in Nat : /\ i + n \in DOMAIN fs /\ j + n \in DOMAIN fs
                           /\ r \in ToSet(fs[i + n]) /\ s \in ToSet(fs[j + n])
      BY <1>2
    <3>2. i + n = j + n
      BY <2>1, <3>1
    <3>3. i \in Nat /\ j \in Nat
      BY <1>3
    <3>4. QED
      BY <3>2, <3>3
  <2>3. G \subseteq F
    BY <1>2
  <2>4. G # {} => G = F
    <3> SUFFICES ASSUME NEW g \in G, NEW f \in F
                 PROVE  f \in G
      BY <2>3
    <3>1. PICK i \in DOMAIN gs : g \in ToSet(gs[i])
      BY <1>3, RecordsAre
    <3>2. PICK j \in DOMAIN fs : g \in ToSet(fs[j]) /\ ToSet(fs[j]) \subseteq RecordsOf(gs)
      BY <1>2, <3>1
    <3>3. PICK l \in DOMAIN fs : f \in ToSet(fs[l])
      BY <1>1, RecordsAre
    <3>4. l = j
      BY <2>1, <3>2, <3>3
    <3>5. QED
      BY <3>2, <3>3, <3>4
  <2> HIDE DEF F
  <2>5. /\ G # {} => \E r \in G : r.phase = "intent" /\ \A s \in G : r.seq <= s.seq
        /\ \A r \in G : r.phase \in {"commit", "abort"} =>
              /\ \A s \in G : s.seq <= r.seq
              /\ r.doms = UNION {s.doms : s \in G \ {r}}
    <3>1. CASE G = {}
      BY <3>1
    <3>2. CASE G # {}
      BY <2>1, <2>4, <3>2
    <3>3. QED
      BY <3>1, <3>2
  <2>6. QED
    BY <2>2, <2>5
<1>6. Bounded(gs)
  <2>1. DOMAIN fs = 1..Len(fs) /\ DOMAIN gs = 1..(Len(fs) - k + 1) /\ Len(fs) \in Nat
    BY <1>1, <1>3
  <2>2. \A i \in DOMAIN gs : Len(gs[i]) <= HardLimit
    <3> SUFFICES ASSUME NEW i \in DOMAIN gs
                 PROVE  Len(gs[i]) <= HardLimit
      OBVIOUS
    <3>1. CASE i = Len(fs) - k + 1
      <4>1. Len(gs[i]) = 0
        BY <1>3, <3>1
      <4>2. QED
        BY <4>1, LimitsAssumption
    <3>2. CASE i # Len(fs) - k + 1
      <4>1. i \in 1..(Len(fs) - k) /\ k + i \in 1..Len(fs)
        <5>1. Len(fs) \in Nat /\ k <= Len(fs) /\ i \in 1..(Len(fs) - k + 1)
          BY <1>3, <2>1
        <5>2. i \in 1..(Len(fs) - k) /\ i + k \in 1..Len(fs) /\ k + i = i + k
          BY ONLY k \in Nat, <3>2, <5>1, Shifted
        <5>3. QED
          BY <5>2
      <4>2. gs[i] = fs[k + i] /\ k + i \in DOMAIN fs
        BY <1>3, <2>1, <4>1
      <4>3. QED
        BY <1>1, <4>2 DEF Bounded
    <3>3. QED
      BY <3>1, <3>2
  <2>3. QED
    BY <1>3, <2>2 DEF Bounded
<1>7. gs # <<>> /\ Len(gs[Len(gs)]) = 0
  <2>1. Len(gs) >= 1 /\ gs[Len(gs)] = <<>>
    BY <1>1, <1>3
  <2>2. QED
    BY <1>3, <2>1
<1>8. QED
  BY <1>2, <1>3, <1>4, <1>5, <1>6, <1>7 DEF WellFormed, gs

LEMMA AppendedIs ==
    ASSUME NEW fs \in Seq(Seq(Record)), fs # <<>>, NEW rec \in Record
    PROVE  /\ AppendTo(fs, rec) \in Seq(Seq(Record)) /\ Len(AppendTo(fs, rec)) = Len(fs)
           /\ Len(fs) \in DOMAIN fs /\ DOMAIN AppendTo(fs, rec) = DOMAIN fs
           /\ AppendTo(fs, rec) # <<>>
           /\ \A i \in DOMAIN fs : i # Len(fs) => AppendTo(fs, rec)[i] = fs[i]
           /\ AppendTo(fs, rec)[Len(fs)] = Append(fs[Len(fs)], rec)
           /\ ToSet(AppendTo(fs, rec)[Len(fs)]) = ToSet(fs[Len(fs)]) \cup {rec}
           /\ RecordsOf(AppendTo(fs, rec)) = RecordsOf(fs) \cup {rec}
<1> DEFINE gs == AppendTo(fs, rec)
           f == fs[Len(fs)]
<1>1. Len(fs) \in Nat /\ Len(fs) >= 1 /\ DOMAIN fs = 1..Len(fs)
  OBVIOUS
<1>2. Len(fs) \in DOMAIN fs /\ f \in Seq(Record)
  BY <1>1
<1>3. Append(f, rec) \in Seq(Record)
  BY <1>2
<1>4. /\ gs \in Seq(Seq(Record)) /\ Len(gs) = Len(fs) /\ DOMAIN gs = DOMAIN fs
      /\ \A i \in DOMAIN fs : i # Len(fs) => gs[i] = fs[i]
      /\ gs[Len(fs)] = Append(f, rec)
  BY <1>1, <1>2, <1>3 DEF AppendTo
<1>5. ToSet(Append(f, rec)) = ToSet(f) \cup {rec}
  <2> HIDE DEF f
  <2>1. /\ DOMAIN f = 1..Len(f) /\ DOMAIN Append(f, rec) = 1..(Len(f) + 1) /\ Len(f) \in Nat
        /\ \A i \in 1..Len(f) : Append(f, rec)[i] = f[i]
        /\ Append(f, rec)[Len(f) + 1] = rec
    BY <1>2
  <2>2. \A i \in 1..(Len(f) + 1) : i \in 1..Len(f) \/ i = Len(f) + 1
    BY <2>1
  <2>3. \A i \in 1..Len(f) : i \in 1..(Len(f) + 1)
    BY <2>1
  <2>4. Len(f) + 1 \in 1..(Len(f) + 1)
    BY <2>1
  <2>5. QED
    BY <2>1, <2>2, <2>3, <2>4, Zenon DEF ToSet
<1> HIDE DEF gs
<1>6. RecordsOf(gs) = RecordsOf(fs) \cup {rec}
  <2>1. \A i \in DOMAIN fs : ToSet(gs[i]) = IF i = Len(fs) THEN ToSet(fs[i]) \cup {rec} ELSE ToSet(fs[i])
    BY <1>4, <1>5
  <2>2. \A r : r \in RecordsOf(gs) <=> \E i \in DOMAIN fs : r \in ToSet(gs[i])
    BY <1>4, RecordsAre
  <2>3. \A r : r \in RecordsOf(fs) <=> \E i \in DOMAIN fs : r \in ToSet(fs[i])
    BY RecordsAre
  <2>4. QED
    BY <1>2, <2>1, <2>2, <2>3
<1>7. gs # <<>>
  BY <1>1, <1>4
<1>8. QED
  BY <1>2, <1>4, <1>5, <1>6, <1>7 DEF gs

\* What a record may add to a transaction: everything of it is in the file
\* that is written, its intent comes first, and a terminal names its domains.
Continues(fs, phase, doms, t) ==
    /\ \A i \in DOMAIN fs : \A r \in ToSet(fs[i]) :
          t \in r.of => i = Len(fs) /\ r.phase \in {"intent", "domain"}
    /\ phase # "intent" => \E r \in RecordsOf(fs) : t \in r.of
    /\ phase \in {"commit", "abort"} =>
          \A d \in Domains : d \in doms <=> \E r \in RecordsOf(fs) : t \in r.of /\ d \in r.doms

LEMMA AppendBundled ==
    ASSUME NEW fs \in Seq(Seq(Record)), fs # <<>>, NEW rec \in Record, Bundled(fs),
           \A r \in RecordsOf(fs) : r.seq < rec.seq,
           \A t \in rec.of : Continues(fs, rec.phase, rec.doms, t)
    PROVE  Bundled(AppendTo(fs, rec))
<1> DEFINE gs == AppendTo(fs, rec)
<1>1. /\ gs \in Seq(Seq(Record)) /\ Len(fs) \in DOMAIN fs /\ DOMAIN gs = DOMAIN fs
      /\ \A i \in DOMAIN fs : i # Len(fs) => gs[i] = fs[i]
      /\ ToSet(gs[Len(fs)]) = ToSet(fs[Len(fs)]) \cup {rec}
      /\ RecordsOf(gs) = RecordsOf(fs) \cup {rec}
  BY AppendedIs
<1> HIDE DEF gs
<1>2. \A i \in DOMAIN fs : \A r \in ToSet(gs[i]) : r \in ToSet(fs[i]) \/ (i = Len(fs) /\ r = rec)
  BY <1>1
<1>3. /\ \A r \in RecordsOf(fs) : r.seq \in Nat /\ r.doms \in SUBSET Domains /\ \E i \in DOMAIN fs : r \in ToSet(fs[i])
      /\ rec.seq \in Nat /\ rec.doms \in SUBSET Domains
  BY RecordsAre, RecordFields
<1>4. rec \notin RecordsOf(fs)
  BY <1>3
<1> SUFFICES ASSUME NEW t \in Txs
             PROVE  LET At == {r \in RecordsOf(gs) : t \in r.of}
                    IN  /\ At # {} => \E r \in At : r.phase = "intent" /\ \A s \in At : r.seq <= s.seq
                        /\ \A i, j \in DOMAIN gs : \A r \in ToSet(gs[i]), s \in ToSet(gs[j]) :
                              t \in r.of /\ t \in s.of => i = j
                        /\ \A r \in At : r.phase \in {"commit", "abort"} =>
                              /\ \A s \in At : s.seq <= r.seq
                              /\ r.doms = UNION {s.doms : s \in At \ {r}}
  BY DEF Bundled, gs
<1> DEFINE F == {r \in RecordsOf(fs) : t \in r.of}
           G == {r \in RecordsOf(gs) : t \in r.of}
<1>5. /\ F # {} => \E r \in F : r.phase = "intent" /\ \A s \in F : r.seq <= s.seq
      /\ \A i, j \in DOMAIN fs : \A r \in ToSet(fs[i]), s \in ToSet(fs[j]) :
            t \in r.of /\ t \in s.of => i = j
      /\ \A r \in F : r.phase \in {"commit", "abort"} =>
            /\ \A s \in F : s.seq <= r.seq
            /\ r.doms = UNION {s.doms : s \in F \ {r}}
  BY DEF Bundled
<1>6. CASE t \notin rec.of
  <2>1. G = F
    BY <1>1, <1>6
  <2>2. \A i, j \in DOMAIN gs : \A r \in ToSet(gs[i]), s \in ToSet(gs[j]) :
              t \in r.of /\ t \in s.of => i = j
    BY <1>1, <1>2, <1>5, <1>6
  <2> HIDE DEF F
  <2>3. QED
    BY <1>5, <2>1, <2>2
<1>7. CASE t \in rec.of
  <2>1. /\ \A i \in DOMAIN fs : \A r \in ToSet(fs[i]) :
              t \in r.of => i = Len(fs) /\ r.phase \in {"intent", "domain"}
        /\ rec.phase # "intent" => \E r \in RecordsOf(fs) : t \in r.of
        /\ rec.phase \in {"commit", "abort"} =>
              \A d \in Domains : d \in rec.doms <=> \E r \in RecordsOf(fs) : t \in r.of /\ d \in r.doms
    BY <1>7 DEF Continues
  <2>2. G = F \cup {rec}
    BY <1>1, <1>7
  <2>3. \A i, j \in DOMAIN gs : \A r \in ToSet(gs[i]), s \in ToSet(gs[j]) :
              t \in r.of /\ t \in s.of => i = j
    <3>1. \A i \in DOMAIN gs : \A r \in ToSet(gs[i]) : t \in r.of => i = Len(fs)
      BY <1>1, <1>2, <2>1
    <3>2. QED
      BY <3>1
  <2>4. \A r \in F : r.phase \notin {"commit", "abort"} /\ r.seq < rec.seq /\ r.seq \in Nat
    BY <1>3, <2>1
  <2>5. \E r \in G : r.phase = "intent" /\ \A s \in G : r.seq <= s.seq
    <3>1. CASE F = {}
      <4>1. rec.phase = "intent" /\ G = {rec}
        BY <2>1, <2>2, <3>1
      <4>2. QED
        BY <1>3, <4>1
    <3>2. CASE F # {}
      <4>1. PICK r \in F : r.phase = "intent" /\ \A s \in F : r.seq <= s.seq
        BY <1>5, <3>2
      <4>2. \A s \in G : r.seq <= s.seq
        BY <1>3, <2>2, <2>4, <4>1
      <4>3. QED
        BY <2>2, <4>1, <4>2
    <3>3. QED
      BY <3>1, <3>2
  <2>6. \A r \in G : r.phase \in {"commit", "abort"} =>
              /\ \A s \in G : s.seq <= r.seq
              /\ r.doms = UNION {s.doms : s \in G \ {r}}
    <3> SUFFICES ASSUME NEW r \in G, r.phase \in {"commit", "abort"}
                 PROVE  /\ \A s \in G : s.seq <= r.seq
                        /\ r.doms = UNION {s.doms : s \in G \ {r}}
      OBVIOUS
    <3>1. r = rec
      BY <2>2, <2>4
    <3>2. \A s \in G : s.seq <= r.seq
      BY <1>3, <2>2, <2>4, <3>1
    <3>3. G \ {r} = F
      BY <1>4, <2>2, <3>1
    <3>4. \A d : d \in UNION {s.doms : s \in F} <=> \E s \in F : d \in s.doms
      OBVIOUS
    <3>5. \A d \in Domains : d \in rec.doms <=> \E s \in F : d \in s.doms
      BY <2>1, <3>1
    <3>6. \A s \in F : s.doms \in SUBSET Domains
      BY <1>3
    <3> HIDE DEF F, G
    <3>7. rec.doms = UNION {s.doms : s \in F}
      BY <1>3, <3>4, <3>5, <3>6
    <3>8. QED
      BY <3>1, <3>2, <3>3, <3>7
  <2>7. QED
    BY <2>3, <2>5, <2>6
<1>8. QED
  BY <1>6, <1>7

LEMMA AppendWellFormed ==
    ASSUME NEW fs, WellFormed(fs), fs # <<>>, NEW rec \in Record, Len(fs[Len(fs)]) < HardLimit,
           \A r \in RecordsOf(fs) : r.seq < rec.seq,
           \A r \in RecordsOf(fs) : r.run = rec.run =>
               /\ r.phase # "torn" /\ rec.prev < rec.seq
               /\ \E q \in RecordsOf(fs) : q.seq = rec.prev /\ r.seq <= q.seq,
           \A t \in rec.of : Continues(fs, rec.phase, rec.doms, t)
    PROVE  WellFormed(AppendTo(fs, rec))
<1> DEFINE gs == AppendTo(fs, rec)
<1>1. fs \in Seq(Seq(Record)) /\ InOrder(fs) /\ Linked(fs) /\ Bundled(fs) /\ Bounded(fs)
  BY DEF WellFormed
<1>2. /\ gs \in Seq(Seq(Record)) /\ Len(gs) = Len(fs) /\ Len(fs) \in DOMAIN fs /\ DOMAIN gs = DOMAIN fs
      /\ \A i \in DOMAIN fs : i # Len(fs) => gs[i] = fs[i]
      /\ gs[Len(fs)] = Append(fs[Len(fs)], rec)
      /\ RecordsOf(gs) = RecordsOf(fs) \cup {rec}
  BY <1>1, AppendedIs
<1>3. Bundled(gs)
  BY <1>1, AppendBundled
<1> HIDE DEF gs
<1>4. rec.seq \in Nat /\ \A r \in RecordsOf(fs) : r.seq \in Nat
  BY <1>1, RecordsAre, RecordFields
<1> DEFINE f == fs[Len(fs)]
<1>5. /\ f \in Seq(Record) /\ Len(f) \in Nat /\ DOMAIN f = 1..Len(f)
      /\ Len(Append(f, rec)) = Len(f) + 1 /\ DOMAIN Append(f, rec) = 1..(Len(f) + 1)
      /\ \A i \in 1..Len(f) : Append(f, rec)[i] = f[i]
      /\ Append(f, rec)[Len(f) + 1] = rec
  <2>1. f \in Seq(Record)
    BY <1>1, <1>2
  <2> HIDE DEF f
  <2>2. QED
    BY <2>1
<1>6. InOrder(gs)
  <2>1. \A i \in DOMAIN gs : \A k \in DOMAIN gs[i] :
           \/ k \in DOMAIN fs[i] /\ gs[i][k] = fs[i][k]
           \/ i = Len(fs) /\ k = Len(f) + 1 /\ gs[i][k] = rec
    <3> SUFFICES ASSUME NEW i \in DOMAIN gs, NEW k \in DOMAIN gs[i]
                 PROVE  \/ k \in DOMAIN fs[i] /\ gs[i][k] = fs[i][k]
                        \/ i = Len(fs) /\ k = Len(f) + 1 /\ gs[i][k] = rec
      OBVIOUS
    <3>1. CASE i # Len(fs)
      BY <1>2, <3>1
    <3>2. CASE i = Len(fs)
      <4>1. gs[i] = Append(f, rec) /\ fs[i] = f
        BY <1>2, <3>2
      <4> HIDE DEF f
      <4>2. k \in 1..Len(f) \/ k = Len(f) + 1
        BY <1>5, <4>1
      <4>3. QED
        BY <1>5, <3>2, <4>1, <4>2
    <3>3. QED
      BY <3>1, <3>2
  <2>2. \A i \in DOMAIN fs : i \in Nat /\ i <= Len(fs) /\ \A k \in DOMAIN fs[i] : k \in Nat /\ fs[i][k] \in RecordsOf(fs)
    BY <1>1, RecordsAre
  <2>3. \A k \in DOMAIN fs[Len(fs)] : k <= Len(f)
    BY <1>5
  <2> SUFFICES ASSUME NEW i \in DOMAIN gs, NEW j \in DOMAIN gs, NEW m \in DOMAIN gs[i], NEW n \in DOMAIN gs[j],
                      i < j \/ (i = j /\ m < n)
               PROVE  gs[i][m].seq < gs[j][n].seq
    BY DEF InOrder
  <2>4. i \in DOMAIN fs /\ j \in DOMAIN fs
    BY <1>2
  <2>5. m \in DOMAIN fs[i] /\ gs[i][m] = fs[i][m]
    <3>1. CASE i = Len(fs) /\ m = Len(f) + 1
      <4>1. j = Len(fs) /\ m < n
        BY <2>2, <2>4, <3>1
      <4>2. n \in DOMAIN fs[j] \/ n = Len(f) + 1
        BY <2>1
      <4>3. Len(f) \in Nat
        BY <1>5
      <4> HIDE DEF f
      <4>4. CASE n = Len(f) + 1
        BY <3>1, <4>1, <4>3, <4>4
      <4>5. CASE n \in DOMAIN fs[j]
        <5>1. n \in Nat /\ n <= Len(f)
          BY <2>2, <2>3, <2>4, <4>1, <4>5
        <5>2. QED
          BY <3>1, <4>1, <4>3, <5>1
      <4>6. QED
        BY <4>2, <4>4, <4>5
    <3>2. QED
      BY <2>1, <3>1
  <2>6. CASE n \in DOMAIN fs[j] /\ gs[j][n] = fs[j][n]
    BY <1>1, <2>4, <2>5, <2>6 DEF InOrder
  <2>7. CASE gs[j][n] = rec
    BY <2>2, <2>4, <2>5, <2>7
  <2>8. QED
    BY <2>1, <2>6, <2>7
<1>7. Linked(gs)
  <2> SUFFICES ASSUME NEW r \in RecordsOf(gs), NEW s \in RecordsOf(gs), r.run = s.run, r.seq < s.seq
               PROVE  /\ r.phase # "torn" /\ s.prev < s.seq
                      /\ \E q \in RecordsOf(gs) : q.seq = s.prev /\ r.seq <= q.seq
    BY DEF Linked
  <2>1. r \in RecordsOf(fs)
    BY <1>2, <1>4
  <2>2. CASE s = rec
    BY <1>2, <2>1, <2>2
  <2>3. CASE s \in RecordsOf(fs)
    BY <1>1, <1>2, <2>1, <2>3 DEF Linked
  <2>4. QED
    BY <1>2, <2>2, <2>3
<1>8. Bounded(gs)
  <2>1. \A i \in DOMAIN gs : Len(gs[i]) <= HardLimit
    <3> SUFFICES ASSUME NEW i \in DOMAIN gs
                 PROVE  Len(gs[i]) <= HardLimit
      OBVIOUS
    <3>1. CASE i # Len(fs)
      BY <1>1, <1>2, <3>1 DEF Bounded
    <3>2. CASE i = Len(fs)
      <4>1. Len(gs[i]) = Len(f) + 1 /\ Len(f) < HardLimit /\ Len(f) \in Nat
        BY <1>2, <1>5, <3>2
      <4> HIDE DEF f
      <4>2. QED
        BY <4>1, LimitsAssumption
    <3>3. QED
      BY <3>1, <3>2
  <2>2. QED
    BY <1>1, <1>2, <2>1 DEF Bounded
<1>9. QED
  BY <1>2, <1>3, <1>6, <1>7, <1>8 DEF WellFormed, gs

\* The links between records that are kept make the chain that is checked.
LEMMA LinkedIsChained ==
    ASSUME NEW fs, WellFormed(fs)
    PROVE  Chained(fs)
<1>1. fs \in Seq(Seq(Record)) /\ Linked(fs)
  BY DEF WellFormed
<1>2. \A r \in RecordsOf(fs) : r.seq \in Nat /\ r.prev \in Nat
  BY <1>1, RecordsAre, RecordFields
<1> SUFFICES ASSUME NEW r \in RecordsOf(fs), NEW s \in RecordsOf(fs), r.run = s.run, r.seq < s.seq,
                    \A q \in RecordsOf(fs) : q.seq <= r.seq \/ s.seq <= q.seq
             PROVE  r.phase # "torn" /\ s.prev = r.seq
  BY DEF Chained
<1>3. /\ r.phase # "torn" /\ s.prev < s.seq
      /\ \E q \in RecordsOf(fs) : q.seq = s.prev /\ r.seq <= q.seq
  BY <1>1 DEF Linked
<1>4. QED
  BY <1>2, <1>3

-----------------------------------------------------------------------------
(* The inductive invariant. *)

DomainState == [mark : 0..MaxSeq, has : SUBSET Txs]

\* Where the domains are in memory now.
Present == MapFiles \cup Sessions

Shapes ==
    /\ up \in BOOLEAN /\ failed \in BOOLEAN
    /\ seq \in 0..MaxSeq /\ run \in 0..MaxSeq /\ last \in 0..MaxSeq /\ counter \in 0..MaxSeq
    /\ pending \in SUBSET Txs
    /\ plan \in [Txs -> SUBSET Domains] /\ pins \in [Txs -> SUBSET Places]
    /\ mem \in [Places -> DomainState] /\ saved \in [Domains -> DomainState]
    /\ sessions \in {"one", "two", "second"}
    /\ pc \in [Txs -> {"new", "open", "over"}]
    /\ told \in SUBSET Txs
    /\ lost \in [Domains -> SUBSET Txs]

\* No number is used again: the counter is never behind a record or a mark, and
\* a mark in memory is behind its file's only beside a session that could not
\* leave.
Numbers ==
    /\ \A r \in Records : r.run <= r.seq /\ r.seq <= counter
    /\ \A p \in Places : mem[p].mark <= counter
    /\ \A d \in Domains : /\ saved[d].mark <= counter
                          /\ up => saved[d].mark <= mem[d].mark \/ (d = "player" /\ sessions # "one")
    /\ up => run >= 1 /\ run <= seq /\ files # <<>>
    /\ up /\ ~failed => seq = counter /\ last = seq
    /\ ~up => sessions = "one"

\* A record appended now continues the chain of this run.
Growing ==
    up /\ ~failed => \A r \in Records : r.run = run =>
        r.phase # "torn" /\ \E q \in Records : q.seq = last

\* What the plan and the records say of transactions that are not over.
Open(t) ==
    /\ pc[t] = "new" => \A r \in Records : t \notin r.of
    /\ pc[t] = "open" =>
          /\ up /\ "player" \in plan[t]
          /\ \A r \in Records : t \in r.of => r.phase \in {"intent", "domain"}
    /\ t \in pending =>
          /\ ~failed /\ pc[t] = "open"
          /\ \E r \in Records : t \in r.of
          /\ \A i \in DOMAIN files : \A r \in ToSet(files[i]) : t \in r.of => i = Len(files)
          /\ \A d \in Domains : d \in plan[t] <=> \E r \in Records : t \in r.of /\ d \in r.doms
    /\ up /\ ~failed /\ pc[t] = "open" => t \in pending
    /\ t \in told => pc[t] = "over"

\* A registered domain is pinned unless it was reset since, or its player is the
\* session that was taken over.
Pinned(t) ==
    t \in pending =>
        /\ "former" \in pins[t] => sessions = "two"
        /\ \A d \in plan[t] : d \in pins[t] \/ t \in lost[d] \/ (d = "player" /\ "former" \in pins[t])

\* What is where of a transaction's changes: those of an open one only where
\* its pins defer the checkpoint, those of an aborted one nowhere.
Held(t) ==
    /\ pc[t] = "new" => (\A p \in Places : t \notin mem[p].has) /\ (\A d \in Domains : t \notin saved[d].has)
    /\ t \in pending =>
          /\ \A p \in Places : t \in mem[p].has => p \in pins[t]
          /\ \A d \in Domains : t \notin saved[d].has
    /\ \A r \in Records : r.phase = "abort" /\ t \in r.of =>
          (\A p \in Places : t \notin mem[p].has) /\ (\A d \in Domains : t \notin saved[d].has)

\* A reported commit was missing at a load, or what a file has of it is told by
\* the file's mark and every session and map in memory has it under its mark.
Classified(t) ==
    t \in told =>
        \A r \in Records : \A d \in Domains :
            r.phase = "commit" /\ t \in r.of /\ d \in r.doms =>
                \/ t \in lost[d]
                \/ /\ (t \in saved[d].has) <=> (saved[d].mark >= r.seq)
                   /\ up => \A p \in Present : FileOf(p) = d => t \in mem[p].has /\ mem[p].mark >= r.seq

JournalInv ==
    /\ Shapes /\ WellFormed(files) /\ Numbers /\ Growing
    /\ \A t \in Txs : Open(t) /\ Pinned(t) /\ Held(t) /\ Classified(t)

LEMMA PlacesAre ==
    /\ Domains \subseteq Places /\ Places = Domains \cup {"former"} /\ "former" \notin Domains
    /\ "player" \in Domains /\ MapFiles \subseteq Domains /\ "player" \notin MapFiles
    /\ MapFiles = {"map-runtime", "map-unique"} /\ Domains = {"player", "map-runtime", "map-unique"}
    /\ \A d \in Domains : FileOf(d) = d
    /\ FileOf("former") = "player"
    /\ Domains \subseteq Present /\ Present \subseteq Places /\ ("former" \in Present <=> sessions = "two")
    /\ Sessions \subseteq Present /\ \A p \in Sessions : FileOf(p) = "player"
<1>1. /\ Domains \subseteq Places /\ Places = Domains \cup {"former"} /\ "former" \notin Domains
      /\ "player" \in Domains /\ MapFiles \subseteq Domains /\ "player" \notin MapFiles
      /\ MapFiles = {"map-runtime", "map-unique"} /\ Domains = {"player", "map-runtime", "map-unique"}
  BY DEF Places, Domains, MapFiles
<1>2. (\A d \in Domains : FileOf(d) = d) /\ FileOf("former") = "player"
  BY DEF FileOf, Domains
<1>3. Domains \subseteq Present /\ Present \subseteq Places /\ ("former" \in Present <=> sessions = "two")
  BY DEF Present, Sessions, Places, Domains, MapFiles
<1>4. Sessions \subseteq Present /\ \A p \in Sessions : FileOf(p) = "player"
  BY DEF Sessions, Present, FileOf
<1>5. QED
  BY <1>1, <1>2, <1>3, <1>4

-----------------------------------------------------------------------------
(* Writing a record. *)

Phases == {"boundary", "intent", "domain", "commit", "abort"}

Target == IF Rotates(Last(files)) THEN Opened(files) ELSE files

NewRecord(phase, of, doms) ==
    [seq |-> seq + 1, run |-> run, phase |-> phase, of |-> of, doms |-> doms, prev |-> last]

\* What the journal knows of a transaction that a record is to be about.
Ready(phase, doms, t) ==
    \/ phase = "intent" /\ \A r \in Records : t \notin r.of
    \/ pending # {} /\ Continues(files, phase, doms, t)

\* What a step that writes a record does to the journal.
Wrote(phase, of, doms, how) ==
    /\ WellFormed(files') /\ files' # <<>>
    /\ seq' \in 0..MaxSeq /\ last' \in 0..MaxSeq /\ counter' \in 0..MaxSeq /\ run' = run
    /\ failed' = (how # "ok")
    /\ seq < MaxSeq /\ counter <= counter'
    /\ \A r \in Records' : r.run <= r.seq /\ r.seq <= counter'
    /\ seq <= seq'
    /\ how = "ok" => seq' = seq + 1 /\ counter' = seq' /\ last' = seq'
    /\ how = "ok" => \A r \in Records' : r.run = run => r.phase # "torn"
    /\ \A r \in Records' :
          \/ r \in Records
          \/ r.phase = "torn" /\ r.of = {}
          \/ r = NewRecord(phase, of, doms)
    /\ how = "ok" => NewRecord(phase, of, doms) \in Records'
    /\ \A i \in DOMAIN files' : \A r \in ToSet(files'[i]) : i = Len(files') \/ r \in Records
    /\ pending # {} /\ how = "ok" =>
          /\ Records \subseteq Records' /\ Len(files') = Len(files)
          /\ \A i \in DOMAIN files' : \A r \in ToSet(files'[i]) :
                i = Len(files') \/ (i \in DOMAIN files /\ r \in ToSet(files[i]))

LEMMA TargetIs ==
    ASSUME WellFormed(files), files # <<>>
    PROVE  /\ WellFormed(Target) /\ Target # <<>>
           /\ Fits(Last(files)) => Len(Target[Len(Target)]) < HardLimit
           /\ RecordsOf(Target) \subseteq Records
           /\ \A r \in RecordsOf(Target), q \in Records : r.seq <= q.seq => q \in RecordsOf(Target)
           /\ pending # {} => Target = files
<1>1. files \in Seq(Seq(Record)) /\ InOrder(files)
  BY DEF WellFormed
<1>2. Last(files) = files[Len(files)]
  BY DEF Last
<1>3. Len(Last(files)) \in Nat
  <2>1. Len(files) \in DOMAIN files
    BY <1>1
  <2>2. files[Len(files)] \in Seq(Record)
    BY <1>1, <2>1
  <2>3. QED
    BY <1>2, <2>2
<1>4. CASE Rotates(Last(files))
  <2>1. Target = Opened(files) /\ pending = {}
    BY <1>4 DEF Target, Rotates
  <2>2. WellFormed(Opened(files)) /\ Opened(files) # <<>> /\ Len(Opened(files)[Len(Opened(files))]) = 0
    BY OpenedWellFormed
  <2>3. /\ RecordsOf(Opened(files)) \subseteq Records
        /\ \A r \in RecordsOf(Opened(files)), q \in Records : r.seq <= q.seq => q \in RecordsOf(Opened(files))
    BY <1>1, OpenedKeeps DEF Records
  <2>4. 0 < HardLimit
    BY LimitsAssumption
  <2>5. QED
    BY <2>1, <2>2, <2>3, <2>4
<1>5. CASE ~Rotates(Last(files))
  <2>1. Target = files
    BY <1>5 DEF Target
  <2>2. Fits(Last(files)) => Len(Last(files)) < HardLimit
    BY <1>3, <1>5, LimitsAssumption DEF Fits
  <2>3. QED
    BY <1>2, <2>1, <2>2 DEF Records
<1>6. QED
  BY <1>4, <1>5

\* The record, or its torn form, at the end of the file that takes it.
LEMMA AppendedToTarget ==
    ASSUME Shapes, WellFormed(files), Numbers, Growing, up, ~failed, seq < MaxSeq, Fits(Last(files)),
           NEW rec \in Record, rec.seq = seq + 1, rec.run = run, rec.prev = last,
           \A t \in rec.of : Ready(rec.phase, rec.doms, t)
    PROVE  /\ WellFormed(AppendTo(Target, rec)) /\ AppendTo(Target, rec) # <<>>
           /\ RecordsOf(AppendTo(Target, rec)) = RecordsOf(Target) \cup {rec}
           /\ \A i \in DOMAIN AppendTo(Target, rec) : \A r \in ToSet(AppendTo(Target, rec)[i]) :
                 \/ i = Len(AppendTo(Target, rec))
                 \/ i \in DOMAIN Target /\ r \in ToSet(Target[i])
           /\ Len(AppendTo(Target, rec)) = Len(Target)
<1> DEFINE fs == Target
<1>1. files # <<>> /\ seq = counter /\ last = seq /\ seq \in Nat
  BY DEF Numbers, Shapes
<1>2. /\ WellFormed(fs) /\ fs # <<>> /\ Len(fs[Len(fs)]) < HardLimit
      /\ RecordsOf(fs) \subseteq Records
      /\ \A r \in RecordsOf(fs), q \in Records : r.seq <= q.seq => q \in RecordsOf(fs)
      /\ pending # {} => fs = files
  BY <1>1, TargetIs
<1> HIDE DEF fs
<1>3. fs \in Seq(Seq(Record)) /\ files \in Seq(Seq(Record))
  BY <1>2 DEF WellFormed
<1>4. \A r \in Records : r.seq \in Nat /\ r.seq <= seq
  BY <1>1, <1>3, RecordsAre, RecordFields DEF Numbers, Records
<1>5. \A r \in RecordsOf(fs) : r.seq < rec.seq
  BY <1>1, <1>2, <1>4
<1>6. \A r \in RecordsOf(fs) : r.run = rec.run =>
               /\ r.phase # "torn" /\ rec.prev < rec.seq
               /\ \E q \in RecordsOf(fs) : q.seq = rec.prev /\ r.seq <= q.seq
  <2> SUFFICES ASSUME NEW r \in RecordsOf(fs), r.run = run
               PROVE  /\ r.phase # "torn" /\ rec.prev < rec.seq
                      /\ \E q \in RecordsOf(fs) : q.seq = last /\ r.seq <= q.seq
    OBVIOUS
  <2>1. r \in Records
    BY <1>2
  <2>2. r.phase # "torn" /\ \E q \in Records : q.seq = last
    BY <2>1 DEF Growing
  <2>3. r.seq <= last /\ rec.prev < rec.seq
    BY <1>1, <1>4, <2>1
  <2>4. QED
    BY <1>2, <2>2, <2>3
<1>7. \A t \in rec.of : Continues(fs, rec.phase, rec.doms, t)
  <2> SUFFICES ASSUME NEW t \in rec.of
               PROVE  Continues(fs, rec.phase, rec.doms, t)
    OBVIOUS
  <2>1. CASE rec.phase = "intent" /\ \A r \in Records : t \notin r.of
    <3>1. \A i \in DOMAIN fs : \A r \in ToSet(fs[i]) : t \notin r.of
      BY <1>2, <1>3, <2>1, RecordsAre
    <3>2. QED
      BY <2>1, <3>1 DEF Continues
  <2>2. CASE pending # {} /\ Continues(files, rec.phase, rec.doms, t)
    BY <1>2, <2>2
  <2>3. QED
    BY <2>1, <2>2 DEF Ready
<1>8. WellFormed(AppendTo(fs, rec))
  BY <1>2, <1>5, <1>6, <1>7, AppendWellFormed
<1>9. /\ RecordsOf(AppendTo(fs, rec)) = RecordsOf(fs) \cup {rec} /\ AppendTo(fs, rec) # <<>>
      /\ Len(AppendTo(fs, rec)) = Len(fs) /\ DOMAIN AppendTo(fs, rec) = DOMAIN fs
      /\ \A i \in DOMAIN fs : i # Len(fs) => AppendTo(fs, rec)[i] = fs[i]
  BY <1>2, <1>3, AppendedIs
<1>10. QED
  BY <1>8, <1>9 DEF fs

LEMMA WriteWrote ==
    ASSUME Shapes, WellFormed(files), Numbers, Growing, up, ~failed,
           NEW phase \in Phases, NEW of \in SUBSET Txs, NEW doms \in SUBSET Domains, NEW how \in Outcomes,
           \A t \in of : Ready(phase, doms, t),
           Write(phase, of, doms, how)
    PROVE  Wrote(phase, of, doms, how)
<1> DEFINE rec == NewRecord(phase, of, doms)
           torn == [rec EXCEPT !.phase = "torn", !.of = {}, !.doms = {}]
<1>2. /\ seq < MaxSeq /\ (how \in {"ok", "torn", "whole"} => Fits(Last(files)))
      /\ counter' \in Reserved(how)
      /\ seq' = IF how = "reserve" THEN seq ELSE seq + 1
      /\ failed' = (how # "ok")
      /\ last' = IF how = "ok" THEN seq + 1 ELSE last
      /\ run' = run
  BY DEF Write
<1>3. /\ how \in {"ok", "whole"} => files' = AppendTo(Target, rec)
      /\ how = "torn" => files' = AppendTo(Target, torn)
      /\ how = "none" => files' \in {files, Target}
      /\ how = "reserve" => files' = files
  BY DEF Write, Outcomes, Target, NewRecord
<1>4. /\ files # <<>> /\ counter = seq /\ last = seq /\ run >= 1
      /\ seq \in Nat /\ run \in Nat /\ MaxSeq \in Nat /\ run <= MaxSeq /\ seq \in 0..MaxSeq
  BY LimitsAssumption DEF Numbers, Shapes
<1>5. rec.seq = seq + 1 /\ rec.run = run /\ rec.prev = last /\ rec.phase = phase /\ rec.of = of /\ rec.doms = doms
  BY DEF NewRecord
<1>6. torn.seq = seq + 1 /\ torn.run = run /\ torn.prev = last /\ torn.phase = "torn" /\ torn.of = {} /\ torn.doms = {}
  BY DEF NewRecord
<1>7. seq + 1 \in 1..MaxSeq /\ run \in 1..MaxSeq /\ last \in 0..MaxSeq
  BY <1>2, <1>4
<1>8. rec \in Record
  BY <1>7 DEF Record, NewRecord, Phases
<1>torn. torn \in Record
  <2> HIDE DEF rec
  <2>1. QED
    BY <1>8 DEF Record
<1> HIDE DEF rec, torn
<1>9. files \in Seq(Seq(Record)) /\ \A r \in Records : r.seq \in Nat /\ r.seq <= seq /\ r.run \in Nat /\ r.run <= r.seq
  BY <1>4, RecordsAre, RecordFields DEF Numbers, Records, WellFormed
<1>10. /\ WellFormed(Target) /\ Target # <<>> /\ RecordsOf(Target) \subseteq Records
       /\ \A r \in RecordsOf(Target), q \in Records : r.seq <= q.seq => q \in RecordsOf(Target)
       /\ pending # {} => Target = files
  BY <1>4, TargetIs
<1>11. run <= seq
  BY <1>4 DEF Numbers
<1>12. /\ counter' \in 0..MaxSeq /\ counter <= counter' /\ (how # "reserve" => counter' = seq + 1)
       /\ seq' \in 0..MaxSeq /\ last' \in 0..MaxSeq /\ seq <= seq'
       /\ how = "ok" => seq' = seq + 1 /\ counter' = seq' /\ last' = seq'
  BY <1>2, <1>4, <1>7 DEF Reserved
<1>13. CASE how \in {"ok", "whole", "torn"}
  <2> DEFINE new == IF how = "torn" THEN torn ELSE rec
  <2>1. /\ new \in Record /\ new.seq = seq + 1 /\ new.run = run /\ new.prev = last
        /\ \A t \in new.of : Ready(new.phase, new.doms, t)
        /\ files' = AppendTo(Target, new)
        /\ new = rec \/ (new.phase = "torn" /\ new.of = {} /\ how # "ok")
    BY <1>torn, <1>3, <1>5, <1>6, <1>8, <1>13
  <2> HIDE DEF new
  <2>2. /\ WellFormed(files') /\ files' # <<>>
        /\ RecordsOf(files') = RecordsOf(Target) \cup {new}
        /\ \A i \in DOMAIN files' : \A r \in ToSet(files'[i]) :
              \/ i = Len(files')
              \/ i \in DOMAIN Target /\ r \in ToSet(Target[i])
        /\ Len(files') = Len(Target)
    BY <1>2, <1>13, <2>1, AppendedToTarget
  <2>3. Records' = RecordsOf(Target) \cup {new}
    BY <2>2 DEF Records, RecordsOf
  <2>4. \A r \in Records' : r.run <= r.seq /\ r.seq <= counter'
    <3> SUFFICES ASSUME NEW r \in Records'
                 PROVE  r.run <= r.seq /\ r.seq <= counter'
      OBVIOUS
    <3>1. CASE r = new
      BY <1>4, <1>11, <1>12, <1>13, <2>1, <3>1
    <3>2. CASE r \in Records
      BY <1>4, <1>9, <1>12, <1>13, <3>2
    <3>3. QED
      BY <1>10, <2>3, <3>1, <3>2
  <2>5. \A i \in DOMAIN files' : \A r \in ToSet(files'[i]) : i = Len(files') \/ r \in Records
    <3>1. Target \in Seq(Seq(Record))
      BY <1>10 DEF WellFormed
    <3>2. \A i \in DOMAIN Target : \A r \in ToSet(Target[i]) : r \in RecordsOf(Target)
      BY <3>1, RecordsAre
    <3>3. QED
      BY <1>10, <2>2, <3>2
  <2>6. pending # {} /\ how = "ok" =>
          /\ Records \subseteq Records' /\ Len(files') = Len(files)
          /\ \A i \in DOMAIN files' : \A r \in ToSet(files'[i]) :
                i = Len(files') \/ (i \in DOMAIN files /\ r \in ToSet(files[i]))
    BY <1>10, <2>2, <2>3 DEF Records
  <2>7. how = "ok" => \A r \in Records' : r.run = run => r.phase # "torn"
    <3> SUFFICES ASSUME how = "ok", NEW r \in Records', r.run = run
                 PROVE  r.phase # "torn"
      OBVIOUS
    <3>1. CASE r = new
      BY <1>5, <2>1, <3>1 DEF Phases
    <3>2. CASE r \in Records
      BY <3>2 DEF Growing
    <3>3. QED
      BY <1>10, <2>3, <3>1, <3>2
  <2>8. \A r \in Records' : r \in Records \/ (r.phase = "torn" /\ r.of = {}) \/ r = rec
    BY <1>10, <2>1, <2>3
  <2>9. how = "ok" => rec \in Records'
    BY <2>1, <2>3
  <2>10. QED
    BY <1>2, <1>12, <2>2, <2>4, <2>5, <2>6, <2>7, <2>8, <2>9 DEF Wrote, rec
<1>14. CASE how \in {"none", "reserve"}
  <2>1. files' \in {files, Target}
    BY <1>3, <1>14
  <2>2. WellFormed(files') /\ files' # <<>> /\ Records' \subseteq Records
    BY <1>4, <1>10, <2>1 DEF Records, RecordsOf
  <2>3. \A i \in DOMAIN files' : \A r \in ToSet(files'[i]) : r \in Records
    <3>1. files' \in Seq(Seq(Record))
      BY <2>2 DEF WellFormed
    <3>2. \A i \in DOMAIN files' : \A r \in ToSet(files'[i]) : r \in RecordsOf(files')
      BY <3>1, RecordsAre
    <3>3. QED
      BY <2>2, <3>2 DEF Records, RecordsOf
  <2>4. \A r \in Records' : r.run <= r.seq /\ r.seq <= counter'
    BY <1>4, <1>9, <1>12, <2>2
  <2>5. how # "ok"
    BY <1>14
  <2>6. QED
    BY <1>2, <1>12, <2>2, <2>3, <2>4, <2>5 DEF Wrote
<1>15. QED
  BY <1>13, <1>14 DEF Outcomes

-----------------------------------------------------------------------------
(* What a step must respect. *)

\* A step that writes leaves numbers and chains in order if it raises marks no
\* higher than the counter.
LEMMA WrotePart ==
    ASSUME JournalInv, up, up', NEW phase, NEW of, NEW doms, NEW how, Wrote(phase, of, doms, how),
           saved' = saved, sessions' = sessions, mem' \in [Places -> DomainState],
           \A p \in Places : mem[p].mark <= mem'[p].mark /\ mem'[p].mark <= counter'
    PROVE  WellFormed(files') /\ Numbers' /\ Growing'
<1>1. run \in Nat /\ seq \in Nat /\ run >= 1 /\ run <= seq
  BY DEF JournalInv, Numbers, Shapes
<1>2. /\ \A r \in Records' : r.run <= r.seq /\ r.seq <= counter'
      /\ how = "ok" => seq' = seq + 1 /\ counter' = seq' /\ last' = seq'
      /\ failed' = (how # "ok") /\ run' = run /\ files' # <<>> /\ seq' \in 0..MaxSeq
  BY DEF Wrote
<1>3. run <= seq'
  BY <1>1 DEF Wrote
<1>4. ASSUME NEW d \in Domains
      PROVE  /\ saved'[d].mark <= counter'
             /\ up' => saved'[d].mark <= mem'[d].mark \/ (d = "player" /\ sessions' # "one")
  <2>1. /\ saved[d].mark <= counter
        /\ saved[d].mark <= mem[d].mark \/ (d = "player" /\ sessions # "one")
    BY DEF JournalInv, Numbers
  <2>2. d \in Places
    BY PlacesAre
  <2>3. saved[d].mark \in Nat /\ mem[d].mark \in Nat /\ mem'[d].mark \in Nat
    <3>1. saved[d] \in DomainState /\ mem[d] \in DomainState /\ mem'[d] \in DomainState
      BY <2>2 DEF JournalInv, Shapes
    <3>2. QED
      BY <3>1, LimitsAssumption DEF DomainState
  <2>4. counter \in Nat /\ counter' \in Nat /\ counter <= counter'
    BY LimitsAssumption DEF JournalInv, Shapes, Wrote
  <2>5. QED
    BY <2>1, <2>2, <2>3, <2>4
<1>5. Numbers'
  BY <1>1, <1>2, <1>3, <1>4 DEF Numbers
<1>6. Growing'
  <2>1. how = "ok" => /\ \A r \in Records' : r.run = run => r.phase # "torn"
                      /\ NewRecord(phase, of, doms) \in Records' /\ NewRecord(phase, of, doms).seq = seq + 1
    BY DEF Wrote, NewRecord
  <2>2. QED
    BY <1>2, <2>1 DEF Growing
<1>7. QED
  BY <1>5, <1>6 DEF Wrote

LEMMA KeepsOpen ==
    ASSUME NEW u \in Txs, Open(u),
           pc'[u] = pc[u], plan'[u] = plan[u], u \in told' => u \in told,
           \A r \in Records' : r \in Records \/ u \notin r.of,
           u \in pending' =>
              /\ u \in pending /\ ~failed' /\ Records \subseteq Records'
              /\ \A i \in DOMAIN files' : \A r \in ToSet(files'[i]) :
                    \/ i = Len(files')
                    \/ i \in DOMAIN files /\ r \in ToSet(files[i]) /\ Len(files) = Len(files'),
           pc[u] = "open" => up /\ up' /\ (~failed' => ~failed /\ (u \in pending => u \in pending'))
    PROVE  Open(u)'
<1>1. pc'[u] = "new" => \A r \in Records' : u \notin r.of
  BY DEF Open
<1>2. pc'[u] = "open" =>
          /\ up' /\ "player" \in plan'[u]
          /\ \A r \in Records' : u \in r.of => r.phase \in {"intent", "domain"}
  BY DEF Open
<1>3. u \in pending' =>
          /\ ~failed' /\ pc'[u] = "open"
          /\ \E r \in Records' : u \in r.of
          /\ \A i \in DOMAIN files' : \A r \in ToSet(files'[i]) : u \in r.of => i = Len(files')
          /\ \A d \in Domains : d \in plan'[u] <=> \E r \in Records' : u \in r.of /\ d \in r.doms
  <2> SUFFICES ASSUME u \in pending'
               PROVE  /\ ~failed' /\ pc'[u] = "open"
                      /\ \E r \in Records' : u \in r.of
                      /\ \A i \in DOMAIN files' : \A r \in ToSet(files'[i]) : u \in r.of => i = Len(files')
                      /\ \A d \in Domains : d \in plan'[u] <=> \E r \in Records' : u \in r.of /\ d \in r.doms
    OBVIOUS
  <2>1. /\ pc[u] = "open" /\ \E r \in Records : u \in r.of
        /\ \A i \in DOMAIN files : \A r \in ToSet(files[i]) : u \in r.of => i = Len(files)
        /\ \A d \in Domains : d \in plan[u] <=> \E r \in Records : u \in r.of /\ d \in r.doms
    BY DEF Open
  <2>2. \A d \in Domains : d \in plan'[u] <=> \E r \in Records' : u \in r.of /\ d \in r.doms
    BY <2>1
  <2>3. \A i \in DOMAIN files' : \A r \in ToSet(files'[i]) : u \in r.of => i = Len(files')
    BY <2>1
  <2>4. QED
    BY <2>1, <2>2, <2>3
<1>4. up' /\ ~failed' /\ pc'[u] = "open" => u \in pending'
  BY DEF Open
<1>5. u \in told' => pc'[u] = "over"
  BY DEF Open
<1>6. QED
  BY <1>1, <1>2, <1>3, <1>4, <1>5 DEF Open

LEMMA OverOpen ==
    ASSUME NEW t \in Txs, pc'[t] = "over", t \notin pending'
    PROVE  Open(t)' /\ Pinned(t)'
BY DEF Open, Pinned

LEMMA KeepsPinned ==
    ASSUME NEW u \in Txs, Pinned(u),
           u \in pending' => u \in pending /\ plan'[u] = plan[u] /\ pins'[u] = pins[u],
           sessions' = sessions, plan[u] \subseteq Domains,
           \A d \in Domains : lost[d] \subseteq lost'[d]
    PROVE  Pinned(u)'
BY DEF Pinned

\* The transaction has left something somewhere.
Somewhere(u) == (\E p \in Places : u \in mem[p].has) \/ (\E d \in Domains : u \in saved[d].has)

LEMMA KeepsHeld ==
    ASSUME NEW u \in Txs, Held(u),
           pc'[u] = "new" => pc[u] = "new",
           \A r \in Records' : r \in Records \/ u \notin r.of \/ r.phase # "abort",
           \A p \in Places : u \in mem'[p].has => Somewhere(u),
           \A d \in Domains : u \in saved'[d].has => Somewhere(u),
           u \in pending' => /\ \A p \in Places : u \in mem'[p].has => p \in pins'[u]
                             /\ \A d \in Domains : u \notin saved'[d].has
    PROVE  Held(u)'
<1>1. pc[u] = "new" => ~Somewhere(u)
  BY DEF Held, Somewhere
<1>2. \A r \in Records : r.phase = "abort" /\ u \in r.of => ~Somewhere(u)
  BY DEF Held, Somewhere
<1>3. QED
  BY <1>1, <1>2 DEF Held

\* What a step makes of a domain that may hold u: what was committed on it is
\* lost, or its file stays, is removed or is a copy of what was in memory, and
\* what is in memory was there or was loaded from the file.
Kept(u, d) ==
    \/ CommittedOn(d) \subseteq lost'[d]
    \/ /\ lost[d] \subseteq lost'[d]
       /\ \/ saved'[d] = saved[d] \/ saved'[d] = Empty
          \/ up /\ \E q \in Present : FileOf(q) = d /\ saved'[d] = mem[q]
       /\ up' => \A p \in Present' : FileOf(p) = d =>
             \/ up /\ \E q \in Present : /\ FileOf(q) = d /\ mem[q].mark <= mem'[p].mark
                                         /\ u \in mem[q].has => u \in mem'[p].has
             \/ mem'[p] = saved[d] /\ CommittedOn(d) \ saved[d].has \subseteq lost'[d]

LEMMA KeepsClassified ==
    ASSUME Shapes, WellFormed(files), mem' \in [Places -> DomainState], sessions' \in {"one", "two", "second"},
           NEW u \in Txs, Classified(u), u \in told' => u \in told,
           \A r \in Records' : r \in Records \/ u \notin r.of \/ r.phase # "commit",
           \A d \in Domains : Kept(u, d)
    PROVE  Classified(u)'
<1> SUFFICES ASSUME u \in told', NEW r \in Records', NEW d \in Domains,
                    r.phase = "commit", u \in r.of, d \in r.doms, u \notin lost'[d]
             PROVE  /\ (u \in saved'[d].has) <=> (saved'[d].mark >= r.seq)
                    /\ up' => \A p \in Present' : FileOf(p) = d => u \in mem'[p].has /\ mem'[p].mark >= r.seq
  BY DEF Classified
<1>1. r \in Records /\ r.seq \in Nat /\ r.seq >= 1
  BY RecordsAre, RecordFields DEF Records, WellFormed
<1>2. u \in CommittedOn(d)
  BY <1>1 DEF CommittedOn, Committed
<1>3. /\ lost[d] \subseteq lost'[d]
      /\ \/ saved'[d] = saved[d] \/ saved'[d] = Empty
         \/ up /\ \E q \in Present : FileOf(q) = d /\ saved'[d] = mem[q]
      /\ up' => \A p \in Present' : FileOf(p) = d =>
            \/ up /\ \E q \in Present : /\ FileOf(q) = d /\ mem[q].mark <= mem'[p].mark
                                        /\ u \in mem[q].has => u \in mem'[p].has
            \/ mem'[p] = saved[d] /\ CommittedOn(d) \ saved[d].has \subseteq lost'[d]
  BY <1>2 DEF Kept
<1>4. /\ (u \in saved[d].has) <=> (saved[d].mark >= r.seq)
      /\ up => \A p \in Present : FileOf(p) = d => u \in mem[p].has /\ mem[p].mark >= r.seq
  BY <1>1, <1>3 DEF Classified
<1>5. (u \in saved'[d].has) <=> (saved'[d].mark >= r.seq)
  <2>1. CASE saved'[d] = saved[d]
    BY <1>4, <2>1
  <2>2. CASE saved'[d] = Empty
    BY <1>1, <2>2 DEF Empty
  <2>3. CASE up /\ \E q \in Present : FileOf(q) = d /\ saved'[d] = mem[q]
    BY <1>4, <2>3
  <2>4. QED
    BY <1>3, <2>1, <2>2, <2>3
<1>6. ASSUME up', NEW p \in Present', FileOf(p) = d
      PROVE  u \in mem'[p].has /\ mem'[p].mark >= r.seq
  <2>1. p \in Places /\ mem'[p].mark \in Nat
    <3>1. p \in Places
      BY DEF Present, Sessions, Places, MapFiles, Domains
    <3>2. QED
      BY <3>1, LimitsAssumption DEF DomainState
  <2>2. CASE up /\ \E q \in Present : /\ FileOf(q) = d /\ mem[q].mark <= mem'[p].mark
                                      /\ u \in mem[q].has => u \in mem'[p].has
    <3>1. PICK q \in Present : /\ FileOf(q) = d /\ mem[q].mark <= mem'[p].mark
                               /\ u \in mem[q].has => u \in mem'[p].has
      BY <2>2
    <3>2. u \in mem[q].has /\ mem[q].mark >= r.seq
      BY <1>4, <2>2, <3>1
    <3>3. mem[q].mark \in Nat
      BY LimitsAssumption, PlacesAre DEF Shapes, DomainState
    <3>4. QED
      BY <1>1, <2>1, <3>1, <3>2, <3>3
  <2>3. CASE mem'[p] = saved[d] /\ CommittedOn(d) \ saved[d].has \subseteq lost'[d]
    BY <1>2, <1>4, <2>3
  <2>4. QED
    BY <1>3, <1>6, <2>2, <2>3
<1>7. QED
  BY <1>5, <1>6

LEMMA MarksAre ==
    ASSUME JournalInv
    PROVE  /\ \A p \in Places : mem[p] \in DomainState /\ mem[p].mark \in Nat /\ mem[p].mark <= counter
           /\ \A d \in Domains : saved[d] \in DomainState /\ saved[d].mark \in Nat /\ saved[d].mark <= counter
           /\ counter \in Nat
           /\ Empty \in DomainState /\ Empty.mark = 0 /\ Empty.has = {}
<1>1. /\ \A p \in Places : mem[p] \in DomainState
      /\ \A d \in Domains : saved[d] \in DomainState
  BY DEF JournalInv, Shapes
<1>2. /\ \A p \in Places : mem[p].mark <= counter
      /\ \A d \in Domains : saved[d].mark <= counter
  BY DEF JournalInv, Numbers
<1>3. \A s \in DomainState : s.mark \in Nat
  BY LimitsAssumption DEF DomainState
<1>4. counter \in Nat
  BY LimitsAssumption DEF JournalInv, Shapes
<1>5. Empty \in DomainState /\ Empty.mark = 0 /\ Empty.has = {}
  BY LimitsAssumption DEF Empty, DomainState
<1>6. QED
  BY <1>1, <1>2, <1>3, <1>4, <1>5

LEMMA InvParts ==
    ASSUME JournalInv, NEW u \in Txs
    PROVE  /\ Shapes /\ WellFormed(files) /\ Numbers /\ Growing
           /\ Open(u) /\ Pinned(u) /\ Held(u) /\ Classified(u)
           /\ plan[u] \in SUBSET Domains /\ pins[u] \in SUBSET Places
           /\ u \in pending => pc[u] = "open" /\ up /\ ~failed
           /\ failed => pending = {}
BY DEF JournalInv, Shapes, Open

\* A domain whose files and places a step leaves alone but for its marks.
LEMMA KeptInPlace ==
    ASSUME JournalInv, NEW u \in Txs, NEW d \in Domains,
           saved'[d] = saved[d], lost[d] \subseteq lost'[d],
           up' => /\ up
                  /\ \A p \in Present' : FileOf(p) = d =>
                        p \in Present /\ mem[p].mark <= mem'[p].mark /\ (u \in mem[p].has => u \in mem'[p].has)
    PROVE  Kept(u, d)
BY DEF Kept

\* A step of a producer that writes leaves the other transactions alone.
LEMMA OthersKeep ==
    ASSUME JournalInv, up, up', ~failed, NEW phase, NEW of, NEW doms, NEW how, Wrote(phase, of, doms, how),
           NEW u \in Txs, u \notin of, pc'[u] = pc[u], plan'[u] = plan[u], pins'[u] = pins[u],
           u \in told' => u \in told,
           how = "ok" => (u \in pending' <=> u \in pending),
           how # "ok" => pending' = {},
           saved' = saved, sessions' = sessions, mem' \in [Places -> DomainState],
           \A d \in Domains : lost[d] \subseteq lost'[d],
           \A p \in Places : (u \in mem'[p].has <=> u \in mem[p].has) /\ mem[p].mark <= mem'[p].mark
    PROVE  Open(u)' /\ Pinned(u)' /\ Held(u)' /\ Classified(u)'
<1>1. Shapes /\ WellFormed(files) /\ Open(u) /\ Pinned(u) /\ Held(u) /\ Classified(u) /\ plan[u] \in SUBSET Domains
  BY InvParts
<1>2. \A r \in Records' : r \in Records \/ u \notin r.of
  BY DEF Wrote, NewRecord
<1>3. u \in pending' =>
              /\ u \in pending /\ ~failed' /\ Records \subseteq Records'
              /\ \A i \in DOMAIN files' : \A r \in ToSet(files'[i]) :
                    \/ i = Len(files')
                    \/ i \in DOMAIN files /\ r \in ToSet(files[i]) /\ Len(files) = Len(files')
  <2> SUFFICES ASSUME u \in pending'
               PROVE  /\ u \in pending /\ ~failed' /\ Records \subseteq Records'
                      /\ \A i \in DOMAIN files' : \A r \in ToSet(files'[i]) :
                            \/ i = Len(files')
                            \/ i \in DOMAIN files /\ r \in ToSet(files[i]) /\ Len(files) = Len(files')
    OBVIOUS
  <2>1. how = "ok" /\ u \in pending
    OBVIOUS
  <2>2. QED
    BY <2>1 DEF Wrote
<1>4. pc[u] = "open" => up /\ up' /\ (~failed' => ~failed /\ (u \in pending => u \in pending'))
  BY DEF Wrote
<1>5. Open(u)'
  BY <1>1, <1>2, <1>3, <1>4, KeepsOpen
<1>6. Pinned(u)'
  BY <1>1, <1>3, KeepsPinned
<1>7. Held(u)'
  <2>1. \A p \in Places : u \in mem'[p].has => Somewhere(u)
    BY DEF Somewhere
  <2>2. \A d \in Domains : u \in saved'[d].has => Somewhere(u)
    BY DEF Somewhere
  <2>3. u \in pending' => /\ \A p \in Places : u \in mem'[p].has => p \in pins'[u]
                          /\ \A d \in Domains : u \notin saved'[d].has
    BY <1>1, <1>3 DEF Held
  <2>4. QED
    BY <1>1, <1>2, <2>1, <2>2, <2>3, KeepsHeld
<1>8. Classified(u)'
  <2>1. Present' = Present
    BY DEF Present, Sessions
  <2>2. \A d \in Domains : Kept(u, d)
    BY <2>1, PlacesAre, KeptInPlace
  <2>3. sessions' \in {"one", "two", "second"}
    BY <1>1 DEF Shapes
  <2>4. QED
    BY <1>1, <1>2, <2>2, <2>3, KeepsClassified
<1>9. QED
  BY <1>5, <1>6, <1>7, <1>8

\* A step that does not write leaves the journal alone.
LEMMA Unwritten ==
    ASSUME JournalInv, UNCHANGED journal, up' => up, up' /\ ~failed' => ~failed, ~up' => sessions' = "one",
           \A p \in Places : mem'[p].mark <= counter,
           \A d \in Domains : /\ saved'[d].mark <= counter
                              /\ up' => saved'[d].mark <= mem'[d].mark \/ (d = "player" /\ sessions' # "one")
    PROVE  /\ WellFormed(files') /\ Numbers' /\ Growing'
           /\ Records' = Records /\ files' = files
<1>1. /\ seq' = seq /\ run' = run /\ last' = last /\ counter' = counter /\ files' = files
  BY DEF journal
<1>2. Records' = Records
  BY <1>1 DEF Records, RecordsOf
<1>3. Numbers'
  BY <1>1, <1>2 DEF JournalInv, Numbers
<1>4. Growing'
  BY <1>1, <1>2 DEF JournalInv, Growing
<1>5. WellFormed(files')
  BY <1>1 DEF JournalInv
<1>6. QED
  BY <1>1, <1>2, <1>3, <1>4, <1>5

\* Of the transactions that such a step does not end.
LEMMA UnwrittenOpen ==
    ASSUME NEW u \in Txs, Open(u), Records' = Records, files' = files,
           pc'[u] = pc[u], plan'[u] = plan[u], u \in told' => u \in told,
           u \in pending' => u \in pending /\ ~failed',
           pc[u] = "open" => up' /\ (~failed' => ~failed /\ (u \in pending => u \in pending'))
    PROVE  Open(u)'
<1>1. pc[u] = "open" => up
  BY DEF Open
<1>2. QED
  BY <1>1, KeepsOpen

\* A step of the game that neither writes a record nor ends a transaction.
LEMMA QuietKeeps ==
    ASSUME JournalInv, up, UNCHANGED <<up, failed, pending, journal, plan, pc, told>>,
           pins' \in [Txs -> SUBSET Places], mem' \in [Places -> DomainState],
           saved' \in [Domains -> DomainState], sessions' \in {"one", "two", "second"},
           lost' \in [Domains -> SUBSET Txs],
           \A p \in Places : mem'[p].mark <= counter,
           \A d \in Domains : /\ saved'[d].mark <= counter
                              /\ saved'[d].mark <= mem'[d].mark \/ (d = "player" /\ sessions' # "one"),
           \A u \in pending : /\ Pinned(u)'
                              /\ \A p \in Places : u \in mem'[p].has => p \in pins'[u]
                              /\ \A d \in Domains : u \notin saved'[d].has,
           \A u \in Txs : /\ \A p \in Places : u \in mem'[p].has => Somewhere(u) \/ pc[u] = "open"
                          /\ \A d \in Domains : u \in saved'[d].has => Somewhere(u)
                          /\ \A d \in Domains : Kept(u, d)
    PROVE  JournalInv'
<1>1. /\ up' = up /\ failed' = failed /\ pending' = pending /\ plan' = plan /\ pc' = pc /\ told' = told
      /\ seq' = seq /\ run' = run /\ last' = last /\ counter' = counter /\ UNCHANGED journal
  BY DEF journal
<1>2. WellFormed(files') /\ Numbers' /\ Growing' /\ Records' = Records /\ files' = files
  BY <1>1, Unwritten
<1>3. Shapes'
  BY <1>1 DEF JournalInv, Shapes
<1>4. ASSUME NEW u \in Txs
      PROVE  Open(u)' /\ Pinned(u)' /\ Held(u)' /\ Classified(u)'
  <2>1. /\ Shapes /\ WellFormed(files) /\ Open(u) /\ Held(u) /\ Classified(u)
        /\ u \in pending => pc[u] = "open" /\ up /\ ~failed
    BY InvParts
  <2>2. Open(u)'
    BY <1>1, <1>2, <2>1, UnwrittenOpen
  <2>3. Pinned(u)'
    <3>1. CASE u \in pending
      BY <3>1
    <3>2. CASE u \notin pending
      BY <1>1, <3>2 DEF Pinned
    <3>3. QED
      BY <3>1, <3>2
  <2>4. Held(u)'
    <3>1. CASE pc[u] = "open"
      <4>1. \A r \in Records' : u \in r.of => r.phase # "abort"
        BY <1>2, <2>1, <3>1 DEF Open
      <4>2. pc'[u] # "new"
        BY <1>1, <3>1
      <4>3. u \in pending' => /\ \A p \in Places : u \in mem'[p].has => p \in pins'[u]
                              /\ \A d \in Domains : u \notin saved'[d].has
        BY <1>1
      <4>4. QED
        BY <4>1, <4>2, <4>3 DEF Held
    <3>2. CASE pc[u] # "open"
      <4>1. u \notin pending'
        BY <1>1, <2>1, <3>2
      <4>2. \A r \in Records' : r \in Records \/ u \notin r.of \/ r.phase # "abort"
        BY <1>2
      <4>3. QED
        BY <1>1, <2>1, <3>2, <4>1, <4>2, KeepsHeld
    <3>3. QED
      BY <3>1, <3>2
  <2>5. Classified(u)'
    BY <1>1, <1>2, <2>1, KeepsClassified
  <2>6. QED
    BY <2>2, <2>3, <2>4, <2>5
<1>5. QED
  BY <1>2, <1>3, <1>4 DEF JournalInv

-----------------------------------------------------------------------------
(* The actions. *)

LEMMA InitJournal == Init => JournalInv
<1> SUFFICES ASSUME Init PROVE JournalInv
  OBVIOUS
<1>1. files = <<>> /\ DOMAIN files = {} /\ Len(files) = 0
  BY DEF Init
<1>2. Records = {} /\ RecordsOf(files) = {}
  BY <1>1 DEF Records, RecordsOf
<1>3. /\ up = FALSE /\ failed = FALSE /\ seq = 0 /\ run = 0 /\ last = 0 /\ counter = 0
      /\ pending = {} /\ plan = [t \in Txs |-> {}] /\ pins = plan
      /\ mem = [p \in Places |-> Empty] /\ saved = [d \in Domains |-> Empty] /\ sessions = "one"
      /\ pc = [t \in Txs |-> "new"] /\ told = {}
      /\ lost = [d \in Domains |-> {}]
  BY DEF Init
<1>4. Empty \in DomainState /\ Empty.mark = 0 /\ Empty.has = {}
  BY LimitsAssumption DEF Empty, DomainState
<1>5. 0 \in 0..MaxSeq
  BY LimitsAssumption
<1>6. Shapes
  BY <1>3, <1>4, <1>5 DEF Shapes
<1>7. WellFormed(files)
  <2>1. files \in Seq(Seq(Record))
    BY <1>1
  <2>2. InOrder(files)
    BY <1>1 DEF InOrder
  <2>3. Linked(files)
    BY <1>2 DEF Linked
  <2>4. Bundled(files)
    BY <1>1, <1>2 DEF Bundled
  <2>5. Bounded(files)
    BY <1>1, LimitsAssumption DEF Bounded
  <2>6. QED
    BY <2>1, <2>2, <2>3, <2>4, <2>5 DEF WellFormed
<1>8. Numbers
  BY <1>2, <1>3, <1>4 DEF Numbers
<1>9. Growing
  BY <1>3 DEF Growing
<1>10. \A t \in Txs : Open(t) /\ Pinned(t) /\ Held(t) /\ Classified(t)
  <2> SUFFICES ASSUME NEW t \in Txs PROVE Open(t) /\ Pinned(t) /\ Held(t) /\ Classified(t)
    OBVIOUS
  <2>1. pc[t] = "new" /\ t \notin told /\ t \notin pending
    BY <1>3
  <2>2. (\A p \in Places : mem[p].has = {}) /\ (\A d \in Domains : saved[d].has = {})
    BY <1>3, <1>4
  <2>3. Open(t) /\ Pinned(t)
    BY <1>2, <1>3, <2>1 DEF Open, Pinned
  <2>4. Held(t)
    BY <1>2, <2>1, <2>2 DEF Held
  <2>5. Classified(t)
    BY <2>1 DEF Classified
  <2>6. QED
    BY <2>3, <2>4, <2>5
<1>11. QED
  BY <1>6, <1>7, <1>8, <1>9, <1>10 DEF JournalInv

LEMMA WroteNumbers ==
    ASSUME JournalInv, NEW phase, NEW of, NEW doms, NEW how, Wrote(phase, of, doms, how)
    PROVE  /\ seq' \in 0..MaxSeq /\ run' \in 0..MaxSeq /\ last' \in 0..MaxSeq /\ counter' \in 0..MaxSeq
           /\ failed' \in BOOLEAN /\ failed' = (how # "ok")
           /\ counter \in Nat /\ counter' \in Nat /\ counter <= counter'
           /\ \A p \in Places : mem[p].mark <= counter'
<1>1. /\ seq' \in 0..MaxSeq /\ run' \in 0..MaxSeq /\ last' \in 0..MaxSeq /\ counter' \in 0..MaxSeq
      /\ failed' \in BOOLEAN /\ failed' = (how # "ok")
      /\ counter \in Nat /\ counter' \in Nat /\ counter <= counter'
  BY LimitsAssumption DEF Wrote, JournalInv, Shapes
<1>2. QED
  BY <1>1, MarksAre

LEMMA BeginKeeps ==
    ASSUME JournalInv, NEW t \in Txs, NEW x \in Places, NEW how \in Outcomes, Begin(t, x, how)
    PROVE  JournalInv'
<1>1. /\ x \in Sessions
      /\ up /\ ~failed /\ pc[t] = "new" /\ Write("intent", {t}, {"player"}, how)
      /\ up' = up /\ mem' = mem /\ saved' = saved /\ sessions' = sessions /\ lost' = lost /\ told' = told
      /\ how = "ok" => /\ pending' = pending \cup {t} /\ plan' = [plan EXCEPT ![t] = {"player"}]
                       /\ pins' = [pins EXCEPT ![t] = {x}] /\ pc' = [pc EXCEPT ![t] = "open"]
      /\ how # "ok" => /\ pending' = {} /\ plan' = [plan EXCEPT ![t] = {}]
                       /\ pins' = [pins EXCEPT ![t] = {}] /\ pc' = [pc EXCEPT ![t] = "over"]
  BY DEF Begin, Over
<1>2. Shapes /\ WellFormed(files) /\ Numbers /\ Growing /\ Open(t) /\ Held(t)
  BY InvParts
<1>3. Wrote("intent", {t}, {"player"}, how)
  <2>1. Ready("intent", {"player"}, t)
    BY <1>1, <1>2 DEF Ready, Open
  <2>2. \A u \in {t} : Ready("intent", {"player"}, u)
    BY <2>1
  <2>3. "intent" \in Phases /\ {t} \in SUBSET Txs /\ {"player"} \in SUBSET Domains
    BY DEF Phases, Domains
  <2>4. QED
    BY <1>1, <1>2, <2>2, <2>3, WriteWrote
<1>4. mem' \in [Places -> DomainState] /\ \A p \in Places : mem[p].mark <= mem'[p].mark
  BY <1>1, <1>2, MarksAre DEF Shapes
<1>5. WellFormed(files') /\ Numbers' /\ Growing'
  BY <1>1, <1>3, <1>4, WroteNumbers, WrotePart
<1>6. Shapes'
  <2>1. pending' \in SUBSET Txs /\ plan' \in [Txs -> SUBSET Domains] /\ pins' \in [Txs -> SUBSET Places]
    BY <1>1, <1>2, PlacesAre DEF Shapes
  <2>2. pc' \in [Txs -> {"new", "open", "over"}]
    BY <1>1, <1>2 DEF Shapes
  <2>3. QED
    BY <1>1, <1>2, <1>3, <2>1, <2>2, WroteNumbers DEF Shapes
<1>7. ASSUME NEW u \in Txs, u # t
      PROVE  Open(u)' /\ Pinned(u)' /\ Held(u)' /\ Classified(u)'
  <2>1. pc'[u] = pc[u] /\ plan'[u] = plan[u] /\ pins'[u] = pins[u] /\ u \notin {t}
    BY <1>1, <1>2, <1>7 DEF Shapes
  <2>2. /\ how = "ok" => (u \in pending' <=> u \in pending)
        /\ how # "ok" => pending' = {}
    BY <1>1, <1>7
  <2>3. QED
    BY <1>1, <1>3, <1>4, <2>1, <2>2, OthersKeep
<1>8. Open(t)' /\ Pinned(t)' /\ Held(t)' /\ Classified(t)'
  <2>1. /\ \A r \in Records : t \notin r.of
        /\ \A p \in Places : t \notin mem[p].has
        /\ \A d \in Domains : t \notin saved[d].has
        /\ t \notin told
    BY <1>1, <1>2 DEF Open, Held
  <2>2. \A r \in Records' : t \in r.of => r = NewRecord("intent", {t}, {"player"})
    BY <1>3, <2>1 DEF Wrote
  <2>3. \A r \in Records' : t \in r.of => r.phase = "intent" /\ r.doms = {"player"}
    BY <2>2 DEF NewRecord
  <2>4. Held(t)'
    BY <1>1, <2>1, <2>3 DEF Held
  <2>5. Classified(t)'
    BY <1>1, <2>1 DEF Classified
  <2>6. CASE how # "ok"
    <3>1. pc'[t] = "over" /\ t \notin pending'
      BY <1>1, <1>2, <2>6 DEF Shapes
    <3>2. QED
      BY <2>4, <2>5, <3>1, OverOpen
  <2>7. CASE how = "ok"
    <3>1. /\ pc'[t] = "open" /\ plan'[t] = {"player"} /\ pins'[t] = {x}
          /\ t \in pending' /\ up' /\ ~failed'
      BY <1>1, <1>2, <1>3, <2>7 DEF Shapes, Wrote
    <3>2. NewRecord("intent", {t}, {"player"}) \in Records' /\ t \in NewRecord("intent", {t}, {"player"}).of
      BY <1>3, <2>7 DEF Wrote, NewRecord
    <3>3. \A i \in DOMAIN files' : \A r \in ToSet(files'[i]) : t \in r.of => i = Len(files')
      BY <1>3, <2>1 DEF Wrote
    <3>4. \A d \in Domains : d \in plan'[t] <=> \E r \in Records' : t \in r.of /\ d \in r.doms
      BY <2>3, <3>1, <3>2
    <3>5. Open(t)'
      BY <1>1, <2>1, <2>3, <3>1, <3>2, <3>3, <3>4 DEF Open
    <3>6. Pinned(t)'
      BY <1>1, <3>1 DEF Pinned, Sessions
    <3>7. QED
      BY <2>4, <2>5, <3>5, <3>6
  <2>8. QED
    BY <2>6, <2>7
<1>9. QED
  BY <1>5, <1>6, <1>7, <1>8 DEF JournalInv

\* A record about a transaction that is pinned.
LEMMA WroteOfOpen ==
    ASSUME JournalInv, up, NEW t \in Txs, t \in pending, NEW how \in Outcomes,
           NEW phase \in {"domain", "commit", "abort"}, NEW doms \in SUBSET Domains,
           phase = "domain" \/ doms = plan[t], Write(phase, {t}, doms, how)
    PROVE  ~failed /\ Wrote(phase, {t}, doms, how)
<1>1. Shapes /\ WellFormed(files) /\ Numbers /\ Growing /\ Open(t)
  BY InvParts
<1>2. /\ ~failed /\ pc[t] = "open" /\ \E r \in Records : t \in r.of
      /\ \A i \in DOMAIN files : \A r \in ToSet(files[i]) : t \in r.of => i = Len(files)
      /\ \A d \in Domains : d \in plan[t] <=> \E r \in Records : t \in r.of /\ d \in r.doms
      /\ \A r \in Records : t \in r.of => r.phase \in {"intent", "domain"}
  BY <1>1 DEF Open
<1>3. \A i \in DOMAIN files : \A r \in ToSet(files[i]) : r \in Records
  BY <1>1, RecordsAre DEF WellFormed, Records
<1>4. Continues(files, phase, doms, t)
  BY <1>2, <1>3 DEF Continues, Records
<1>5. \A u \in {t} : Ready(phase, doms, u)
  BY <1>4 DEF Ready
<1>6. phase \in Phases /\ {t} \in SUBSET Txs
  BY DEF Phases
<1>7. QED
  BY <1>1, <1>2, <1>5, <1>6, WriteWrote

LEMMA TrackKeeps ==
    ASSUME JournalInv, NEW t \in Txs, NEW x \in MapFiles, NEW how \in Outcomes, Track(t, x, how)
    PROVE  JournalInv'
<1>1. /\ up /\ t \in pending /\ Write("domain", {t}, {x}, how)
      /\ up' = up /\ mem' = mem /\ saved' = saved /\ sessions' = sessions /\ lost' = lost /\ told' = told
      /\ how = "ok" => /\ pending' = pending /\ plan' = [plan EXCEPT ![t] = @ \cup {x}]
                       /\ pins' = [pins EXCEPT ![t] = @ \cup {x}] /\ pc' = pc
      /\ how # "ok" => /\ pending' = {} /\ plan' = [plan EXCEPT ![t] = {}]
                       /\ pins' = [pins EXCEPT ![t] = {}] /\ pc' = [pc EXCEPT ![t] = "over"]
  BY DEF Track, Over
<1>2. Shapes /\ WellFormed(files) /\ Numbers /\ Growing /\ Open(t) /\ Pinned(t) /\ Held(t)
  BY InvParts
<1>3. ~failed /\ Wrote("domain", {t}, {x}, how)
  <2>1. {x} \in SUBSET Domains /\ x \in Domains
    BY PlacesAre
  <2>2. QED
    BY <1>1, <2>1, WroteOfOpen
<1>4. mem' \in [Places -> DomainState] /\ \A p \in Places : mem[p].mark <= mem'[p].mark
  BY <1>1, <1>2, MarksAre DEF Shapes
<1>5. WellFormed(files') /\ Numbers' /\ Growing'
  BY <1>1, <1>3, <1>4, WroteNumbers, WrotePart
<1>6. Shapes'
  <2>1. pending' \in SUBSET Txs /\ plan' \in [Txs -> SUBSET Domains] /\ pins' \in [Txs -> SUBSET Places]
    BY <1>1, <1>2, PlacesAre DEF Shapes
  <2>2. pc' \in [Txs -> {"new", "open", "over"}]
    BY <1>1, <1>2 DEF Shapes
  <2>3. QED
    BY <1>1, <1>2, <1>3, <2>1, <2>2, WroteNumbers DEF Shapes
<1>7. ASSUME NEW u \in Txs, u # t
      PROVE  Open(u)' /\ Pinned(u)' /\ Held(u)' /\ Classified(u)'
  <2>1. pc'[u] = pc[u] /\ plan'[u] = plan[u] /\ pins'[u] = pins[u] /\ u \notin {t}
    BY <1>1, <1>2, <1>7 DEF Shapes
  <2>2. QED
    BY <1>1, <1>3, <1>4, <2>1, OthersKeep
<1>8. Open(t)' /\ Pinned(t)' /\ Held(t)' /\ Classified(t)'
  <2>1. /\ pc[t] = "open" /\ t \notin told /\ "player" \in plan[t]
        /\ \A r \in Records : t \in r.of => r.phase \in {"intent", "domain"}
    BY <1>1, <1>2 DEF Open
  <2>2. \A r \in Records' : t \in r.of => r \in Records \/ r = NewRecord("domain", {t}, {x})
    BY <1>3 DEF Wrote
  <2>3. /\ NewRecord("domain", {t}, {x}).phase = "domain" /\ NewRecord("domain", {t}, {x}).doms = {x}
        /\ NewRecord("domain", {t}, {x}).of = {t}
    BY DEF NewRecord
  <2>4. \A r \in Records' : t \in r.of => r.phase \in {"intent", "domain"}
    BY <2>1, <2>2, <2>3
  <2>5. Classified(t)'
    BY <1>1, <2>1 DEF Classified
  <2>6. CASE how # "ok"
    <3>1. pc'[t] = "over" /\ t \notin pending'
      BY <1>1, <1>2, <2>6 DEF Shapes
    <3>2. Held(t)'
      BY <2>4, <3>1 DEF Held
    <3>3. QED
      BY <2>5, <3>1, <3>2, OverOpen
  <2>7. CASE how = "ok"
    <3>1. /\ pc'[t] = "open" /\ plan'[t] = plan[t] \cup {x} /\ pins'[t] = pins[t] \cup {x}
          /\ t \in pending' /\ up' /\ ~failed'
      BY <1>1, <1>2, <1>3, <2>1, <2>7, WroteNumbers DEF Shapes
    <3>2. /\ NewRecord("domain", {t}, {x}) \in Records' /\ Records \subseteq Records' /\ Len(files') = Len(files)
          /\ \A i \in DOMAIN files' : \A r \in ToSet(files'[i]) :
                i = Len(files') \/ (i \in DOMAIN files /\ r \in ToSet(files[i]))
      BY <1>1, <1>3, <2>7 DEF Wrote
    <3>3. /\ \E r \in Records : t \in r.of
          /\ \A i \in DOMAIN files : \A r \in ToSet(files[i]) : t \in r.of => i = Len(files)
          /\ \A d \in Domains : d \in plan[t] <=> \E r \in Records : t \in r.of /\ d \in r.doms
      BY <1>1, <1>2 DEF Open
    <3>4. \A i \in DOMAIN files' : \A r \in ToSet(files'[i]) : t \in r.of => i = Len(files')
      BY <3>2, <3>3
    <3>5. \A d \in Domains : d \in plan'[t] <=> \E r \in Records' : t \in r.of /\ d \in r.doms
      BY <2>2, <2>3, <3>1, <3>2, <3>3
    <3>6. (\E r \in Records' : t \in r.of) /\ "player" \in plan'[t]
      BY <2>1, <3>1, <3>2, <3>3
    <3>7. Open(t)'
      BY <1>1, <2>1, <2>4, <3>1, <3>4, <3>5, <3>6 DEF Open
    <3>8. Pinned(t)'
      <4>1. /\ "former" \in pins[t] => sessions = "two"
            /\ \A d \in plan[t] : d \in pins[t] \/ t \in lost[d] \/ (d = "player" /\ "former" \in pins[t])
        BY <1>1, <1>2 DEF Pinned
      <4>2. "former" \in pins'[t] => sessions' = "two"
        BY <1>1, <3>1, <4>1, PlacesAre
      <4>3. \A d \in plan'[t] : d \in pins'[t] \/ t \in lost'[d] \/ (d = "player" /\ "former" \in pins'[t])
        BY <1>1, <3>1, <4>1
      <4>4. QED
        BY <4>2, <4>3 DEF Pinned
    <3>9. Held(t)'
      <4>1. /\ \A p \in Places : t \in mem'[p].has => p \in pins'[t]
            /\ \A d \in Domains : t \notin saved'[d].has
        BY <1>1, <1>2, <3>1 DEF Held
      <4>2. QED
        BY <2>4, <3>1, <4>1 DEF Held
    <3>10. QED
      BY <2>5, <3>7, <3>8, <3>9
  <2>8. QED
    BY <2>6, <2>7
<1>9. QED
  BY <1>5, <1>6, <1>7, <1>8 DEF JournalInv

LEMMA CommitKeeps ==
    ASSUME JournalInv, NEW t \in Txs, NEW how \in Outcomes, Commit(t, how), ~failed
    PROVE  JournalInv'
<1>1. /\ up /\ pc[t] = "open" /\ (\A p \in pins[t] : t \in mem[p].has)
      /\ Write("commit", {t}, plan[t], how)
      /\ up' = up /\ saved' = saved /\ sessions' = sessions
      /\ plan' = [plan EXCEPT ![t] = {}] /\ pins' = [pins EXCEPT ![t] = {}]
      /\ pc' = [pc EXCEPT ![t] = "over"]
      /\ how = "ok" => pending' = pending \ {t} /\ told' = told \cup {t} /\ mem' = Marked(t) /\ lost' = Split(t)
      /\ how # "ok" => pending' = {} /\ told' = told /\ mem' = mem /\ lost' = lost
  BY DEF Commit, Over
<1>2. /\ Shapes /\ WellFormed(files) /\ Numbers /\ Growing
      /\ Open(t) /\ Pinned(t) /\ Held(t) /\ Classified(t)
  BY InvParts
<1>3. t \in pending /\ plan[t] \in SUBSET Domains /\ t \notin told
  BY <1>1, <1>2 DEF Open, Shapes
<1>4. Wrote("commit", {t}, plan[t], how)
  BY <1>1, <1>3, WroteOfOpen
<1>5. /\ seq = counter /\ seq \in Nat /\ (how = "ok" => seq' = seq + 1 /\ counter' = seq') /\ seq' \in 0..MaxSeq
      /\ counter' \in Nat /\ counter <= counter' /\ failed' = (how # "ok")
  BY <1>1, <1>2, <1>4, WroteNumbers DEF Wrote, Numbers, Shapes
<1>6. /\ mem' \in [Places -> DomainState]
      /\ \A p \in Places : /\ mem'[p].has = mem[p].has /\ mem[p].mark <= mem'[p].mark /\ mem'[p].mark <= counter'
                           /\ mem'[p].mark \in Nat
                           /\ how = "ok" /\ p \in pins[t] => mem'[p].mark = seq'
  <2>1. CASE how # "ok"
    BY <1>1, <1>2, <1>5, <2>1, MarksAre DEF Shapes
  <2>2. CASE how = "ok"
    <3>1. mem' = [p \in Places |-> IF p \in pins[t] THEN [mem[p] EXCEPT !.mark = seq'] ELSE mem[p]]
      BY <1>1, <2>2 DEF Marked
    <3>2. ASSUME NEW p \in Places
          PROVE  /\ mem'[p] \in DomainState /\ mem'[p].has = mem[p].has
                 /\ mem'[p].mark = IF p \in pins[t] THEN seq' ELSE mem[p].mark
      <4>1. mem[p] \in DomainState
        BY MarksAre
      <4>2. CASE p \in pins[t]
        <5>1. mem'[p] = [mem[p] EXCEPT !.mark = seq']
          BY <3>1, <4>2
        <5>2. QED
          BY <1>5, <4>1, <4>2, <5>1 DEF DomainState
      <4>3. CASE p \notin pins[t]
        BY <3>1, <4>1, <4>3
      <4>4. QED
        BY <4>2, <4>3
    <3>3. mem' \in [Places -> DomainState]
      BY <3>1, <3>2
    <3>4. \A p \in Places : mem[p].mark \in Nat /\ mem[p].mark <= counter
      BY MarksAre
    <3>5. QED
      BY <1>5, <2>2, <3>2, <3>3, <3>4
  <2>3. QED
    BY <2>1, <2>2
<1>7. /\ lost' \in [Domains -> SUBSET Txs] /\ \A d \in Domains : lost[d] \subseteq lost'[d]
      /\ how = "ok" /\ sessions = "two" => t \in lost'["player"]
  BY <1>1, <1>2, PlacesAre DEF Split, Shapes
<1>8. WellFormed(files') /\ Numbers' /\ Growing'
  BY <1>1, <1>4, <1>6, WrotePart
<1>9. Shapes'
  <2>1. /\ pending' \in SUBSET Txs /\ told' \in SUBSET Txs
        /\ plan' \in [Txs -> SUBSET Domains] /\ pins' \in [Txs -> SUBSET Places]
    BY <1>1, <1>2 DEF Shapes
  <2>2. pc' \in [Txs -> {"new", "open", "over"}]
    BY <1>1, <1>2 DEF Shapes
  <2>3. QED
    BY <1>1, <1>2, <1>4, <1>6, <1>7, <2>1, <2>2, WroteNumbers DEF Shapes
<1>10. ASSUME NEW u \in Txs, u # t
       PROVE  Open(u)' /\ Pinned(u)' /\ Held(u)' /\ Classified(u)'
  <2>1. pc'[u] = pc[u] /\ plan'[u] = plan[u] /\ pins'[u] = pins[u] /\ (u \in told' => u \in told) /\ u \notin {t}
    BY <1>1, <1>2, <1>10 DEF Shapes
  <2>2. /\ how = "ok" => (u \in pending' <=> u \in pending)
        /\ how # "ok" => pending' = {}
    BY <1>1, <1>10
  <2>3. QED
    BY <1>1, <1>4, <1>6, <1>7, <2>1, <2>2, OthersKeep
<1>11. pc'[t] = "over" /\ t \notin pending'
  BY <1>1, <1>2 DEF Shapes
<1>12. \A r \in Records' : t \in r.of => r \in Records \/ r = NewRecord("commit", {t}, plan[t])
  BY <1>4 DEF Wrote
<1>13. /\ NewRecord("commit", {t}, plan[t]).phase = "commit" /\ NewRecord("commit", {t}, plan[t]).doms = plan[t]
       /\ NewRecord("commit", {t}, plan[t]).seq = seq + 1
  BY DEF NewRecord
<1>14. \A r \in Records : t \in r.of => r.phase \in {"intent", "domain"}
  BY <1>1, <1>2 DEF Open
<1>15. Held(t)'
  BY <1>11, <1>12, <1>13, <1>14 DEF Held
<1>16. Classified(t)'
  <2> SUFFICES ASSUME t \in told', NEW r \in Records', NEW d \in Domains,
                      r.phase = "commit", t \in r.of, d \in r.doms, t \notin lost'[d]
               PROVE  /\ (t \in saved'[d].has) <=> (saved'[d].mark >= r.seq)
                      /\ \A p \in Present' : FileOf(p) = d => t \in mem'[p].has /\ mem'[p].mark >= r.seq
    BY DEF Classified
  <2>1. how = "ok"
    BY <1>1, <1>3
  <2>2. r.seq = seq + 1 /\ d \in plan[t]
    BY <1>12, <1>13, <1>14
  <2>3. t \notin saved'[d].has /\ ~(saved'[d].mark >= r.seq)
    <3>1. saved[d].mark \in Nat /\ saved[d].mark <= counter
      BY MarksAre
    <3>2. t \notin saved[d].has
      BY <1>2, <1>3 DEF Held
    <3>3. QED
      BY <1>1, <1>5, <2>2, <3>1, <3>2
  <2>4. d \in pins[t] /\ (d = "player" => sessions # "two")
    BY <1>2, <1>3, <1>7, <2>1, <2>2 DEF Pinned
  <2>5. ASSUME NEW p \in Present', FileOf(p) = d
        PROVE  p = d
    <3>1. p \in Present
      BY <1>1 DEF Present, Sessions
    <3>2. QED
      BY <2>4, <2>5, <3>1, PlacesAre
  <2>6. t \in mem'[d].has /\ mem'[d].mark >= r.seq
    <3>1. d \in Places
      BY PlacesAre
    <3>2. QED
      BY <1>1, <1>5, <1>6, <2>1, <2>2, <2>4, <3>1
  <2>7. QED
    BY <2>3, <2>5, <2>6
<1>17. Open(t)' /\ Pinned(t)'
  BY <1>11, OverOpen
<1>18. QED
  BY <1>8, <1>9, <1>10, <1>15, <1>16, <1>17 DEF JournalInv

\* Taking back a transaction's changes leaves the others and the marks alone.
LEMMA TakenBack ==
    ASSUME JournalInv, NEW t \in Txs, mem' = [p \in Places |-> [mem[p] EXCEPT !.has = @ \ {t}]]
    PROVE  /\ mem' \in [Places -> DomainState]
           /\ \A p \in Places : mem'[p].has = mem[p].has \ {t} /\ mem'[p].mark = mem[p].mark
<1>1. ASSUME NEW p \in Places
      PROVE  mem'[p] \in DomainState /\ mem'[p].has = mem[p].has \ {t} /\ mem'[p].mark = mem[p].mark
  <2>1. mem[p] \in DomainState /\ mem'[p] = [mem[p] EXCEPT !.has = @ \ {t}]
    BY MarksAre
  <2>2. QED
    BY <2>1 DEF DomainState
<1>2. QED
  BY <1>1

LEMMA AbortKeeps ==
    ASSUME JournalInv, NEW t \in Txs, NEW how \in Outcomes, Abort(t, how), ~failed
    PROVE  JournalInv'
<1>1. /\ up /\ pc[t] = "open" /\ Write("abort", {t}, plan[t], how)
      /\ mem' = [p \in Places |-> [mem[p] EXCEPT !.has = @ \ {t}]]
      /\ up' = up /\ saved' = saved /\ sessions' = sessions /\ lost' = lost /\ told' = told
      /\ plan' = [plan EXCEPT ![t] = {}] /\ pins' = [pins EXCEPT ![t] = {}]
      /\ pc' = [pc EXCEPT ![t] = "over"]
      /\ pending' = IF how = "ok" THEN pending \ {t} ELSE {}
  BY DEF Abort, Over
<1>2. Shapes /\ WellFormed(files) /\ Numbers /\ Growing /\ Open(t) /\ Held(t) /\ Classified(t)
  BY InvParts
<1>3. t \in pending /\ plan[t] \in SUBSET Domains /\ t \notin told
  BY <1>1, <1>2 DEF Open, Shapes
<1>4. Wrote("abort", {t}, plan[t], how)
  BY <1>1, <1>3, WroteOfOpen
<1>5. /\ mem' \in [Places -> DomainState]
      /\ \A p \in Places : mem'[p].has = mem[p].has \ {t} /\ mem'[p].mark = mem[p].mark /\ mem[p].mark \in Nat
  BY <1>1, TakenBack, MarksAre
<1>6. WellFormed(files') /\ Numbers' /\ Growing'
  <2>1. \A p \in Places : mem[p].mark <= mem'[p].mark /\ mem'[p].mark <= counter'
    BY <1>4, <1>5, WroteNumbers
  <2>2. QED
    BY <1>1, <1>4, <1>5, <2>1, WrotePart
<1>7. Shapes'
  <2>1. /\ pending' \in SUBSET Txs /\ pc' \in [Txs -> {"new", "open", "over"}]
        /\ plan' \in [Txs -> SUBSET Domains] /\ pins' \in [Txs -> SUBSET Places]
    BY <1>1, <1>2 DEF Shapes
  <2>2. QED
    BY <1>1, <1>2, <1>4, <1>5, <2>1, WroteNumbers DEF Shapes
<1>8. ASSUME NEW u \in Txs, u # t
      PROVE  Open(u)' /\ Pinned(u)' /\ Held(u)' /\ Classified(u)'
  <2>1. pc'[u] = pc[u] /\ plan'[u] = plan[u] /\ pins'[u] = pins[u] /\ u \notin {t}
    BY <1>1, <1>2, <1>8 DEF Shapes
  <2>2. /\ how = "ok" => (u \in pending' <=> u \in pending)
        /\ how # "ok" => pending' = {}
    BY <1>1, <1>8
  <2>3. \A p \in Places : (u \in mem'[p].has <=> u \in mem[p].has) /\ mem[p].mark <= mem'[p].mark
    BY <1>5, <1>8
  <2>4. QED
    BY <1>1, <1>4, <1>5, <2>1, <2>2, <2>3, OthersKeep
<1>9. pc'[t] = "over" /\ t \notin pending' /\ t \notin told'
  BY <1>1, <1>2, <1>3 DEF Shapes
<1>10. Held(t)'
  <2>1. /\ \A p \in Places : t \notin mem'[p].has
        /\ \A d \in Domains : t \notin saved'[d].has
    BY <1>1, <1>2, <1>3, <1>5 DEF Held
  <2>2. QED
    BY <1>9, <2>1 DEF Held
<1>11. Open(t)' /\ Pinned(t)'
  BY <1>9, OverOpen
<1>12. Classified(t)'
  BY <1>9 DEF Classified
<1>13. QED
  BY <1>6, <1>7, <1>8, <1>10, <1>11, <1>12 DEF JournalInv

LEMMA ProfileBoundaryKeeps ==
    ASSUME JournalInv, NEW how \in Outcomes, ProfileBoundary(how)
    PROVE  JournalInv'
<1>1. /\ up /\ ~failed /\ pending = {} /\ Write("boundary", {}, {}, how)
      /\ up' = up /\ pending' = pending /\ mem' = mem /\ saved' = saved /\ sessions' = sessions /\ lost' = lost
      /\ plan' = plan /\ pins' = pins /\ pc' = pc /\ told' = told
  BY DEF ProfileBoundary, producers
<1>2. Shapes /\ WellFormed(files) /\ Numbers /\ Growing
  BY DEF JournalInv
<1>3. Wrote("boundary", {}, {}, how)
  <2>1. "boundary" \in Phases /\ {} \in SUBSET Txs /\ {} \in SUBSET Domains
    BY DEF Phases
  <2>2. \A u \in {} : Ready("boundary", {}, u)
    OBVIOUS
  <2>3. QED
    BY <1>1, <1>2, <2>1, <2>2, WriteWrote
<1>4. mem' \in [Places -> DomainState] /\ \A p \in Places : mem[p].mark <= mem'[p].mark
  BY <1>1, <1>2, MarksAre DEF Shapes
<1>5. WellFormed(files') /\ Numbers' /\ Growing'
  BY <1>1, <1>3, <1>4, WroteNumbers, WrotePart
<1>6. Shapes'
  BY <1>1, <1>2, <1>3, WroteNumbers DEF Shapes
<1>7. ASSUME NEW u \in Txs
      PROVE  Open(u)' /\ Pinned(u)' /\ Held(u)' /\ Classified(u)'
  <2>1. u \notin {}
    OBVIOUS
  <2>2. QED
    BY <1>1, <1>3, <1>4, <2>1, OthersKeep
<1>8. QED
  BY <1>5, <1>6, <1>7 DEF JournalInv

\* The producers' calls after the journal has failed, and attempts.
LEMMA ReleaseKeeps ==
    ASSUME JournalInv, up, NEW t \in Txs, pc[t] = "open",
           UNCHANGED <<up, failed, journal, saved, sessions, lost>>,
           pending' = IF failed THEN {} ELSE pending \ {t},
           Over(t, FALSE),
           mem' = mem \/ mem' = [p \in Places |-> [mem[p] EXCEPT !.has = @ \ {t}]]
    PROVE  JournalInv'
<1>1. /\ up' = up /\ failed' = failed /\ saved' = saved /\ sessions' = sessions /\ lost' = lost /\ told' = told
      /\ plan' = [plan EXCEPT ![t] = {}] /\ pins' = [pins EXCEPT ![t] = {}]
      /\ pc' = [pc EXCEPT ![t] = "over"] /\ UNCHANGED journal
  BY DEF Over
<1>2. Shapes /\ WellFormed(files) /\ Numbers /\ Growing /\ Open(t) /\ Held(t) /\ Classified(t)
  BY InvParts
<1>3. /\ mem' \in [Places -> DomainState]
      /\ \A p \in Places : /\ mem'[p].has \in {mem[p].has, mem[p].has \ {t}}
                           /\ mem'[p].mark = mem[p].mark /\ mem[p].mark \in Nat
  BY <1>2, TakenBack, MarksAre DEF Shapes
<1>4. WellFormed(files') /\ Numbers' /\ Growing' /\ Records' = Records /\ files' = files
  <2>1. /\ \A p \in Places : mem'[p].mark <= counter
        /\ \A d \in Domains : /\ saved'[d].mark <= counter
                              /\ saved'[d].mark <= mem'[d].mark \/ (d = "player" /\ sessions' # "one")
    BY <1>1, <1>2, <1>3, MarksAre, PlacesAre DEF Numbers
  <2>2. QED
    BY <1>1, <2>1, Unwritten
<1>5. Shapes'
  <2>1. seq' = seq /\ run' = run /\ last' = last /\ counter' = counter
    BY <1>1 DEF journal
  <2>2. /\ pending' \in SUBSET Txs /\ pc' \in [Txs -> {"new", "open", "over"}]
        /\ plan' \in [Txs -> SUBSET Domains] /\ pins' \in [Txs -> SUBSET Places]
    BY <1>1, <1>2 DEF Shapes
  <2>3. QED
    BY <1>1, <1>2, <1>3, <2>1, <2>2 DEF Shapes
<1>6. pc'[t] = "over" /\ t \notin pending' /\ t \notin told'
  BY <1>1, <1>2 DEF Shapes, Open
<1>7. ASSUME NEW u \in Txs
      PROVE  Open(u)' /\ Pinned(u)'
  <2>1. CASE u = t
    BY <1>6, <2>1, OverOpen
  <2>2. CASE u # t
    <3>1. pc'[u] = pc[u] /\ plan'[u] = plan[u] /\ pins'[u] = pins[u] /\ (u \in pending' => u \in pending)
      BY <1>1, <1>2, <2>2 DEF Shapes
    <3>2. Open(u) /\ Pinned(u) /\ plan[u] \subseteq Domains
      BY InvParts
    <3>3. Open(u)'
      <4>1. u \in pending' => u \in pending /\ ~failed'
        BY <1>1
      <4>2. ~failed' => ~failed /\ (u \in pending => u \in pending')
        BY <1>1, <2>2
      <4>3. QED
        BY <1>1, <1>4, <3>1, <3>2, <4>1, <4>2, UnwrittenOpen
    <3>4. Pinned(u)'
      BY <1>1, <3>1, <3>2, KeepsPinned
    <3>5. QED
      BY <3>3, <3>4
  <2>3. QED
    BY <2>1, <2>2
<1>8. ASSUME NEW u \in Txs
      PROVE  Held(u)'
  <2>1. Held(u)
    BY InvParts
  <2>2. pc'[u] = "new" => pc[u] = "new"
    BY <1>1, <1>2 DEF Shapes
  <2>3. /\ \A p \in Places : u \in mem'[p].has => u \in mem[p].has
        /\ \A d \in Domains : u \in saved'[d].has => u \in saved[d].has
    BY <1>1, <1>3
  <2>4. /\ \A p \in Places : u \in mem'[p].has => Somewhere(u)
        /\ \A d \in Domains : u \in saved'[d].has => Somewhere(u)
    BY <2>3 DEF Somewhere
  <2>5. u \in pending' => /\ \A p \in Places : u \in mem'[p].has => p \in pins'[u]
                          /\ \A d \in Domains : u \notin saved'[d].has
    <3> SUFFICES ASSUME u \in pending'
                 PROVE  /\ \A p \in Places : u \in mem'[p].has => p \in pins'[u]
                        /\ \A d \in Domains : u \notin saved'[d].has
      OBVIOUS
    <3>1. u # t /\ u \in pending /\ pins'[u] = pins[u]
      BY <1>1, <1>2, <1>6 DEF Shapes
    <3>2. QED
      BY <1>1, <2>1, <2>3, <3>1 DEF Held
  <2>6. QED
    BY <1>4, <2>1, <2>2, <2>4, <2>5, KeepsHeld
<1>9. ASSUME NEW u \in Txs
      PROVE  Classified(u)'
  <2>1. CASE u = t
    BY <1>6, <2>1 DEF Classified
  <2>2. CASE u # t
    <3>1. Present' = Present
      BY <1>1 DEF Present, Sessions
    <3>2. ASSUME NEW d \in Domains PROVE Kept(u, d)
      <4>1. \A p \in Places : mem[p].mark <= mem'[p].mark /\ (u \in mem[p].has => u \in mem'[p].has)
        BY <1>3, <2>2
      <4>2. QED
        BY <1>1, <3>1, <4>1, PlacesAre, KeptInPlace
    <3>3. Classified(u)
      BY InvParts
    <3>4. sessions' \in {"one", "two", "second"}
      BY <1>5 DEF Shapes
    <3>5. QED
      BY <1>1, <1>2, <1>3, <1>4, <3>2, <3>3, <3>4, KeepsClassified
  <2>3. QED
    BY <2>1, <2>2
<1>10. QED
  BY <1>4, <1>5, <1>7, <1>8, <1>9 DEF JournalInv

LEMMA AttemptKeeps ==
    ASSUME JournalInv, NEW t \in Txs, Attempt(t)
    PROVE  JournalInv'
BY ReleaseKeeps DEF Attempt, Released

LEMMA FailedCommitKeeps ==
    ASSUME JournalInv, NEW t \in Txs, NEW how \in Outcomes, failed, Commit(t, how) \/ Abort(t, how)
    PROVE  JournalInv'
<1>1. CASE Commit(t, how)
  <2>1. /\ up /\ pc[t] = "open" /\ pending' = {} /\ Over(t, FALSE) /\ mem' = mem
        /\ UNCHANGED <<up, failed, journal, saved, sessions, lost>>
    BY <1>1 DEF Commit
  <2>2. QED
    BY <2>1, ReleaseKeeps
<1>2. CASE Abort(t, how)
  <2>1. /\ up /\ pc[t] = "open" /\ pending' = {} /\ Over(t, FALSE)
        /\ mem' = [p \in Places |-> [mem[p] EXCEPT !.has = @ \ {t}]]
        /\ UNCHANGED <<up, failed, journal, saved, sessions, lost>>
    BY <1>2 DEF Abort
  <2>2. QED
    BY <2>1, ReleaseKeeps
<1>3. QED
  BY <1>1, <1>2

\* What the quiet steps start from.
LEMMA QuietFacts ==
    ASSUME JournalInv
    PROVE  /\ Shapes /\ WellFormed(files) /\ \A d \in Domains : CommittedOn(d) \subseteq Txs
           /\ up => \A d \in Domains : saved[d].mark <= mem[d].mark \/ (d = "player" /\ sessions # "one")
           /\ \A u \in Txs : /\ \A p \in Places : u \in mem[p].has => Somewhere(u)
                             /\ \A d \in Domains : u \in saved[d].has => Somewhere(u)
           /\ \A u \in pending : /\ u \in Txs /\ plan[u] \subseteq Domains /\ pins[u] \subseteq Places /\ Pinned(u)
                                 /\ "former" \in pins[u] => sessions = "two"
                                 /\ \A d \in plan[u] : d \in pins[u] \/ u \in lost[d] \/ (d = "player" /\ "former" \in pins[u])
                                 /\ \A p \in Places : u \in mem[p].has => p \in pins[u]
                                 /\ \A d \in Domains : u \notin saved[d].has
<1>1. Shapes /\ WellFormed(files) /\ Numbers
  BY DEF JournalInv
<1>2. \A d \in Domains : CommittedOn(d) \subseteq Txs
  <2>1. \A r \in Records : r.of \subseteq Txs
    BY <1>1, RecordsAre, RecordFields DEF WellFormed, Records
  <2>2. QED
    BY <2>1 DEF CommittedOn, Committed
<1>3. \A u \in Txs : /\ \A p \in Places : u \in mem[p].has => Somewhere(u)
                     /\ \A d \in Domains : u \in saved[d].has => Somewhere(u)
  BY DEF Somewhere
<1>4. \A u \in pending : u \in Txs /\ plan[u] \subseteq Domains /\ pins[u] \subseteq Places
  BY <1>1 DEF Shapes
<1>5. \A u \in pending : Pinned(u) /\ Held(u)
  BY <1>4 DEF JournalInv
<1>6. \A u \in pending : /\ "former" \in pins[u] => sessions = "two"
                         /\ \A d \in plan[u] : d \in pins[u] \/ u \in lost[d] \/ (d = "player" /\ "former" \in pins[u])
  BY <1>5 DEF Pinned
<1>7. \A u \in pending : /\ \A p \in Places : u \in mem[p].has => p \in pins[u]
                         /\ \A d \in Domains : u \notin saved[d].has
  BY <1>5 DEF Held
<1>8. QED
  BY <1>1, <1>2, <1>3, <1>4, <1>5, <1>6, <1>7 DEF Numbers

LEMMA MutateKeeps ==
    ASSUME JournalInv, NEW t \in Txs, NEW x \in Places, Mutate(t, x)
    PROVE  JournalInv'
<1>1. /\ up /\ pc[t] = "open" /\ x \in pins[t]
      /\ mem' = [mem EXCEPT ![x].has = @ \cup {t}]
      /\ UNCHANGED <<up, failed, pending, journal, plan, pc, told>>
      /\ saved' = saved /\ sessions' = sessions /\ lost' = lost /\ pins' = pins
  BY DEF Mutate, producers
<1>2. Shapes
  BY DEF JournalInv
<1>3. /\ mem' \in [Places -> DomainState]
      /\ \A p \in Places : /\ mem'[p].mark = mem[p].mark /\ mem[p].mark \in Nat
                           /\ mem'[p].has = IF p = x THEN mem[p].has \cup {t} ELSE mem[p].has
  <2>1. mem[x] \in DomainState
    BY MarksAre
  <2> DEFINE new == [mem[x] EXCEPT !.has = @ \cup {t}]
  <2>2. new \in DomainState /\ new.mark = mem[x].mark /\ new.has = mem[x].has \cup {t}
    BY <2>1 DEF DomainState
  <2>3. mem' = [mem EXCEPT ![x] = new]
    BY <1>1
  <2> HIDE DEF new
  <2>4. QED
    BY <1>2, <2>2, <2>3, MarksAre DEF Shapes
<1>4. /\ \A p \in Places : mem'[p].mark <= counter
      /\ \A d \in Domains : /\ saved'[d].mark <= counter
                            /\ saved'[d].mark <= mem'[d].mark \/ (d = "player" /\ sessions' # "one")
  BY <1>1, <1>3, MarksAre, QuietFacts, PlacesAre
<1>5. ASSUME NEW u \in pending
      PROVE  /\ Pinned(u)' /\ \A p \in Places : u \in mem'[p].has => p \in pins'[u]
             /\ \A d \in Domains : u \notin saved'[d].has
  <2>1. Pinned(u)'
    BY <1>1, QuietFacts DEF Pinned
  <2>2. QED
    BY <1>1, <1>3, <2>1, QuietFacts
<1>6. ASSUME NEW u \in Txs
      PROVE  /\ \A p \in Places : u \in mem'[p].has => Somewhere(u) \/ pc[u] = "open"
             /\ \A d \in Domains : u \in saved'[d].has => Somewhere(u)
             /\ \A d \in Domains : Kept(u, d)
  <2>1. Present' = Present
    BY <1>1 DEF Present, Sessions
  <2>2. ASSUME NEW p \in Places
        PROVE  mem[p].mark <= mem'[p].mark /\ (u \in mem[p].has => u \in mem'[p].has)
    <3>1. mem[p].mark <= mem'[p].mark
      <4>1. mem'[p].mark = mem[p].mark /\ mem[p].mark \in Nat
        BY <1>3
      <4>2. QED
        BY <4>1
    <3>2. u \in mem[p].has => u \in mem'[p].has
      BY <1>3
    <3>3. QED
      BY <3>1, <3>2
  <2>3. \A d \in Domains : Kept(u, d)
    BY <1>1, <2>1, <2>2, PlacesAre, KeptInPlace
  <2>4. QED
    BY <1>1, <1>3, <2>3, QuietFacts
<1>7. QED
  BY <1>1, <1>2, <1>3, <1>4, <1>5, <1>6, QuietKeeps DEF Shapes

LEMMA RetrackKeeps ==
    ASSUME JournalInv, NEW t \in Txs, NEW x \in MapFiles, Retrack(t, x)
    PROVE  JournalInv'
<1>1. /\ up /\ t \in pending /\ x \in plan[t] /\ pins' = [pins EXCEPT ![t] = @ \cup {x}]
      /\ UNCHANGED <<up, failed, pending, journal, plan, pc, told>>
      /\ mem' = mem /\ saved' = saved /\ sessions' = sessions /\ lost' = lost
  BY DEF Retrack
<1>2. Shapes
  BY DEF JournalInv
<1>3. /\ pins' \in [Txs -> SUBSET Places]
      /\ \A u \in Txs : pins[u] \subseteq pins'[u] /\ ("former" \in pins'[u] => "former" \in pins[u])
  BY <1>1, <1>2, PlacesAre DEF Shapes
<1>4. \A d \in Domains : /\ saved'[d].mark <= counter
                         /\ saved'[d].mark <= mem'[d].mark \/ (d = "player" /\ sessions' # "one")
  BY <1>1, MarksAre, QuietFacts
<1>5. ASSUME NEW u \in pending
      PROVE  /\ Pinned(u)' /\ \A p \in Places : u \in mem'[p].has => p \in pins'[u]
             /\ \A d \in Domains : u \notin saved'[d].has
  <2>1. Pinned(u)'
    BY <1>1, <1>3, QuietFacts DEF Pinned
  <2>2. QED
    BY <1>1, <1>3, <2>1, QuietFacts
<1>6. ASSUME NEW u \in Txs
      PROVE  \A d \in Domains : Kept(u, d)
  <2>1. Present' = Present
    BY <1>1 DEF Present, Sessions
  <2>2. \A p \in Places : mem[p].mark <= mem'[p].mark
    BY <1>1, MarksAre
  <2>3. QED
    BY <1>1, <2>1, <2>2, PlacesAre, KeptInPlace
<1>7. QED
  BY <1>1, <1>2, <1>3, <1>4, <1>5, <1>6, MarksAre, QuietFacts, QuietKeeps DEF Shapes

\* A checkpoint copies to each file a place that no pinned transaction has.
LEMMA SaveKeeps ==
    ASSUME JournalInv, up, NEW from \in [Domains -> Places \cup {"none"}],
           \A d \in Domains : from[d] # "none" =>
              /\ from[d] \in Present /\ FileOf(from[d]) = d
              /\ \A u \in pending : from[d] \notin pins[u]
              /\ from[d] = d \/ (d = "player" /\ sessions = "two"),
           saved' = [d \in Domains |-> IF from[d] = "none" THEN saved[d] ELSE mem[from[d]]],
           UNCHANGED <<up, failed, pending, journal, mem, sessions, producers, lost>>
    PROVE  JournalInv'
<1>1. /\ UNCHANGED <<up, failed, pending, journal, plan, pc, told>>
      /\ mem' = mem /\ sessions' = sessions /\ lost' = lost /\ pins' = pins
  BY DEF producers
<1>2. Shapes
  BY DEF JournalInv
<1>3. \A d \in Domains : \/ saved'[d] = saved[d]
                         \/ /\ from[d] \in Places /\ from[d] \in Present /\ FileOf(from[d]) = d
                            /\ saved'[d] = mem[from[d]]
                            /\ \A u \in pending : from[d] \notin pins[u]
                            /\ from[d] = d \/ (d = "player" /\ sessions = "two")
  BY PlacesAre
<1>4. saved' \in [Domains -> DomainState]
  BY <1>3, MarksAre
<1>5. ASSUME NEW d \in Domains
      PROVE  /\ saved'[d].mark <= counter
             /\ saved'[d].mark <= mem'[d].mark \/ (d = "player" /\ sessions' # "one")
  <2>1. d \in Places /\ mem[d].mark \in Nat
    BY PlacesAre, MarksAre
  <2>2. QED
    BY <1>1, <1>3, <2>1, MarksAre, QuietFacts
<1>6. ASSUME NEW u \in pending
      PROVE  /\ Pinned(u)' /\ \A p \in Places : u \in mem'[p].has => p \in pins'[u]
             /\ \A d \in Domains : u \notin saved'[d].has
  <2>1. Pinned(u)'
    BY <1>1, QuietFacts DEF Pinned
  <2>2. QED
    BY <1>1, <1>3, <2>1, QuietFacts
<1>7. ASSUME NEW u \in Txs
      PROVE  /\ \A d \in Domains : u \in saved'[d].has => Somewhere(u)
             /\ \A d \in Domains : Kept(u, d)
  <2>1. Present' = Present
    BY <1>1 DEF Present, Sessions
  <2>2. ASSUME NEW d \in Domains PROVE Kept(u, d)
    <3>1. saved'[d] = saved[d] \/ (up /\ \E q \in Present : FileOf(q) = d /\ saved'[d] = mem[q])
      BY <1>3
    <3>2. \A p \in Present' : FileOf(p) = d => \E q \in Present : /\ FileOf(q) = d /\ mem[q].mark <= mem'[p].mark
                                                                  /\ u \in mem[q].has => u \in mem'[p].has
      BY <1>1, <2>1, PlacesAre, MarksAre
    <3>3. QED
      BY <1>1, <3>1, <3>2 DEF Kept
  <2>3. QED
    BY <1>3, <2>2, QuietFacts
<1>8. QED
  BY <1>1, <1>2, <1>4, <1>5, <1>6, <1>7, MarksAre, QuietFacts, QuietKeeps DEF Shapes

LEMMA SavePlayerKeeps ==
    ASSUME JournalInv, NEW x \in Places, SavePlayer(x)
    PROVE  JournalInv'
<1> DEFINE from == [d \in Domains |-> IF d = "player" THEN x ELSE "none"]
<1>1. /\ up /\ x \in Sessions /\ Allowed({x}) /\ saved' = [saved EXCEPT !["player"] = mem[x]]
      /\ UNCHANGED <<up, failed, pending, journal, mem, sessions, producers, lost>>
  BY DEF SavePlayer
<1>2. x \in Present /\ FileOf(x) = "player" /\ (x = "player" \/ sessions = "two")
  BY <1>1, PlacesAre DEF Sessions
<1>3. from \in [Domains -> Places \cup {"none"}]
  OBVIOUS
<1>4. \A u \in pending : x \notin pins[u]
  BY <1>1 DEF Allowed
<1>5. x # "none"
  BY DEF Places, Domains
<1>6. saved' = [d \in Domains |-> IF from[d] = "none" THEN saved[d] ELSE mem[from[d]]]
  <2>1. saved \in [Domains -> DomainState]
    BY DEF JournalInv, Shapes
  <2>2. QED
    BY <1>1, <1>5, <2>1
<1>7. \A d \in Domains : from[d] # "none" =>
              /\ from[d] \in Present /\ FileOf(from[d]) = d
              /\ \A u \in pending : from[d] \notin pins[u]
              /\ from[d] = d \/ (d = "player" /\ sessions = "two")
  BY <1>2, <1>4
<1> HIDE DEF from
<1>8. QED
  BY <1>1, <1>3, <1>6, <1>7, SaveKeeps

LEMMA SaveMapKeeps ==
    ASSUME JournalInv, NEW doms \in SUBSET MapFiles, SaveMap(doms)
    PROVE  JournalInv'
<1> DEFINE from == [d \in Domains |-> IF d \in doms THEN d ELSE "none"]
<1>1. /\ up /\ Allowed(MapFiles) /\ saved' = [d \in Domains |-> IF d \in doms THEN mem[d] ELSE saved[d]]
      /\ UNCHANGED <<up, failed, pending, journal, mem, sessions, producers, lost>>
  BY DEF SaveMap
<1>2. from \in [Domains -> Places \cup {"none"}]
  BY PlacesAre
<1>3. \A d \in Domains : d # "none" /\ d \in Present /\ FileOf(d) = d
  BY PlacesAre
<1>4. \A d \in doms : \A u \in pending : d \notin pins[u]
  BY <1>1 DEF Allowed
<1>5. saved' = [d \in Domains |-> IF from[d] = "none" THEN saved[d] ELSE mem[from[d]]]
  BY <1>1, <1>3
<1>6. \A d \in Domains : from[d] # "none" =>
              /\ from[d] \in Present /\ FileOf(from[d]) = d
              /\ \A u \in pending : from[d] \notin pins[u]
              /\ from[d] = d \/ (d = "player" /\ sessions = "two")
  BY <1>3, <1>4
<1> HIDE DEF from
<1>7. QED
  BY <1>1, <1>2, <1>5, <1>6, SaveKeeps

LEMMA ReloginKeeps ==
    ASSUME JournalInv, Relogin
    PROVE  JournalInv'
<1>1. /\ up /\ Allowed({"player"})
      /\ mem' = [mem EXCEPT !["player"] = saved["player"]]
      /\ pins' = [t \in Txs |-> pins[t] \ {"player"}]
      /\ sessions' = IF sessions = "two" THEN "two" ELSE "one"
      /\ lost' = [lost EXCEPT !["player"] = @ \cup (CommittedOn("player") \ saved["player"].has)]
      /\ UNCHANGED <<up, failed, pending, journal, plan, pc, told>> /\ saved' = saved
  BY DEF Relogin, Loaded, Missing, Unpinned
<1>2. Shapes
  BY DEF JournalInv
<1>3. /\ mem' \in [Places -> DomainState] /\ lost' \in [Domains -> SUBSET Txs]
      /\ pins' \in [Txs -> SUBSET Places] /\ sessions' \in {"one", "two", "second"}
  BY <1>1, <1>2, QuietFacts, PlacesAre DEF Shapes
<1>4. /\ mem'["player"] = saved["player"] /\ \A p \in Places : p # "player" => mem'[p] = mem[p]
      /\ CommittedOn("player") \ saved["player"].has \subseteq lost'["player"]
      /\ \A d \in Domains : lost[d] \subseteq lost'[d]
  BY <1>1, <1>2, PlacesAre DEF Shapes
<1>5. /\ \A p \in Places : mem'[p].mark <= counter
      /\ \A d \in Domains : /\ saved'[d].mark <= counter
                            /\ saved'[d].mark <= mem'[d].mark \/ (d = "player" /\ sessions' # "one")
  BY <1>1, <1>4, MarksAre, QuietFacts, PlacesAre
<1>6. ASSUME NEW u \in pending
      PROVE  /\ Pinned(u)' /\ \A p \in Places : u \in mem'[p].has => p \in pins'[u]
             /\ \A d \in Domains : u \notin saved'[d].has
  <2>1. u \in Txs /\ "player" \notin pins[u] /\ pins'[u] = pins[u]
    BY <1>1, QuietFacts DEF Allowed
  <2>2. Pinned(u)'
    BY <1>1, <1>4, <2>1, QuietFacts DEF Pinned
  <2>3. QED
    BY <1>1, <1>4, <2>1, <2>2, QuietFacts, PlacesAre
<1>7. ASSUME NEW u \in Txs
      PROVE  /\ \A p \in Places : u \in mem'[p].has => Somewhere(u)
             /\ \A d \in Domains : u \in saved'[d].has => Somewhere(u)
             /\ \A d \in Domains : Kept(u, d)
  <2>1. Present' \subseteq Present
    BY <1>1 DEF Present, Sessions
  <2>2. ASSUME NEW d \in Domains PROVE Kept(u, d)
    <3>1. ASSUME NEW p \in Present', FileOf(p) = d
          PROVE  \/ \E q \in Present : /\ FileOf(q) = d /\ mem[q].mark <= mem'[p].mark
                                       /\ u \in mem[q].has => u \in mem'[p].has
                 \/ mem'[p] = saved[d] /\ CommittedOn(d) \ saved[d].has \subseteq lost'[d]
      <4>1. CASE p = "player"
        BY <1>4, <3>1, <4>1, PlacesAre
      <4>2. CASE p # "player"
        BY <1>4, <2>1, <3>1, <4>2, PlacesAre, MarksAre
      <4>3. QED
        BY <4>1, <4>2
    <3>2. QED
      BY <1>1, <1>4, <3>1 DEF Kept
  <2>3. QED
    BY <1>1, <1>4, <2>2, QuietFacts, PlacesAre
<1>8. QED
  BY <1>1, <1>2, <1>3, <1>5, <1>6, <1>7, QuietKeeps DEF Shapes

LEMMA TakeOverKeeps ==
    ASSUME JournalInv, TakeOver
    PROVE  JournalInv'
<1>1. /\ up /\ sessions # "two" /\ sessions' = "two"
      /\ mem' = [mem EXCEPT !["former"] = mem["player"], !["player"] = saved["player"]]
      /\ pins' = [t \in Txs |-> IF "player" \in pins[t] THEN (pins[t] \ {"player"}) \cup {"former"} ELSE pins[t]]
      /\ lost' = [lost EXCEPT !["player"] = @ \cup (CommittedOn("player") \ saved["player"].has)]
      /\ UNCHANGED <<up, failed, pending, journal, plan, pc, told>> /\ saved' = saved
  BY DEF TakeOver, Loaded, Missing
<1>2. Shapes
  BY DEF JournalInv
<1>3. "player" \in Places /\ "former" \in Places /\ "player" # "former" /\ "player" \in Domains
  BY PlacesAre
<1>4. /\ mem'["player"] = saved["player"] /\ mem'["former"] = mem["player"]
      /\ \A p \in Places : p \notin {"player", "former"} => mem'[p] = mem[p]
      /\ mem' \in [Places -> DomainState]
  BY <1>1, <1>2, <1>3 DEF Shapes
<1>5. /\ CommittedOn("player") \ saved["player"].has \subseteq lost'["player"]
      /\ \A d \in Domains : lost[d] \subseteq lost'[d]
      /\ lost' \in [Domains -> SUBSET Txs] /\ pins' \in [Txs -> SUBSET Places]
  BY <1>1, <1>2, <1>3, QuietFacts DEF Shapes
<1>6. /\ \A p \in Places : mem'[p].mark <= counter
      /\ \A d \in Domains : /\ saved'[d].mark <= counter
                            /\ saved'[d].mark <= mem'[d].mark \/ (d = "player" /\ sessions' # "one")
  BY <1>1, <1>3, <1>4, MarksAre, QuietFacts, PlacesAre
<1>7. ASSUME NEW u \in pending
      PROVE  /\ Pinned(u)' /\ \A p \in Places : u \in mem'[p].has => p \in pins'[u]
             /\ \A d \in Domains : u \notin saved'[d].has
  <2>1. u \in Txs /\ "former" \notin pins[u]
    BY <1>1, QuietFacts
  <2>2. /\ \A p \in Places : p \in pins[u] /\ p # "player" => p \in pins'[u]
        /\ "player" \in pins[u] => "former" \in pins'[u]
    BY <1>1, <2>1
  <2>3. Pinned(u)'
    BY <1>1, <1>5, <2>1, <2>2, QuietFacts, PlacesAre DEF Pinned
  <2>4. \A d \in Domains : u \notin saved[d].has
    BY QuietFacts
  <2>5. ASSUME NEW p \in Places, u \in mem'[p].has
        PROVE  p \in pins'[u]
    <3>1. CASE p = "player"
      BY <1>3, <1>4, <2>4, <2>5, <3>1
    <3>2. CASE p = "former"
      BY <1>3, <1>4, <2>2, <2>5, <3>2, QuietFacts
    <3>3. CASE p \notin {"player", "former"}
      BY <1>4, <2>2, <2>5, <3>3, QuietFacts
    <3>4. QED
      BY <3>1, <3>2, <3>3
  <2>6. QED
    BY <1>1, <2>3, <2>4, <2>5
<1>8. ASSUME NEW u \in Txs
      PROVE  /\ \A p \in Places : u \in mem'[p].has => Somewhere(u)
             /\ \A d \in Domains : u \in saved'[d].has => Somewhere(u)
             /\ \A d \in Domains : Kept(u, d)
  <2>1. ASSUME NEW d \in Domains PROVE Kept(u, d)
    <3>1. ASSUME NEW p \in Present', FileOf(p) = d
          PROVE  \/ \E q \in Present : /\ FileOf(q) = d /\ mem[q].mark <= mem'[p].mark
                                       /\ u \in mem[q].has => u \in mem'[p].has
                 \/ mem'[p] = saved[d] /\ CommittedOn(d) \ saved[d].has \subseteq lost'[d]
      <4>1. CASE p = "player"
        BY <1>4, <1>5, <3>1, <4>1, PlacesAre
      <4>2. CASE p = "former"
        <5>1. d = "player" /\ "player" \in Present /\ FileOf("player") = d
          BY <3>1, <4>2, PlacesAre
        <5>2. mem'[p] = mem["player"] /\ mem["player"].mark <= mem'[p].mark
          BY <1>3, <1>4, <4>2, MarksAre
        <5>3. QED
          BY <5>1, <5>2
      <4>3. CASE p \notin {"player", "former"}
        <5>1. p \in MapFiles
          BY <1>1, <4>3 DEF Present, Sessions
        <5>2. p \in Present /\ p \in Places /\ mem'[p] = mem[p] /\ mem[p].mark <= mem'[p].mark
          BY <1>4, <4>3, <5>1, PlacesAre, MarksAre
        <5>3. QED
          BY <3>1, <5>2
      <4>4. QED
        BY <4>1, <4>2, <4>3
    <3>2. QED
      BY <1>1, <1>5, <3>1 DEF Kept
  <2>2. \A p \in Places : u \in mem'[p].has => Somewhere(u)
    BY <1>3, <1>4, QuietFacts
  <2>3. QED
    BY <1>1, <2>1, <2>2, QuietFacts
<1>9. saved' \in [Domains -> DomainState]
  BY <1>1, <1>2 DEF Shapes
<1>10. QED
  BY <1>1, <1>4, <1>5, <1>6, <1>7, <1>8, <1>9, QuietKeeps

LEMMA LeaveKeeps ==
    ASSUME JournalInv, Leave
    PROVE  JournalInv'
<1>1. /\ up /\ sessions = "two" /\ Allowed({"former"}) /\ sessions' = "second"
      /\ saved' \in {saved, [saved EXCEPT !["player"] = mem["former"]]}
      /\ mem' = [mem EXCEPT !["former"] = Empty]
      /\ pins' = [t \in Txs |-> pins[t] \ {"former"}]
      /\ UNCHANGED <<up, failed, pending, journal, plan, pc, told>> /\ lost' = lost
  BY DEF Leave, Unpinned
<1>2. Shapes
  BY DEF JournalInv
<1>3. "player" \in Places /\ "former" \in Places /\ "player" # "former" /\ "player" \in Domains
  BY PlacesAre
<1>4. /\ mem'["former"] = Empty /\ \A p \in Places : p # "former" => mem'[p] = mem[p]
      /\ mem' \in [Places -> DomainState] /\ pins' \in [Txs -> SUBSET Places]
  BY <1>1, <1>2, <1>3, MarksAre DEF Shapes
<1>5. /\ saved' \in [Domains -> DomainState]
      /\ \A d \in Domains : saved'[d] = saved[d] \/ (d = "player" /\ saved'[d] = mem["former"])
  BY <1>1, <1>2, <1>3, MarksAre DEF Shapes
<1>6. /\ \A p \in Places : mem'[p].mark <= counter
      /\ \A d \in Domains : /\ saved'[d].mark <= counter
                            /\ saved'[d].mark <= mem'[d].mark \/ (d = "player" /\ sessions' # "one")
  BY <1>1, <1>3, <1>4, <1>5, MarksAre, QuietFacts, PlacesAre
<1>7. ASSUME NEW u \in pending
      PROVE  /\ Pinned(u)' /\ \A p \in Places : u \in mem'[p].has => p \in pins'[u]
             /\ \A d \in Domains : u \notin saved'[d].has
  <2>1. u \in Txs /\ "former" \notin pins[u] /\ pins'[u] = pins[u]
    BY <1>1, QuietFacts DEF Allowed
  <2>2. Pinned(u)'
    BY <1>1, <2>1, QuietFacts DEF Pinned
  <2>3. u \notin mem["former"].has
    BY <1>3, <2>1, QuietFacts
  <2>4. \A d \in Domains : u \notin saved'[d].has
    BY <1>5, <2>3, QuietFacts
  <2>5. \A p \in Places : u \in mem'[p].has => p \in pins'[u]
    BY <1>4, <2>1, QuietFacts, MarksAre
  <2>6. QED
    BY <2>2, <2>4, <2>5
<1>8. ASSUME NEW u \in Txs
      PROVE  /\ \A p \in Places : u \in mem'[p].has => Somewhere(u)
             /\ \A d \in Domains : u \in saved'[d].has => Somewhere(u)
             /\ \A d \in Domains : Kept(u, d)
  <2>1. \A p \in Present' : p \in Present /\ p # "former"
    BY <1>1 DEF Present, Sessions, MapFiles
  <2>2. ASSUME NEW d \in Domains PROVE Kept(u, d)
    <3>1. saved'[d] = saved[d] \/ \E q \in Present : FileOf(q) = d /\ saved'[d] = mem[q]
      BY <1>1, <1>5, PlacesAre
    <3>2. ASSUME NEW p \in Present', FileOf(p) = d
          PROVE  \E q \in Present : /\ FileOf(q) = d /\ mem[q].mark <= mem'[p].mark
                                    /\ u \in mem[q].has => u \in mem'[p].has
      <4>1. p \in Present /\ p \in Places /\ mem'[p] = mem[p]
        BY <1>4, <2>1, PlacesAre
      <4>2. mem[p].mark <= mem'[p].mark
        BY <4>1, MarksAre
      <4>3. QED
        BY <3>2, <4>1, <4>2
    <3>3. QED
      BY <1>1, <3>1, <3>2 DEF Kept
  <2>3. QED
    BY <1>3, <1>4, <1>5, <2>2, QuietFacts, MarksAre
<1>9. QED
  BY <1>1, <1>4, <1>5, <1>6, <1>7, <1>8, <1>2, QuietKeeps DEF Shapes

LEMMA CleanedIs ==
    ASSUME JournalInv
    PROVE  /\ Cleaned \in [Domains -> DomainState] /\ Cleaned["map-runtime"] = Empty
           /\ \A d \in Domains : d # "map-runtime" => Cleaned[d] = saved[d]
<1>1. saved \in [Domains -> DomainState] /\ "map-runtime" \in Domains
  BY PlacesAre DEF JournalInv, Shapes
<1>2. QED
  BY <1>1, MarksAre DEF Cleaned

LEMMA SwapInKeeps ==
    ASSUME JournalInv, SwapIn
    PROVE  JournalInv'
<1>1. /\ up /\ saved' = Cleaned
      /\ UNCHANGED <<up, failed, pending, journal, plan, pc, told>>
      /\ mem' = mem /\ sessions' = sessions /\ lost' = lost /\ pins' = pins
  BY DEF SwapIn, producers
<1>2. Shapes
  BY DEF JournalInv
<1>3. /\ saved' \in [Domains -> DomainState]
      /\ \A d \in Domains : saved'[d] = saved[d] \/ saved'[d] = Empty
  BY <1>1, CleanedIs
<1>4. ASSUME NEW d \in Domains
      PROVE  /\ saved'[d].mark <= counter
             /\ saved'[d].mark <= mem'[d].mark \/ (d = "player" /\ sessions' # "one")
  <2>1. d \in Places /\ mem[d].mark \in Nat
    BY PlacesAre, MarksAre
  <2>2. QED
    BY <1>1, <1>3, <2>1, MarksAre, QuietFacts
<1>5. \A d \in Domains : \A u : u \in saved'[d].has => u \in saved[d].has
  BY <1>3, MarksAre
<1>6. ASSUME NEW u \in pending
      PROVE  /\ Pinned(u)' /\ \A p \in Places : u \in mem'[p].has => p \in pins'[u]
             /\ \A d \in Domains : u \notin saved'[d].has
  <2>1. Pinned(u)'
    BY <1>1, QuietFacts DEF Pinned
  <2>2. QED
    BY <1>1, <1>5, <2>1, QuietFacts
<1>7. ASSUME NEW u \in Txs
      PROVE  /\ \A d \in Domains : u \in saved'[d].has => Somewhere(u)
             /\ \A d \in Domains : Kept(u, d)
  <2>1. Present' = Present
    BY <1>1 DEF Present, Sessions
  <2>2. ASSUME NEW d \in Domains PROVE Kept(u, d)
    <3>1. \A p \in Present' : FileOf(p) = d => \E q \in Present : /\ FileOf(q) = d /\ mem[q].mark <= mem'[p].mark
                                                                  /\ u \in mem[q].has => u \in mem'[p].has
      BY <1>1, <2>1, PlacesAre, MarksAre
    <3>2. QED
      BY <1>1, <1>3, <3>1 DEF Kept
  <2>3. QED
    BY <1>5, <2>2, QuietFacts
<1>8. QED
  BY <1>1, <1>2, <1>3, <1>4, <1>6, <1>7, MarksAre, QuietFacts, QuietKeeps DEF Shapes

LEMMA ResetKeeps ==
    ASSUME JournalInv, Reset
    PROVE  JournalInv'
<1>1. /\ up /\ saved' = Cleaned
      /\ mem' = [mem EXCEPT !["map-runtime"] = Empty, !["map-unique"] = saved["map-unique"]]
      /\ pins' = [t \in Txs |-> pins[t] \ MapFiles]
      /\ lost' = [d \in Domains |-> lost[d] \cup
                   IF d \in MapFiles THEN (CommittedOn(d) \cup {t \in Txs : d \in pins[t]}) \ saved'[d].has ELSE {}]
      /\ UNCHANGED <<up, failed, pending, journal, sessions, plan, pc, told>>
  BY DEF Reset, Loaded, Unpinned
<1>2. Shapes
  BY DEF JournalInv
<1>3. /\ "map-runtime" \in Places /\ "map-unique" \in Places /\ "map-runtime" # "map-unique"
      /\ "map-runtime" \in Domains /\ "map-unique" \in Domains
  BY PlacesAre
<1>4. /\ mem'["map-runtime"] = Empty /\ mem'["map-unique"] = saved["map-unique"]
      /\ \A p \in Places : p \notin MapFiles => mem'[p] = mem[p]
      /\ mem' \in [Places -> DomainState]
  BY <1>1, <1>2, <1>3, MarksAre, PlacesAre DEF Shapes
<1>5. /\ saved' \in [Domains -> DomainState] /\ saved'["map-runtime"] = Empty
      /\ \A d \in Domains : d # "map-runtime" => saved'[d] = saved[d]
  BY <1>1, CleanedIs
<1>6. /\ \A d \in Domains : lost[d] \subseteq lost'[d]
      /\ \A d \in MapFiles : CommittedOn(d) \ saved'[d].has \subseteq lost'[d]
      /\ \A d \in MapFiles, t \in Txs : d \in pins[t] /\ t \notin saved'[d].has => t \in lost'[d]
      /\ lost' \in [Domains -> SUBSET Txs]
  <2>1. \A d \in Domains : lost'[d] = lost[d] \cup
                   IF d \in MapFiles THEN (CommittedOn(d) \cup {t \in Txs : d \in pins[t]}) \ saved'[d].has ELSE {}
    BY <1>1
  <2>2. \A d \in MapFiles : lost'[d] = lost[d] \cup ((CommittedOn(d) \cup {t \in Txs : d \in pins[t]}) \ saved'[d].has)
    BY <2>1, PlacesAre
  <2>3. ASSUME NEW d \in Domains PROVE lost[d] \subseteq lost'[d] /\ lost'[d] \in SUBSET Txs
    <3>1. CASE d \in MapFiles
      BY <1>2, <2>2, <3>1, QuietFacts DEF Shapes
    <3>2. CASE d \notin MapFiles
      BY <1>2, <2>1, <3>2 DEF Shapes
    <3>3. QED
      BY <3>1, <3>2
  <2>4. lost' \in [Domains -> SUBSET Txs]
    BY <1>1, <2>3
  <2>5. QED
    BY <2>2, <2>3, <2>4
<1>7. pins' \in [Txs -> SUBSET Places]
  BY <1>1, <1>2 DEF Shapes
<1>8. \A p \in Places : mem'[p].mark <= counter
  BY <1>3, <1>4, MarksAre, PlacesAre
<1>9. ASSUME NEW d \in Domains
      PROVE  /\ saved'[d].mark <= counter
             /\ saved'[d].mark <= mem'[d].mark \/ (d = "player" /\ sessions' # "one")
  <2>1. CASE d = "map-runtime"
    BY <1>4, <1>5, <2>1, MarksAre
  <2>2. CASE d = "map-unique"
    BY <1>4, <1>5, <2>2, MarksAre
  <2>3. CASE d = "player"
    <3>1. saved'[d] = saved[d] /\ mem'[d] = mem[d]
      BY <1>4, <1>5, <2>3, PlacesAre
    <3>2. QED
      BY <1>1, <3>1, MarksAre, QuietFacts
  <2>4. QED
    BY <2>1, <2>2, <2>3, PlacesAre
<1>10. ASSUME NEW u \in pending
       PROVE  /\ Pinned(u)' /\ \A p \in Places : u \in mem'[p].has => p \in pins'[u]
              /\ \A d \in Domains : u \notin saved'[d].has
  <2>1. u \in Txs /\ pins'[u] = pins[u] \ MapFiles
    BY <1>1, QuietFacts
  <2>2. \A d \in Domains : u \notin saved[d].has /\ u \notin saved'[d].has
    BY <1>5, QuietFacts, MarksAre
  <2>3. Pinned(u)'
    <3>1. "former" \in pins'[u] => sessions' = "two"
      BY <1>1, <2>1, QuietFacts
    <3>2. \A d \in plan'[u] : d \in pins'[u] \/ u \in lost'[d] \/ (d = "player" /\ "former" \in pins'[u])
      <4> SUFFICES ASSUME NEW d \in plan[u]
                   PROVE  d \in pins'[u] \/ u \in lost'[d] \/ (d = "player" /\ "former" \in pins'[u])
        BY <1>1
      <4>1. d \in Domains
        BY QuietFacts
      <4>2. CASE d \in pins[u]
        BY <1>6, <2>1, <2>2, <4>1, <4>2
      <4>3. CASE u \in lost[d]
        BY <1>6, <4>1, <4>3
      <4>4. CASE d = "player" /\ "former" \in pins[u]
        BY <2>1, <4>4, PlacesAre
      <4>5. QED
        BY <4>2, <4>3, <4>4, QuietFacts
    <3>3. QED
      BY <3>1, <3>2 DEF Pinned
  <2>4. ASSUME NEW p \in Places, u \in mem'[p].has
        PROVE  p \in pins'[u]
    <3>1. p \notin MapFiles
      BY <1>3, <1>4, <2>2, <2>4, MarksAre, PlacesAre
    <3>2. QED
      BY <1>4, <2>1, <2>4, <3>1, QuietFacts
  <2>5. QED
    BY <2>2, <2>3, <2>4
<1>11. ASSUME NEW u \in Txs
       PROVE  /\ \A p \in Places : u \in mem'[p].has => Somewhere(u)
              /\ \A d \in Domains : u \in saved'[d].has => Somewhere(u)
              /\ \A d \in Domains : Kept(u, d)
  <2>1. Present' = Present
    BY <1>1 DEF Present, Sessions
  <2>2. Kept(u, "map-runtime")
    <3>1. CommittedOn("map-runtime") \subseteq lost'["map-runtime"]
      BY <1>5, <1>6, MarksAre, PlacesAre
    <3>2. QED
      BY <3>1 DEF Kept
  <2>3. Kept(u, "map-unique")
    <3>1. saved'["map-unique"] = saved["map-unique"] /\ lost["map-unique"] \subseteq lost'["map-unique"]
      BY <1>3, <1>5, <1>6
    <3>2. \A p \in Present : FileOf(p) = "map-unique" => p = "map-unique"
      BY PlacesAre
    <3>3. mem'["map-unique"] = saved["map-unique"] /\ CommittedOn("map-unique") \ saved["map-unique"].has \subseteq lost'["map-unique"]
      BY <1>4, <1>6, <3>1, PlacesAre
    <3>4. QED
      BY <1>1, <2>1, <3>1, <3>2, <3>3 DEF Kept
  <2>4. Kept(u, "player")
    <3>1. saved'["player"] = saved["player"] /\ lost["player"] \subseteq lost'["player"]
      BY <1>5, <1>6, PlacesAre
    <3>2. \A p \in Present' : FileOf(p) = "player" =>
              p \in Present /\ mem[p].mark <= mem'[p].mark /\ (u \in mem[p].has => u \in mem'[p].has)
      <4> SUFFICES ASSUME NEW p \in Present, FileOf(p) = "player"
                   PROVE  mem[p].mark <= mem'[p].mark /\ (u \in mem[p].has => u \in mem'[p].has)
        BY <2>1
      <4>1. p \in Places /\ p \notin MapFiles
        BY PlacesAre
      <4>2. mem'[p] = mem[p] /\ mem[p].mark \in Nat
        BY <1>4, <4>1, MarksAre
      <4>3. QED
        BY <4>2
    <3>3. QED
      BY <1>1, <3>1, <3>2, PlacesAre, KeptInPlace
  <2>5. \A d \in Domains : Kept(u, d)
    BY <2>2, <2>3, <2>4, PlacesAre
  <2>6. \A d \in Domains : u \in saved'[d].has => Somewhere(u)
    BY <1>5, MarksAre, QuietFacts
  <2>7. \A p \in Places : u \in mem'[p].has => Somewhere(u)
    BY <1>3, <1>4, MarksAre, PlacesAre, QuietFacts
  <2>8. QED
    BY <2>5, <2>6, <2>7
<1>12. sessions' \in {"one", "two", "second"}
  BY <1>1, <1>2 DEF Shapes
<1>13. QED
  BY <1>1, <1>4, <1>5, <1>6, <1>7, <1>8, <1>9, <1>10, <1>11, <1>12, QuietKeeps

LEMMA EndKeeps ==
    ASSUME JournalInv, End
    PROVE  JournalInv'
<1>1. /\ up' = FALSE /\ failed' = FALSE /\ pending' = {} /\ UNCHANGED journal
      /\ pc' = [t \in Txs |-> IF pc[t] = "open" THEN "over" ELSE pc[t]]
      /\ plan' = [t \in Txs |-> {}] /\ pins' = plan'
      /\ mem' = [p \in Places |-> Empty] /\ sessions' = "one"
      /\ saved' \in {saved, Cleaned} /\ told' = told /\ lost' = lost
  BY DEF End
<1>2. Shapes /\ WellFormed(files) /\ Numbers
  BY DEF JournalInv
<1>3. /\ saved' \in [Domains -> DomainState]
      /\ \A d \in Domains : saved'[d] = saved[d] \/ saved'[d] = Empty
  BY <1>1, <1>2, CleanedIs DEF Shapes
<1>4. mem' \in [Places -> DomainState] /\ \A p \in Places : mem'[p] = Empty
  BY <1>1, MarksAre
<1>5. WellFormed(files') /\ Numbers' /\ Growing' /\ Records' = Records /\ files' = files
  <2>1. /\ \A p \in Places : mem'[p].mark <= counter
        /\ \A d \in Domains : saved'[d].mark <= counter
    BY <1>3, <1>4, MarksAre
  <2>2. QED
    BY <1>1, <2>1, Unwritten
<1>6. Shapes'
  <2>1. seq' = seq /\ run' = run /\ last' = last /\ counter' = counter
    BY <1>1 DEF journal
  <2>2. pc' \in [Txs -> {"new", "open", "over"}]
    BY <1>1, <1>2 DEF Shapes
  <2>3. QED
    BY <1>1, <1>2, <1>3, <1>4, <2>1, <2>2 DEF Shapes
<1>7. ASSUME NEW u \in Txs
      PROVE  Open(u)' /\ Pinned(u)' /\ Held(u)' /\ Classified(u)'
  <2>1. Open(u) /\ Held(u) /\ Classified(u)
    BY InvParts
  <2>2. pc'[u] = (IF pc[u] = "open" THEN "over" ELSE pc[u]) /\ u \notin pending'
    BY <1>1
  <2>3. Pinned(u)'
    BY <2>2 DEF Pinned
  <2>4. Open(u)'
    <3>1. pc'[u] = "new" => pc[u] = "new"
      BY <2>2
    <3>2. pc'[u] # "open" /\ (pc[u] = "over" => pc'[u] = "over")
      BY <2>2
    <3>3. QED
      BY <1>1, <1>5, <2>1, <2>2, <3>1, <3>2 DEF Open
  <2>5. Held(u)'
    <3>1. /\ \A p \in Places : u \in mem'[p].has => Somewhere(u)
          /\ \A d \in Domains : u \in saved'[d].has => Somewhere(u)
      BY <1>3, <1>4, MarksAre, QuietFacts
    <3>2. QED
      BY <1>5, <2>1, <2>2, <3>1, KeepsHeld
  <2>6. Classified(u)'
    <3>1. \A d \in Domains : Kept(u, d)
      BY <1>1, <1>3 DEF Kept
    <3>2. QED
      BY <1>1, <1>2, <1>4, <1>5, <2>1, <3>1, KeepsClassified
  <2>7. QED
    BY <2>3, <2>4, <2>5, <2>6
<1>8. QED
  BY <1>5, <1>6, <1>7 DEF JournalInv

\* The newest record is never ahead of the counter, so that without a number
\* there is no record either.
LEMMA CountedIsCounter ==
    ASSUME JournalInv
    PROVE  Counted = counter /\ counter \in Nat
<1>1. WellFormed(files) /\ Numbers /\ counter \in Nat
  BY LimitsAssumption DEF JournalInv, Shapes
<1>2. \A r \in Records : r.seq \in Nat /\ r.seq >= 1 /\ r.seq <= counter
  BY <1>1, RecordsAre, RecordFields DEF WellFormed, Records, Numbers
<1>3. CASE counter = 0
  <2>1. Records = {}
    BY <1>2, <1>3
  <2>2. {r.seq : r \in Records} \cup {0} = {0}
    BY <2>1
  <2>3. Max({0}) = 0
    <3>1. \E x \in {0} : \A y \in {0} : x >= y
      OBVIOUS
    <3>2. QED
      BY <3>1 DEF Max
  <2>4. QED
    BY <1>1, <1>3, <2>2, <2>3 DEF Counted
<1>4. CASE counter # 0
  BY <1>1, <1>4 DEF Counted
<1>5. QED
  BY <1>3, <1>4

\* The files at the start of a run.
LEMMA StartFiles ==
    ASSUME JournalInv, NEW how \in Outcomes, Start(how)
    PROVE  /\ WellFormed(files') /\ files' # <<>>
           /\ \A r \in Records' : r \in Records \/ (how \notin {"none", "reserve"} /\ r.of = {} /\ r.run = counter + 1 /\ r.seq = counter + 1)
           /\ how = "ok" => \E q \in Records' : q.seq = counter + 1
           /\ how = "ok" => \A r \in Records' : r.run = counter + 1 => r.phase # "torn"
<1> DEFINE fs == Opened(files)
           rec == [seq |-> counter + 1, run |-> counter + 1, phase |-> IF how = "torn" THEN "torn" ELSE "boundary",
                   of |-> {}, doms |-> {}, prev |-> 0]
<1>1. Counted = counter /\ counter \in Nat
  BY CountedIsCounter
<1>2. counter < MaxSeq /\ files' = IF how \in {"none", "reserve"} THEN fs ELSE AppendTo(fs, rec)
  BY <1>1 DEF Start
<1>3. /\ rec.seq = counter + 1 /\ rec.run = counter + 1 /\ rec.of = {}
      /\ (how = "ok" => rec.phase = "boundary")
  OBVIOUS
<1>4. rec \in Record
  <2>1. counter + 1 \in 1..MaxSeq /\ 0 \in 0..MaxSeq
    BY <1>1, <1>2, LimitsAssumption
  <2>2. QED
    BY <2>1 DEF Record
<1> HIDE DEF rec
<1>5. WellFormed(files) /\ files \in Seq(Seq(Record)) /\ InOrder(files) /\ Numbers
  BY DEF JournalInv, WellFormed
<1>6. WellFormed(fs) /\ fs # <<>> /\ Len(fs[Len(fs)]) = 0
  BY <1>5, OpenedWellFormed
<1>7. RecordsOf(fs) \subseteq Records
  BY <1>5, OpenedKeeps DEF Records
<1> HIDE DEF fs
<1>8. \A r \in Records : r.seq \in Nat /\ r.run \in Nat /\ r.seq <= counter /\ r.run <= counter
  BY <1>1, <1>5, RecordsAre, RecordFields DEF Records, Numbers
<1>9. CASE how \in {"none", "reserve"}
  <2>1. files' = fs /\ Records' = RecordsOf(fs)
    BY <1>2, <1>9 DEF Records, RecordsOf
  <2>2. QED
    BY <1>6, <1>7, <1>9, <2>1
<1>10. CASE how \notin {"none", "reserve"}
  <2>1. files' = AppendTo(fs, rec)
    BY <1>2, <1>10
  <2>2. Len(fs[Len(fs)]) < HardLimit
    BY <1>6, LimitsAssumption
  <2>3. \A r \in RecordsOf(fs) : r.seq < rec.seq /\ r.run # rec.run
    BY <1>1, <1>3, <1>7, <1>8
  <2>4. WellFormed(AppendTo(fs, rec))
    BY <1>3, <1>4, <1>6, <2>2, <2>3, AppendWellFormed
  <2>5. RecordsOf(AppendTo(fs, rec)) = RecordsOf(fs) \cup {rec} /\ AppendTo(fs, rec) # <<>>
    BY <1>4, <1>6, AppendedIs DEF WellFormed
  <2>6. Records' = RecordsOf(fs) \cup {rec}
    BY <2>1, <2>5 DEF Records, RecordsOf
  <2>7. how = "ok" => \A r \in Records' : r.run = counter + 1 => r.phase # "torn"
    BY <1>3, <2>3, <2>6
  <2>8. QED
    BY <1>3, <1>7, <1>10, <2>1, <2>4, <2>5, <2>6, <2>7
<1>11. QED
  BY <1>9, <1>10

LEMMA StartKeeps ==
    ASSUME JournalInv, NEW how \in Outcomes, Start(how)
    PROVE  JournalInv'
<1>1. Counted = counter /\ counter \in Nat
  BY CountedIsCounter
<1>2. /\ ~up /\ counter < MaxSeq
      /\ seq' = counter + 1 /\ run' = counter + 1 /\ last' = counter + 1
      /\ counter' \in IF how = "reserve" THEN {counter, counter + 1} ELSE {counter + 1}
      /\ up' = (how = "ok") /\ failed' = FALSE
      /\ how = "ok" => /\ mem' = [p \in Places |-> IF p = "former" THEN Empty ELSE saved[p]]
                       /\ lost' = [d \in Domains |-> lost[d] \cup (CommittedOn(d) \ saved[d].has)]
      /\ how # "ok" => mem' = mem /\ lost' = lost
      /\ pending' = pending /\ saved' = saved /\ sessions' = sessions
      /\ plan' = plan /\ pins' = pins /\ pc' = pc /\ told' = told
  BY <1>1 DEF Start, Loaded, Missing, producers
<1>3. /\ WellFormed(files') /\ files' # <<>>
      /\ \A r \in Records' : r \in Records \/ (how \notin {"none", "reserve"} /\ r.of = {} /\ r.run = counter + 1 /\ r.seq = counter + 1)
      /\ how = "ok" => \E q \in Records' : q.seq = counter + 1
      /\ how = "ok" => \A r \in Records' : r.run = counter + 1 => r.phase # "torn"
  BY StartFiles
<1>4. Shapes /\ WellFormed(files) /\ Numbers /\ sessions = "one"
  BY <1>2 DEF JournalInv, Numbers
<1>5. /\ counter' \in Nat /\ counter <= counter' /\ counter' <= MaxSeq
      /\ (how # "reserve" => counter' = counter + 1)
  BY <1>1, <1>2, LimitsAssumption
<1>6. \A r \in Records : r.seq \in Nat /\ r.run <= r.seq /\ r.seq <= counter
  BY <1>4, RecordsAre, RecordFields DEF WellFormed, Records, Numbers
<1>7. /\ mem' \in [Places -> DomainState]
      /\ how = "ok" => mem'["former"] = Empty /\ \A d \in Domains : mem'[d] = saved[d]
      /\ how # "ok" => \A p \in Places : mem'[p] = mem[p]
  <2>1. CASE how = "ok"
    <3>1. mem' = [p \in Places |-> IF p = "former" THEN Empty ELSE saved[p]]
      BY <1>2, <2>1
    <3>2. \A p \in Places : p = "former" \/ p \in Domains
      BY PlacesAre
    <3>3. mem' \in [Places -> DomainState]
      BY <3>1, <3>2, MarksAre
    <3>4. mem'["former"] = Empty /\ \A d \in Domains : mem'[d] = saved[d]
      BY <3>1, PlacesAre
    <3>5. QED
      BY <2>1, <3>3, <3>4
  <2>2. CASE how # "ok"
    BY <1>2, <1>4, <2>2 DEF Shapes
  <2>3. QED
    BY <2>1, <2>2
<1>8. /\ lost' \in [Domains -> SUBSET Txs] /\ \A d \in Domains : lost[d] \subseteq lost'[d]
      /\ how = "ok" => \A d \in Domains : CommittedOn(d) \ saved[d].has \subseteq lost'[d]
  BY <1>2, <1>4, QuietFacts DEF Shapes
<1>9. Numbers'
  <2>1. \A r \in Records' : r.run <= r.seq /\ r.seq <= counter'
    <3> SUFFICES ASSUME NEW r \in Records' PROVE r.run <= r.seq /\ r.seq <= counter'
      OBVIOUS
    <3>1. CASE r \in Records
      BY <1>1, <1>5, <1>6, <3>1
    <3>2. CASE how \notin {"none", "reserve"} /\ r.of = {} /\ r.run = counter + 1 /\ r.seq = counter + 1
      BY <1>1, <1>5, <3>2
    <3>3. QED
      BY <1>3, <3>1, <3>2
  <2>2. ASSUME NEW p \in Places PROVE mem'[p].mark <= counter'
    <3>1. CASE how = "ok"
      <4>1. mem'[p] = Empty \/ (p \in Domains /\ mem'[p] = saved[p])
        BY <1>7, <3>1, PlacesAre
      <4>2. QED
        BY <1>1, <1>5, <4>1, MarksAre
    <3>2. CASE how # "ok"
      BY <1>1, <1>5, <1>7, <3>2, MarksAre
    <3>3. QED
      BY <3>1, <3>2
  <2>3. ASSUME NEW d \in Domains
        PROVE  /\ saved'[d].mark <= counter'
               /\ up' => saved'[d].mark <= mem'[d].mark
    <3>1. saved'[d] = saved[d] /\ saved[d].mark \in Nat /\ saved[d].mark <= counter
      BY <1>2, MarksAre
    <3>2. up' => mem'[d] = saved[d]
      BY <1>2, <1>7
    <3>3. QED
      BY <1>1, <1>5, <3>1, <3>2
  <2>4. up' => run' >= 1 /\ run' <= seq' /\ files' # <<>>
    BY <1>1, <1>2, <1>3
  <2>5. up' /\ ~failed' => seq' = counter' /\ last' = seq'
    BY <1>2, <1>5
  <2>6. QED
    BY <1>2, <1>4, <2>1, <2>2, <2>3, <2>4, <2>5 DEF Numbers
<1>10. Growing'
  BY <1>2, <1>3 DEF Growing
<1>11. Shapes'
  <2>1. /\ seq' \in 0..MaxSeq /\ run' \in 0..MaxSeq /\ last' \in 0..MaxSeq /\ counter' \in 0..MaxSeq
    BY <1>1, <1>2, <1>5, LimitsAssumption
  <2>2. up' \in BOOLEAN /\ failed' \in BOOLEAN
    BY <1>2
  <2>3. QED
    BY <1>2, <1>4, <1>7, <1>8, <2>1, <2>2 DEF Shapes
<1>12. ASSUME NEW u \in Txs
       PROVE  Open(u)' /\ Pinned(u)' /\ Held(u)' /\ Classified(u)'
  <2>1. Open(u) /\ Held(u) /\ Classified(u)
    BY InvParts
  <2>2. \A r \in Records' : r \in Records \/ u \notin r.of
    BY <1>3
  <2>3. pc[u] # "open" /\ u \notin pending
    BY <1>2, <2>1 DEF Open
  <2>4. Open(u)'
    BY <1>2, <2>1, <2>2, <2>3, KeepsOpen
  <2>5. Pinned(u)'
    BY <1>2, <2>3 DEF Pinned
  <2>6. Held(u)'
    <3>1. \A p \in Places : u \in mem'[p].has => Somewhere(u)
      <4>1. CASE how = "ok"
        BY <1>7, <4>1, MarksAre, PlacesAre, QuietFacts
      <4>2. CASE how # "ok"
        BY <1>7, <4>2, QuietFacts
      <4>3. QED
        BY <4>1, <4>2
    <3>2. \A d \in Domains : u \in saved'[d].has => Somewhere(u)
      BY <1>2, QuietFacts
    <3>3. QED
      BY <1>2, <2>1, <2>2, <2>3, <3>1, <3>2, KeepsHeld
  <2>7. Classified(u)'
    <3>1. ASSUME NEW d \in Domains PROVE Kept(u, d)
      <4>1. ASSUME up', NEW p \in Present', FileOf(p) = d
            PROVE  mem'[p] = saved[d] /\ CommittedOn(d) \ saved[d].has \subseteq lost'[d]
        <5>1. p \in Domains /\ p = d
          BY <1>2, <1>4, <4>1, PlacesAre DEF Present, Sessions
        <5>2. QED
          BY <1>2, <1>7, <1>8, <4>1, <5>1
      <4>2. QED
        BY <1>2, <1>8, <4>1 DEF Kept
    <3>2. sessions' \in {"one", "two", "second"}
      BY <1>2, <1>4
    <3>3. QED
      BY <1>2, <1>4, <1>7, <2>1, <2>2, <3>1, <3>2, KeepsClassified
  <2>8. QED
    BY <2>4, <2>5, <2>6, <2>7
<1>13. QED
  BY <1>3, <1>9, <1>10, <1>11, <1>12 DEF JournalInv

LEMMA StutterKeeps ==
    ASSUME JournalInv, UNCHANGED vars
    PROVE  JournalInv'
<1>1. /\ up' = up /\ failed' = failed /\ pending' = pending /\ seq' = seq /\ run' = run /\ last' = last
      /\ counter' = counter /\ files' = files /\ mem' = mem /\ saved' = saved /\ sessions' = sessions
      /\ plan' = plan /\ pins' = pins /\ pc' = pc /\ told' = told /\ lost' = lost
  BY DEF vars, producers, journal
<1>2. Records' = Records
  BY <1>1 DEF Records, RecordsOf
<1>3. Present' = Present
  BY <1>1 DEF Present, Sessions
<1>4. Shapes' /\ WellFormed(files') /\ Numbers' /\ Growing'
  BY <1>1, <1>2 DEF JournalInv, Shapes, Numbers, Growing
<1>5. ASSUME NEW u \in Txs
      PROVE  Open(u)' /\ Pinned(u)' /\ Held(u)' /\ Classified(u)'
  <2>1. Open(u) /\ Pinned(u) /\ Held(u) /\ Classified(u)
    BY InvParts
  <2>2. Open(u)'
    BY <1>1, <1>2, <2>1 DEF Open
  <2>3. Pinned(u)' /\ Held(u)'
    BY <1>1, <1>2, <2>1 DEF Pinned, Held
  <2>4. Classified(u)'
    BY <1>1, <1>2, <1>3, <2>1 DEF Classified
  <2>5. QED
    BY <2>2, <2>3, <2>4
<1>6. QED
  BY <1>4, <1>5 DEF JournalInv

LEMMA NextKeeps ==
    ASSUME JournalInv, [Next]_vars
    PROVE  JournalInv'
<1>1. ASSUME NEW how \in Outcomes, Start(how) \/ ProfileBoundary(how) PROVE JournalInv'
  BY <1>1, StartKeeps, ProfileBoundaryKeeps
<1>2. ASSUME NEW how \in Outcomes, NEW t \in Txs, NEW p \in Places, Begin(t, p, how) PROVE JournalInv'
  BY <1>2, BeginKeeps
<1>3. ASSUME NEW how \in Outcomes, NEW t \in Txs, Commit(t, how) PROVE JournalInv'
  BY <1>3, CommitKeeps, FailedCommitKeeps
<1>4. ASSUME NEW how \in Outcomes, NEW t \in Txs, Abort(t, how) PROVE JournalInv'
  BY <1>4, AbortKeeps, FailedCommitKeeps
<1>5. ASSUME NEW how \in Outcomes, NEW t \in Txs, NEW d \in MapFiles, Track(t, d, how) PROVE JournalInv'
  BY <1>5, TrackKeeps
<1>6. ASSUME NEW t \in Txs, Attempt(t) PROVE JournalInv'
  BY <1>6, AttemptKeeps
<1>7. ASSUME NEW t \in Txs, NEW d \in MapFiles, Retrack(t, d) PROVE JournalInv'
  BY <1>7, RetrackKeeps
<1>8. ASSUME NEW t \in Txs, NEW p \in Places, Mutate(t, p) PROVE JournalInv'
  BY <1>8, MutateKeeps
<1>9. CASE (\E p \in Places : SavePlayer(p)) \/ (\E doms \in SUBSET MapFiles : SaveMap(doms))
  BY <1>9, SavePlayerKeeps, SaveMapKeeps
<1>10. CASE Relogin \/ TakeOver \/ Leave
  BY <1>10, ReloginKeeps, TakeOverKeeps, LeaveKeeps
<1>11. CASE SwapIn \/ Reset
  BY <1>11, SwapInKeeps, ResetKeeps
<1>12. CASE End
  BY <1>12, EndKeeps
<1>13. CASE Finished \/ UNCHANGED vars
  BY <1>13, StutterKeeps DEF Finished
<1>14. QED
  BY <1>1, <1>2, <1>3, <1>4, <1>5, <1>6, <1>7, <1>8, <1>9, <1>10, <1>11, <1>12, <1>13 DEF Next

LEMMA JournalAlways == Spec => []JournalInv
<1>1. Init => JournalInv
  BY InitJournal
<1>2. JournalInv /\ [Next]_vars => JournalInv'
  BY NextKeeps
<1>3. QED
  BY <1>1, <1>2, PTL DEF Spec

-----------------------------------------------------------------------------
(* The theorems. *)

\* Whatever failed or ended in between, and however many transactions, files
\* and runs there were, the retained files are a journal the validator of
\* server/tools/gameplay_journal.py accepts, and stay within the limits of
\* journal_rotate() and journal_enforce_retention().
THEOREM JournalIsSound == Spec => []JournalSound
<1>1. JournalInv => JournalSound
  <2> SUFFICES ASSUME JournalInv PROVE JournalSound
    OBVIOUS
  <2>1. Shapes /\ WellFormed(files) /\ \A t \in Txs : Open(t)
    BY DEF JournalInv
  <2>2. Records \subseteq Record
    BY <2>1, RecordsAre DEF WellFormed, Records
  <2>3. pending \subseteq {t \in Txs : pc[t] = "open"} /\ \A t \in pending : "player" \in plan[t]
    BY <2>1 DEF Open, Shapes
  <2>4. GJTypeOK
    BY <2>1, <2>2, <2>3 DEF GJTypeOK, Shapes, DomainState
  <2>5. Chained(files)
    BY <2>1, LinkedIsChained
  <2>6. JournalValidates
    BY <2>1, <2>5 DEF JournalValidates, WellFormed
  <2>7. FilesBounded
    BY <2>1 DEF FilesBounded, WellFormed, Bounded
  <2>8. QED
    BY <2>4, <2>6, <2>7 DEF JournalSound
<1>2. QED
  BY <1>1, JournalAlways, PTL

\* The watermark that gameplay_journal_commit() left in a saved file tells
\* whether a reported transaction is in it, unless the domain was loaded or
\* reset without it or two sessions of the player were there; and nothing of an
\* aborted transaction is ever in a file.
THEOREM FilesAlwaysClassify == Spec => []FilesClassify
<1>1. JournalInv => FilesClassify
  <2> SUFFICES ASSUME JournalInv PROVE FilesClassify
    OBVIOUS
  <2>1. WellFormed(files) /\ \A t \in Txs : Held(t) /\ Classified(t)
    BY DEF JournalInv
  <2>2. \A r \in Records : r.of \in SUBSET Txs /\ r.doms \in SUBSET Domains
    BY <2>1, RecordsAre, RecordFields DEF WellFormed, Records
  <2>3. CheckpointsClassify
    BY <2>1, <2>2 DEF CheckpointsClassify, Classified, Committed
  <2>4. AbortedLeaveNothing
    BY <2>1, <2>2 DEF AbortedLeaveNothing, Held
  <2>5. QED
    BY <2>3, <2>4 DEF FilesClassify
<1>2. QED
  BY <1>1, JournalAlways, PTL

\* The mark in a file goes back only where the code lets it: load_temporary_map(),
\* clean_tmp_map() and the resets remove the runtime file of a map, and
\* player_login() loads a second session beside one whose logout was deferred.
THEOREM MarksGoBackOnlyForCause == Spec => MarksGoBackForCause
<1> DEFINE ForCause(d) == \/ d = "map-runtime" /\ saved'[d] = Empty
                          \/ d = "player" /\ sessions # "one"
<1>1. JournalInv /\ [Next]_vars => [\A d \in Domains : saved'[d].mark < saved[d].mark => ForCause(d)]_vars
  <2> SUFFICES ASSUME JournalInv, Next, NEW d \in Domains, saved'[d].mark < saved[d].mark
               PROVE  ForCause(d)
    BY DEF vars
  <2>1. /\ saved \in [Domains -> DomainState] /\ mem[d].mark \in Nat /\ saved[d].mark \in Nat
        /\ up => saved[d].mark <= mem[d].mark \/ (d = "player" /\ sessions # "one")
    BY MarksAre, QuietFacts, PlacesAre DEF Shapes
  <2>2. saved'[d] # saved[d]
    BY <2>1
  <2>3. saved' # saved
    BY <2>2
  <2>4. CASE saved' = Cleaned
    BY <2>2, <2>4, CleanedIs
  <2>5. ASSUME NEW p \in Places, SavePlayer(p)
        PROVE  ForCause(d)
    <3>1. up /\ p \in Sessions /\ saved' = [saved EXCEPT !["player"] = mem[p]]
      BY <2>5 DEF SavePlayer
    <3>2. d = "player" /\ saved'[d] = mem[p]
      BY <2>1, <2>2, <3>1
    <3>3. CASE sessions # "one"
      BY <3>2, <3>3
    <3>4. CASE sessions = "one"
      BY <2>1, <3>1, <3>2, <3>4 DEF Sessions
    <3>5. QED
      BY <3>3, <3>4
  <2>6. ASSUME NEW doms \in SUBSET MapFiles, SaveMap(doms)
        PROVE  ForCause(d)
    <3>1. up /\ saved' = [f \in Domains |-> IF f \in doms THEN mem[f] ELSE saved[f]]
      BY <2>6 DEF SaveMap
    <3>2. saved'[d] = mem[d] /\ d \in MapFiles
      BY <2>2, <3>1
    <3>3. QED
      BY <2>1, <3>1, <3>2, PlacesAre
  <2>7. CASE Leave
    <3>1. sessions = "two" /\ (saved' = saved \/ saved' = [saved EXCEPT !["player"] = mem["former"]])
      BY <2>7 DEF Leave
    <3>2. d = "player"
      BY <2>1, <2>2, <2>3, <3>1
    <3>3. QED
      BY <3>1, <3>2
  <2>8. \/ \E p \in Places : SavePlayer(p)
        \/ \E doms \in SUBSET MapFiles : SaveMap(doms)
        \/ Leave \/ saved' = saved \/ saved' = Cleaned
    <3>1. ASSUME NEW how \in Outcomes, Start(how) \/ ProfileBoundary(how) PROVE saved' = saved
      BY <3>1 DEF Start, ProfileBoundary
    <3>2. ASSUME NEW how \in Outcomes, NEW t \in Txs, Commit(t, how) \/ Abort(t, how) PROVE saved' = saved
      BY <3>2 DEF Commit, Abort
    <3>3. ASSUME NEW how \in Outcomes, NEW t \in Txs, NEW p \in Places, Begin(t, p, how) PROVE saved' = saved
      BY <3>3 DEF Begin
    <3>4. ASSUME NEW how \in Outcomes, NEW t \in Txs, NEW f \in MapFiles, Track(t, f, how) PROVE saved' = saved
      BY <3>4 DEF Track
    <3>5. ASSUME NEW t \in Txs, \/ Attempt(t) \/ \E f \in MapFiles : Retrack(t, f)
                                \/ \E p \in Places : Mutate(t, p)
          PROVE  saved' = saved
      BY <3>5 DEF Attempt, Retrack, Mutate
    <3>6. ASSUME Relogin \/ TakeOver \/ Finished PROVE saved' = saved
      BY <3>6 DEF Relogin, TakeOver, Finished, vars
    <3>7. ASSUME SwapIn \/ Reset \/ End PROVE saved' = saved \/ saved' = Cleaned
      BY <3>7 DEF SwapIn, Reset, End
    <3>8. QED
      BY <3>1, <3>2, <3>3, <3>4, <3>5, <3>6, <3>7 DEF Next
  <2>9. QED
    BY <2>3, <2>4, <2>5, <2>6, <2>7, <2>8
<1>2. QED
  BY <1>1, JournalAlways, PTL DEF Spec, MarksGoBackForCause

=============================================================================
