-------------------------- MODULE AccessStoreProofs --------------------------
(***************************************************************************)
(* What the access-token store promises, for every number of tokens and    *)
(* requests, every limit and every clock: NoResurrection, ImagesAreSound,  *)
(* RepliesHold and ObservedExpirySticks are invariants of AccessStore.     *)
(*                                                                         *)
(* The first part is about the pure operations of AccessSnapshot: from a   *)
(* sound snapshot each makes a sound one that follows it.  The second part *)
(* carries this over the commits, their failures, crashes and reopening.   *)
(***************************************************************************)
EXTENDS AccessStore, FiniteSetTheorems, SequenceTheorems, TLAPS

\* A snapshot that may be opened, all of whose identities are in m.
Shape(s, m) == s \in Snapshot /\ Valid(s) /\ IssuedOnce(s) /\ Known(s) \subseteq m

\* and that says nothing false of its requests.
Sound(s, m) == Shape(s, m) /\ \A q \in Receipted(s) : TrueReceipt(s, q)

Over == {"REVOKED", "EXPIRED"}

\* The last admission that is recorded is not before x.
AdmittedSince(s, t, x) ==
    s.tokens[t].history # <<>> /\ s.tokens[t].history[Len(s.tokens[t].history)] >= x

\* Request q is the issue of token t.
IssueOf(s, q, t) == q \in Receipted(s) /\ s.receipts[q].op = "ISSUE" /\ s.receipts[q].token = t

\* What of n is true because of s: n takes back nothing of s about the
\* identities in m.
Follows(n, s, m) ==
    /\ n.revision >= s.revision
    /\ \A t \in Retained(n) \cap m :
          /\ t \in Retained(s)
          /\ StateOf(s, t) \in Over => StateOf(n, t) \in Over
          /\ \A x \in Nat : AdmittedSince(s, t, x) => AdmittedSince(n, t, x)
          /\ StateOf(n, t) = "PENDING" =>
                StateOf(s, t) = "PENDING" /\ \A q \in Requests : IssueOf(s, q, t) => IssueOf(n, q, t)

-----------------------------------------------------------------------------
(* The inductive invariant. *)

Call == [token : TokenIds, generated : 1..Generations, now : Times, expected : Nat]

Typed ==
    /\ up \in BOOLEAN /\ poisoned \in BOOLEAN /\ fenced \in BOOLEAN
    /\ observed \in 0..MaxClock /\ latest \in 0..MaxClock
    /\ minted \subseteq TokenIds /\ ended \subseteq minted
    /\ calls \in [Requests -> Call \cup {NoCall}]
    /\ \A a \in acked : a.expected \in Nat /\ a.revision \in Nat /\ a.expected < a.revision
    /\ \A a \in admitted : a.token \in minted /\ a.at \in Nat

\* What an image owes to the ends that were committed, the changes that were
\* reported, and the admissions that were granted.
Keeps(s, ends, changes, grants) ==
    /\ \A t \in ends : t \in Retained(s) => StateOf(s, t) \in Over
    /\ \A a \in changes : s.revision >= a.revision
    /\ \A a \in grants : a.token \in Retained(s) => AdmittedSince(s, a.token, a.at)

\* An issue that waits for its route owns the revision it was asked against,
\* and its token while that is pending.
CallSound(q, waiting, s, m, changes) ==
    LET c == waiting[q]
    IN  c # NoCall =>
          /\ c.token \in m /\ c.expected < s.revision
          /\ \A a \in changes : a.expected # c.expected
          /\ \A p \in Requests : waiting[p] # NoCall /\ waiting[p].expected = c.expected => p = q
          /\ c.token \in Retained(s) /\ StateOf(s, c.token) = "PENDING" => IssueOf(s, q, c.token)

StoreInv ==
    /\ Typed
    /\ \A s \in Images : Sound(s, minted) /\ Keeps(s, ended, acked, admitted)
    /\ \A q \in Requests : CallSound(q, calls, state, minted, acked)
    /\ NoLostUpdate
    /\ latest <= observed
    /\ ~up => latest = 0 /\ \A q \in Requests : calls[q] = NoCall

-----------------------------------------------------------------------------
(* Copies of a snapshot. *)

\* What an identity stands for is told from its having none.
LEMMA Entries ==
  ASSUME NEW s \in Snapshot
  PROVE  /\ Retained(s) \subseteq TokenIds /\ Receipted(s) \subseteq Requests /\ Tombstoned(s) \subseteq TokenIds
         /\ \A t \in TokenIds : t \in Retained(s) <=> s.tokens[t] \in Token
         /\ \A q \in Requests : q \in Receipted(s) <=> s.receipts[q] \in Receipt
         /\ \A t \in TokenIds : t \in Tombstoned(s) <=> s.tombstones[t] \in Tombstone
<1>1. NoToken \notin Token
  BY DEF NoToken, Token, TokenStates
<1>2. NoReceipt \notin Receipt
  BY DEF NoReceipt, Receipt, Operations
<1>3. NoTombstone \notin Tombstone
  BY DEF NoTombstone, Tombstone
<1>4. /\ s.tokens \in [TokenIds -> Token \cup {NoToken}]
      /\ s.receipts \in [Requests -> Receipt \cup {NoReceipt}]
      /\ s.tombstones \in [TokenIds -> Tombstone \cup {NoTombstone}]
  BY DEF Snapshot
<1> QED
  BY <1>1, <1>2, <1>3, <1>4 DEF Retained, Receipted, Tombstoned

\* The sets of identities are finite.
LEMMA FiniteSets_ ==
  ASSUME NEW s
  PROVE  /\ IsFiniteSet(Retained(s)) /\ Cardinality(Retained(s)) \in Nat
         /\ IsFiniteSet(Receipted(s)) /\ Cardinality(Receipted(s)) \in Nat
         /\ IsFiniteSet(Tombstoned(s)) /\ Cardinality(Tombstoned(s)) \in Nat
  BY FiniteAssumption, FS_Subset, FS_CardinalityType DEF Retained, Receipted, Tombstoned

\* The numbers of a snapshot.
LEMMA Counters ==
  ASSUME NEW s \in Snapshot
  PROVE  /\ s.revision \in 1..MaxRevision /\ s.sequence \in 1..MaxRevision /\ s.clock \in 0..MaxClock
         /\ s.revision \in Nat /\ s.sequence \in Nat /\ s.clock \in Nat
  BY LimitAssumption DEF Snapshot

\* n has the counters of s.
Frame(n, s) == n.revision = s.revision /\ n.sequence = s.sequence /\ n.clock = s.clock

\* n has the tokens, receipts and tombstones of s.
Same(n, s) == n.tokens = s.tokens /\ n.receipts = s.receipts /\ n.tombstones = s.tombstones

\* The sets of identities are those of the parts.
LEMMA SameSets ==
  ASSUME NEW n, NEW s, Same(n, s)
  PROVE  /\ Retained(n) = Retained(s) /\ Receipted(n) = Receipted(s) /\ Tombstoned(n) = Tombstoned(s)
         /\ \A t \in TokenIds : StateOf(n, t) = StateOf(s, t)
         /\ Known(n) = Known(s)
  BY DEF Same, Retained, Receipted, Tombstoned, StateOf, Known

\* A valid token stays valid under greater counters and fewer tombstones.
LEMMA TokenGrown ==
  ASSUME NEW s \in Snapshot, NEW n \in Snapshot, NEW t \in Retained(s), ValidToken(s, t),
         n.tokens[t] = s.tokens[t], n.revision >= s.revision, n.clock >= s.clock,
         t \notin Tombstoned(n)
  PROVE  ValidToken(n, t)
<1> DEFINE a == s.tokens[t]
<1>1. /\ s.revision \in Nat /\ n.revision \in Nat /\ s.clock \in Nat /\ n.clock \in Nat
  BY Counters
<1>2. a \in Token
  BY Entries
<1>3. a.history \in Seq(1..MaxClock) /\ a.created \in Nat /\ a.revision \in Nat /\ Len(a.history) \in Nat
  BY <1>2, LimitAssumption DEF Token
<1> HIDE DEF a
<1>4. \A i \in 1..Len(a.history) : a.history[i] \in Nat
  BY <1>3, LimitAssumption
<1>5. /\ a.revision \in 1..s.revision
      /\ a.created \in 1..s.clock
      /\ a.expires # 0 => a.expires > a.created
      /\ a.state = "PENDING" => a.route_pending
      /\ Len(a.history) <= HistoryLimit
      /\ \A i \in 1..Len(a.history) : /\ a.history[i] \in a.created..s.clock
                                      /\ i > 1 => a.history[i] >= a.history[i - 1]
  BY DEF ValidToken, a
<1>6. \A i \in 1..Len(a.history) : /\ a.history[i] \in a.created..n.clock
                                   /\ i > 1 => a.history[i] >= a.history[i - 1]
  BY <1>1, <1>3, <1>4, <1>5
<1>7. a.revision \in 1..n.revision /\ a.created \in 1..n.clock
  BY <1>1, <1>3, <1>5
<1>8. n.tokens[t] = a
  BY DEF a
<1> QED
  BY <1>5, <1>6, <1>7, <1>8 DEF ValidToken

\* A copy with greater counters and a later clock is as sound.
LEMMA Grown ==
  ASSUME NEW s, NEW m, Sound(s, m), NEW n \in Snapshot, Same(n, s),
         n.revision >= s.revision, n.sequence >= n.revision, n.clock >= s.clock
  PROVE  Sound(n, m) /\ Follows(n, s, m)
<1>1. /\ s \in Snapshot /\ Valid(s) /\ IssuedOnce(s) /\ Known(s) \subseteq m
      /\ \A q \in Receipted(s) : TrueReceipt(s, q)
  BY DEF Sound, Shape
<1>2. /\ s.revision \in Nat /\ n.revision \in Nat /\ s.clock \in Nat /\ n.clock \in Nat
      /\ n.revision >= 1 /\ n.sequence \in Nat
  BY <1>1, Counters
<1>s. Retained(n) = Retained(s) /\ Receipted(n) = Receipted(s) /\ Tombstoned(n) = Tombstoned(s)
  BY SameSets
<1>3. Valid(n)
  <2>1. \A t \in Retained(n) : ValidToken(n, t)
    <3> SUFFICES ASSUME NEW t \in Retained(n) PROVE ValidToken(n, t)
      OBVIOUS
    <3>1. ValidToken(s, t) /\ t \in Retained(s) /\ n.tokens[t] = s.tokens[t] /\ t \notin Tombstoned(n)
      BY <1>1, <1>s DEF Valid, ValidToken, Same
    <3> QED
      BY <1>1, <3>1, TokenGrown
  <2>2. \A q \in Receipted(n) : ValidReceipt(n, q)
    <3> SUFFICES ASSUME NEW q \in Receipted(n) PROVE ValidReceipt(n, q)
      OBVIOUS
    <3>1. ValidReceipt(s, q) /\ n.receipts[q] = s.receipts[q]
      BY <1>1, <1>s DEF Valid, Same
    <3> QED
      BY <1>2, <3>1 DEF ValidReceipt
  <2>3. \A t \in Tombstoned(n) : /\ n.tombstones[t].removed \in 1..n.clock
                                 /\ n.tombstones[t].revision \in 1..n.revision
    <3> SUFFICES ASSUME NEW t \in Tombstoned(n)
                 PROVE  /\ n.tombstones[t].removed \in 1..n.clock
                        /\ n.tombstones[t].revision \in 1..n.revision
      OBVIOUS
    <3>1. /\ s.tombstones[t].removed \in 1..s.clock /\ s.tombstones[t].revision \in 1..s.revision
          /\ n.tombstones[t] = s.tombstones[t]
      BY <1>1, <1>s DEF Valid, Same
    <3> QED
      BY <1>2, <3>1
  <2>4. /\ Cardinality(Retained(n)) <= TokenLimit
        /\ Cardinality(Receipted(n)) <= ReceiptLimit
        /\ Cardinality(Tombstoned(n)) <= TombstoneLimit
    BY <1>1, <1>s DEF Valid
  <2>5. n.revision >= 1 /\ n.sequence >= n.revision /\ n.clock >= 0
    BY <1>2
  <2> QED
    BY ONLY <2>1, <2>2, <2>3, <2>4, <2>5 DEF Valid
<1>4. IssuedOnce(n) /\ Known(n) \subseteq m
  BY <1>1, SameSets DEF IssuedOnce, Same
<1>5. \A q \in Receipted(n) : TrueReceipt(n, q)
  <2> SUFFICES ASSUME NEW q \in Receipted(n) PROVE TrueReceipt(n, q)
    OBVIOUS
  <2>1. n.receipts[q] = s.receipts[q] /\ n.tokens = s.tokens
    BY DEF Same
  <2>2. TrueReceipt(s, q)
    BY <1>1, <1>s
  <2> QED
    BY <1>s, <2>1, <2>2 DEF TrueReceipt, StateOf
<1>6. Follows(n, s, m)
  <2>1. \A t \in TokenIds : \A x \in Nat : AdmittedSince(s, t, x) => AdmittedSince(n, t, x)
    BY DEF AdmittedSince, Same
  <2>2. \A t \in TokenIds : \A q \in Requests : IssueOf(s, q, t) => IssueOf(n, q, t)
    BY SameSets DEF IssueOf, Same
  <2>3. Retained(n) = Retained(s) /\ Retained(n) \subseteq TokenIds
    BY SameSets DEF Retained
  <2>4. \A t \in TokenIds : StateOf(n, t) = StateOf(s, t)
    BY SameSets
  <2> QED
    BY <1>2, <2>1, <2>2, <2>3, <2>4 DEF Follows
<1> QED
  BY <1>3, <1>4, <1>5, <1>6 DEF Sound, Shape

\* Follows is transitive.
LEMMA FollowsOn ==
  ASSUME NEW s \in Snapshot, NEW n \in Snapshot, NEW p \in Snapshot, NEW m,
         Follows(n, s, m), Follows(p, n, m)
  PROVE  Follows(p, s, m)
<1>1. p.revision >= s.revision
  BY Counters DEF Follows
<1>2. ASSUME NEW t \in Retained(p) \cap m
      PROVE  /\ t \in Retained(s)
             /\ StateOf(s, t) \in Over => StateOf(p, t) \in Over
             /\ \A x \in Nat : AdmittedSince(s, t, x) => AdmittedSince(p, t, x)
             /\ StateOf(p, t) = "PENDING" =>
                   StateOf(s, t) = "PENDING" /\ \A q \in Requests : IssueOf(s, q, t) => IssueOf(p, q, t)
  BY <1>2 DEF Follows
<1> QED
  BY <1>1, <1>2 DEF Follows

-----------------------------------------------------------------------------
(* One part of a snapshot is replaced. *)

\* New tokens: they must be valid, and not too many.
LEMMA NewTokens ==
  ASSUME NEW s, NEW m, Shape(s, m), NEW n \in Snapshot, NEW mm, m \subseteq mm,
         Frame(n, s), n.receipts = s.receipts, n.tombstones = s.tombstones,
         Cardinality(Retained(n)) <= TokenLimit, Retained(n) \subseteq mm,
         \A t \in Retained(n) : ValidToken(n, t)
  PROVE  Shape(n, mm) /\ Receipted(n) = Receipted(s) /\ Tombstoned(n) = Tombstoned(s)
<1>1. s \in Snapshot /\ Valid(s) /\ IssuedOnce(s) /\ Known(s) \subseteq m
  BY DEF Shape
<1>2. Receipted(n) = Receipted(s) /\ Tombstoned(n) = Tombstoned(s)
  BY DEF Receipted, Tombstoned
<1>3. \A q \in Receipted(n) : ValidReceipt(n, q)
  BY <1>1, <1>2 DEF Valid, ValidReceipt, Frame
<1>4. \A t \in Tombstoned(n) : /\ n.tombstones[t].removed \in 1..n.clock
                               /\ n.tombstones[t].revision \in 1..n.revision
  BY <1>1, <1>2 DEF Valid, Frame
<1>5. /\ Cardinality(Receipted(n)) <= ReceiptLimit /\ Cardinality(Tombstoned(n)) <= TombstoneLimit
      /\ n.revision >= 1 /\ n.sequence >= n.revision /\ n.clock >= 0
  BY <1>1, <1>2 DEF Valid, Frame
<1>6. Valid(n)
  BY ONLY <1>3, <1>4, <1>5, Cardinality(Retained(n)) <= TokenLimit, \A t \in Retained(n) : ValidToken(n, t) DEF Valid
<1>7. IssuedOnce(n) /\ Known(n) \subseteq mm
  BY <1>1, <1>2 DEF IssuedOnce, Known
<1> QED
  BY <1>2, <1>6, <1>7 DEF Shape

\* New receipts: they must be valid, not too many, and one for each issue.
LEMMA NewReceipts ==
  ASSUME NEW s, NEW m, Shape(s, m), NEW n \in Snapshot,
         Frame(n, s), n.tokens = s.tokens, n.tombstones = s.tombstones,
         Cardinality(Receipted(n)) <= ReceiptLimit, IssuedOnce(n),
         \A q \in Receipted(n) : ValidReceipt(n, q) /\ n.receipts[q].token \in m
  PROVE  Shape(n, m) /\ Retained(n) = Retained(s) /\ Tombstoned(n) = Tombstoned(s)
<1>1. s \in Snapshot /\ Valid(s) /\ IssuedOnce(s) /\ Known(s) \subseteq m
  BY DEF Shape
<1>2. Retained(n) = Retained(s) /\ Tombstoned(n) = Tombstoned(s)
  BY DEF Retained, Tombstoned
<1>3. \A t \in Retained(n) : ValidToken(n, t)
  BY <1>1, <1>2 DEF Valid, ValidToken, Frame
<1>4. \A t \in Tombstoned(n) : /\ n.tombstones[t].removed \in 1..n.clock
                               /\ n.tombstones[t].revision \in 1..n.revision
  BY <1>1, <1>2 DEF Valid, Frame
<1>5. /\ Cardinality(Retained(n)) <= TokenLimit /\ Cardinality(Tombstoned(n)) <= TombstoneLimit
      /\ n.revision >= 1 /\ n.sequence >= n.revision /\ n.clock >= 0
  BY <1>1, <1>2 DEF Valid, Frame
<1>r. \A q \in Receipted(n) : ValidReceipt(n, q)
  OBVIOUS
<1>6. Valid(n)
  BY ONLY <1>r, <1>3, <1>4, <1>5, Cardinality(Receipted(n)) <= ReceiptLimit DEF Valid
<1>7. Known(n) \subseteq m
  BY <1>1, <1>2 DEF Known
<1> QED
  BY <1>2, <1>6, <1>7 DEF Shape

\* New tombstones: they must be valid, not too many, and of no retained token.
LEMMA NewTombstones ==
  ASSUME NEW s, NEW m, Shape(s, m), NEW n \in Snapshot,
         Frame(n, s), n.tokens = s.tokens, n.receipts = s.receipts,
         Cardinality(Tombstoned(n)) <= TombstoneLimit, Tombstoned(n) \subseteq m,
         Tombstoned(n) \cap Retained(s) = {},
         \A t \in Tombstoned(n) : /\ n.tombstones[t].removed \in 1..n.clock
                                  /\ n.tombstones[t].revision \in 1..n.revision
  PROVE  Shape(n, m) /\ Retained(n) = Retained(s) /\ Receipted(n) = Receipted(s)
<1>1. s \in Snapshot /\ Valid(s) /\ IssuedOnce(s) /\ Known(s) \subseteq m
  BY DEF Shape
<1>2. Retained(n) = Retained(s) /\ Receipted(n) = Receipted(s)
  BY DEF Retained, Receipted
<1>3. \A t \in Retained(n) : ValidToken(n, t)
  BY <1>1, <1>2 DEF Valid, ValidToken, Frame
<1>4. \A q \in Receipted(n) : ValidReceipt(n, q)
  BY <1>1, <1>2 DEF Valid, ValidReceipt, Frame
<1>5. /\ Cardinality(Retained(n)) <= TokenLimit /\ Cardinality(Receipted(n)) <= ReceiptLimit
      /\ n.revision >= 1 /\ n.sequence >= n.revision /\ n.clock >= 0
  BY <1>1, <1>2 DEF Valid, Frame
<1>t. \A t \in Tombstoned(n) : /\ n.tombstones[t].removed \in 1..n.clock
                               /\ n.tombstones[t].revision \in 1..n.revision
  OBVIOUS
<1>6. Valid(n)
  BY ONLY <1>3, <1>4, <1>5, <1>t, Cardinality(Tombstoned(n)) <= TombstoneLimit DEF Valid
<1>7. IssuedOnce(n) /\ Known(n) \subseteq m
  BY <1>1, <1>2 DEF Known, IssuedOnce
<1> QED
  BY <1>2, <1>6, <1>7 DEF Shape

\* A receipt stays true while its own fields and its token are the same.
LEMMA StillTrue ==
  ASSUME NEW s, NEW n, NEW q, TrueReceipt(s, q),
         n.receipts[q].op = s.receipts[q].op, n.receipts[q].token = s.receipts[q].token,
         n.receipts[q].outcome = s.receipts[q].outcome,
         s.receipts[q].token \in Retained(n) <=> s.receipts[q].token \in Retained(s),
         s.receipts[q].token \in Retained(s) =>
            /\ StateOf(n, s.receipts[q].token) = StateOf(s, s.receipts[q].token)
            /\ n.tokens[s.receipts[q].token].route_pending = s.tokens[s.receipts[q].token].route_pending
  PROVE  TrueReceipt(n, q)
  BY DEF TrueReceipt

-----------------------------------------------------------------------------
(* The parts of an operation. *)

\* A snapshot an operation may work on: sound, and no token has its revision.
Roomy(s, m) == Sound(s, m) /\ \A t \in Retained(s) : s.tokens[t].revision < s.revision

\* The candidate of a sound snapshot is one.
LEMMA CandidateIs ==
  ASSUME NEW s, NEW m, Sound(s, m), HasCandidate(s), NEW now \in 0..MaxClock, NEW seen \in 0..MaxClock
  PROVE  LET n == Candidate(s, now, seen)
         IN  /\ Roomy(n, m) /\ Follows(n, s, m) /\ Same(n, s)
             /\ n.revision = s.revision + 1 /\ n.sequence = s.sequence + 1
             /\ n.clock \in 0..MaxClock /\ n.clock >= s.clock /\ n.clock >= now /\ n.clock >= seen
<1> DEFINE c == Later(Later(s.clock, now), seen)
           n == Candidate(s, now, seen)
<1>0. s \in Snapshot /\ Valid(s)
  BY DEF Sound, Shape
<1>1. s.clock \in 0..MaxClock /\ s.revision \in 1..MaxRevision /\ s.sequence \in 1..MaxRevision
  BY <1>0, Counters
<1>2. c \in 0..MaxClock /\ c >= s.clock /\ c >= now /\ c >= seen
  BY <1>1, LimitAssumption DEF Later
<1>3. Candidate(s, now, seen) = [s EXCEPT !.revision = s.revision + 1, !.sequence = s.sequence + 1, !.clock = c]
  BY <1>0 DEF Candidate, Snapshot
<1> HIDE DEF c
<1>4. s.revision + 1 \in 1..MaxRevision /\ s.sequence + 1 \in 1..MaxRevision
  BY <1>1, LimitAssumption DEF HasCandidate
<1>5. /\ n \in Snapshot /\ Same(n, s)
      /\ n.revision = s.revision + 1 /\ n.sequence = s.sequence + 1 /\ n.clock = c
  BY <1>0, <1>2, <1>3, <1>4 DEF Snapshot, Same
<1> HIDE DEF n
<1>6. n.revision >= s.revision /\ n.sequence >= n.revision /\ n.clock >= s.clock
  BY <1>0, <1>1, <1>2, <1>5 DEF Valid
<1>7. Sound(n, m) /\ Follows(n, s, m)
  BY <1>5, <1>6, Grown
<1>8. \A t \in Retained(n) : n.tokens[t].revision < n.revision
  <2>1. SUFFICES ASSUME NEW t \in Retained(n) PROVE n.tokens[t].revision < n.revision
    OBVIOUS
  <2>2. t \in Retained(s) /\ n.tokens[t] = s.tokens[t] /\ s.tokens[t].revision \in 1..s.revision
    BY <1>0, <1>5, SameSets DEF Same, Valid, ValidToken
  <2> QED
    BY <1>1, <1>5, <2>2
<1>9. Roomy(n, m)
  BY <1>7, <1>8 DEF Roomy
<1> QED
  BY <1>2, <1>5, <1>7, <1>9 DEF n


\* Pruning takes away receipts that no longer wait, and tombstones.
LEMMA PruneIs ==
  ASSUME NEW s, NEW m, Roomy(s, m), NEW now
  PROVE  LET n == Prune(s, now)
         IN  /\ Roomy(n, m) /\ Follows(n, s, m) /\ Frame(n, s) /\ n.tokens = s.tokens
             /\ Retained(n) = Retained(s) /\ Receipted(n) \subseteq Receipted(s)
             /\ Tombstoned(n) \subseteq Tombstoned(s)
             /\ \A q \in Receipted(n) : n.receipts[q] = s.receipts[q]
             /\ \A q \in Receipted(s) : s.receipts[q].outcome = "PENDING" => q \in Receipted(n)
<1> DEFINE n == Prune(s, now)
           R == [q \in Requests |-> IF /\ q \in Receipted(s) /\ s.receipts[q].outcome # "PENDING"
                                       /\ now - s.receipts[q].created > ReceiptTime
                                    THEN NoReceipt ELSE s.receipts[q]]
           D == [t \in TokenIds |-> IF t \in Tombstoned(s) /\ now - s.tombstones[t].removed > TombstoneTime
                                    THEN NoTombstone ELSE s.tombstones[t]]
           e == [s EXCEPT !.receipts = R]
<1>0. /\ s \in Snapshot /\ Shape(s, m) /\ IssuedOnce(s) /\ Known(s) \subseteq m /\ Valid(s)
      /\ \A q \in Receipted(s) : TrueReceipt(s, q)
      /\ \A t \in Retained(s) : s.tokens[t].revision < s.revision
  BY DEF Roomy, Sound, Shape
<1>1. n = [e EXCEPT !.tombstones = D]
  BY DEF Prune
<1>2. R \in [Requests -> Receipt \cup {NoReceipt}]
  BY <1>0 DEF Snapshot
<1>3. D \in [TokenIds -> Tombstone \cup {NoTombstone}]
  BY <1>0 DEF Snapshot
<1>r. \A q \in Requests : R[q] # NoReceipt => s.receipts[q] # NoReceipt /\ R[q] = s.receipts[q]
  OBVIOUS
<1>p. \A q \in Receipted(s) : s.receipts[q].outcome = "PENDING" => R[q] = s.receipts[q] /\ q \in Requests
  BY DEF Receipted
<1>d. \A t \in TokenIds : D[t] # NoTombstone => s.tombstones[t] # NoTombstone /\ D[t] = s.tombstones[t]
  OBVIOUS
<1> HIDE DEF R, D
<1>4. e \in Snapshot /\ Frame(e, s) /\ e.tokens = s.tokens /\ e.tombstones = s.tombstones /\ e.receipts = R
  BY <1>0, <1>2 DEF Snapshot, Frame
<1>5. /\ Receipted(e) \subseteq Receipted(s)
      /\ \A q \in Receipted(e) : e.receipts[q] = s.receipts[q]
  BY <1>4, <1>r DEF Receipted
<1>6. Cardinality(Receipted(e)) <= ReceiptLimit
  <2>1. Cardinality(Receipted(e)) <= Cardinality(Receipted(s))
    BY <1>5, FiniteSets_, FS_Subset
  <2>2. Cardinality(Receipted(s)) <= ReceiptLimit
    BY <1>0 DEF Valid
  <2> QED
    BY <2>1, <2>2, FiniteSets_, LimitAssumption
<1>7. Shape(e, m) /\ Retained(e) = Retained(s) /\ Tombstoned(e) = Tombstoned(s)
  <2>1. IssuedOnce(e)
    BY <1>0, <1>5 DEF IssuedOnce
  <2>2. \A q \in Receipted(e) : ValidReceipt(e, q) /\ e.receipts[q].token \in m
    BY <1>0, <1>4, <1>5 DEF Valid, ValidReceipt, Known, Frame
  <2> QED
    BY <1>0, <1>4, <1>6, <2>1, <2>2, NewReceipts
<1> HIDE DEF e
<1>8. n \in Snapshot /\ Frame(n, e) /\ n.tokens = e.tokens /\ n.receipts = e.receipts /\ n.tombstones = D
  BY <1>1, <1>3, <1>4 DEF Snapshot, Frame
<1>9. /\ Tombstoned(n) \subseteq Tombstoned(e)
      /\ \A t \in Tombstoned(n) : n.tombstones[t] = e.tombstones[t]
  BY <1>4, <1>8, <1>d DEF Tombstoned
<1>10. Cardinality(Tombstoned(n)) <= TombstoneLimit
  <2>1. Cardinality(Tombstoned(n)) <= Cardinality(Tombstoned(e))
    BY <1>9, FiniteSets_, FS_Subset
  <2>2. Cardinality(Tombstoned(e)) <= TombstoneLimit
    BY <1>7 DEF Shape, Valid
  <2> QED
    BY <2>1, <2>2, FiniteSets_, LimitAssumption
<1>11. Shape(n, m) /\ Retained(n) = Retained(e) /\ Receipted(n) = Receipted(e)
  <2>1. Tombstoned(n) \subseteq m
    BY <1>7, <1>9 DEF Shape, Known
  <2>2. Tombstoned(n) \cap Retained(e) = {}
    BY <1>7, <1>9 DEF Shape, Valid, ValidToken
  <2>3. \A t \in Tombstoned(n) : /\ n.tombstones[t].removed \in 1..n.clock
                                 /\ n.tombstones[t].revision \in 1..n.revision
    BY <1>7, <1>8, <1>9 DEF Shape, Valid, Frame
  <2> HIDE DEF n
  <2> QED
    BY <1>7, <1>8, <1>10, <2>1, <2>2, <2>3, NewTombstones
<1> HIDE DEF n
<1>12. /\ Frame(n, s) /\ n.tokens = s.tokens /\ Retained(n) = Retained(s)
       /\ Receipted(n) \subseteq Receipted(s) /\ Tombstoned(n) \subseteq Tombstoned(s)
       /\ \A q \in Receipted(n) : n.receipts[q] = s.receipts[q]
  BY <1>4, <1>5, <1>7, <1>8, <1>9, <1>11 DEF Frame
<1>13. \A q \in Receipted(s) : s.receipts[q].outcome = "PENDING" => q \in Receipted(n)
  BY <1>p, <1>4, <1>8 DEF Receipted
<1>14. \A q \in Receipted(n) : TrueReceipt(n, q)
  BY <1>0, <1>12 DEF TrueReceipt, StateOf
<1>15. Roomy(n, m)
  BY <1>0, <1>11, <1>12, <1>14 DEF Roomy, Sound, Frame
<1>16. Follows(n, s, m)
  <2>1. n.revision >= s.revision
    BY <1>0, <1>12, Counters DEF Frame
  <2>2. \A t \in Retained(n) : \A q \in Requests :
           StateOf(s, t) = "PENDING" /\ IssueOf(s, q, t) => IssueOf(n, q, t)
    <3> SUFFICES ASSUME NEW t \in Retained(n), NEW q \in Requests, StateOf(s, t) = "PENDING", IssueOf(s, q, t)
                 PROVE  IssueOf(n, q, t)
      OBVIOUS
    <3>1. q \in Receipted(s) /\ s.receipts[q].op = "ISSUE" /\ s.receipts[q].token = t
      BY DEF IssueOf
    <3>2. s.receipts[q].outcome = "PENDING"
      BY <1>0, <1>12, <3>1 DEF TrueReceipt
    <3> QED
      BY <1>12, <1>13, <3>1, <3>2 DEF IssueOf
  <2>3. \A t \in Retained(n) : /\ StateOf(n, t) = StateOf(s, t) /\ t \in Retained(s)
                               /\ \A x \in Nat : AdmittedSince(s, t, x) => AdmittedSince(n, t, x)
    BY <1>12 DEF StateOf, AdmittedSince
  <2> QED
    BY <2>1, <2>2, <2>3 DEF Follows
<1> QED
  BY <1>12, <1>13, <1>15, <1>16 DEF n


\* The receipts that Settle moves.
Moves(s, q, t, ops, from) ==
    s.receipts[q].token = t /\ s.receipts[q].op \in ops /\ s.receipts[q].outcome = from

\* Settling changes nothing but the outcome and the revisions of receipts.
LEMMA SettleIs ==
  ASSUME NEW s, NEW m, Shape(s, m), NEW t, NEW ops, NEW from, NEW to \in Outcomes, NEW tr \in 0..s.revision
  PROVE  LET n == Settle(s, t, ops, from, to, tr)
         IN  /\ Shape(n, m) /\ Frame(n, s) /\ n.tokens = s.tokens /\ n.tombstones = s.tombstones
             /\ Retained(n) = Retained(s) /\ Receipted(n) = Receipted(s) /\ Tombstoned(n) = Tombstoned(s)
             /\ \A q \in Receipted(s) :
                   /\ n.receipts[q].op = s.receipts[q].op /\ n.receipts[q].token = s.receipts[q].token
                   /\ n.receipts[q].outcome = IF Moves(s, q, t, ops, from) THEN to ELSE s.receipts[q].outcome
             /\ \A x : Follows(n, s, x)
<1> DEFINE n == Settle(s, t, ops, from, to, tr)
           moved(q) == [s.receipts[q] EXCEPT !.outcome = to, !.revision = s.revision,
                                             !.token_revision = IF tr = 0 THEN @ ELSE tr]
           R == [q \in Requests |-> IF q \in Receipted(s) /\ Moves(s, q, t, ops, from)
                                    THEN moved(q) ELSE s.receipts[q]]
<1>0. s \in Snapshot /\ IssuedOnce(s) /\ Known(s) \subseteq m /\ Valid(s)
  BY DEF Shape
<1>1. n = [s EXCEPT !.receipts = R]
  BY DEF Settle, Moves
<1>c. s.revision \in 1..MaxRevision /\ s.revision \in Nat /\ 1..s.revision \subseteq 1..MaxRevision
  BY <1>0, Counters, LimitAssumption
<1>2. ASSUME NEW q \in Receipted(s)
      PROVE  /\ s.receipts[q] \in Receipt /\ moved(q) \in Receipt
             /\ moved(q).op = s.receipts[q].op /\ moved(q).token = s.receipts[q].token
             /\ moved(q).outcome = to /\ moved(q).revision = s.revision
             /\ moved(q).created = s.receipts[q].created
             /\ moved(q).token_revision \in 1..s.revision
  <2>1. s.receipts[q] \in Receipt
    BY <1>0, Entries
  <2>2. s.receipts[q].token_revision \in 1..s.revision /\ s.receipts[q].token_revision \in 1..MaxRevision
    <3>1. s.receipts[q].token_revision \in 1..s.receipts[q].revision /\ s.receipts[q].revision \in 1..s.revision
      BY <1>0 DEF Valid, ValidReceipt
    <3> QED
      BY <1>c, <3>1
  <2>3. tr # 0 => tr \in 1..s.revision
    BY <1>c
  <2> QED
    BY <1>c, <2>1, <2>2, <2>3 DEF Receipt
<1> HIDE DEF moved
<1>3. \A q \in Receipted(s) : R[q] = (IF Moves(s, q, t, ops, from) THEN moved(q) ELSE s.receipts[q]) /\ R[q] \in Receipt
  BY <1>2 DEF Receipted
<1>4. \A q \in Requests : q \notin Receipted(s) => R[q] = NoReceipt
  BY DEF Receipted
<1>5. R \in [Requests -> Receipt \cup {NoReceipt}]
  BY <1>3, <1>4
<1> HIDE DEF R
<1>6. n \in Snapshot /\ Frame(n, s) /\ n.tokens = s.tokens /\ n.tombstones = s.tombstones /\ n.receipts = R
  BY <1>0, <1>1, <1>5 DEF Snapshot, Frame
<1> HIDE DEF n
<1>7. Receipted(n) = Receipted(s)
  BY <1>0, <1>3, <1>4, <1>6, Entries DEF Receipted
<1>8. \A q \in Receipted(s) :
         /\ n.receipts[q].op = s.receipts[q].op /\ n.receipts[q].token = s.receipts[q].token
         /\ n.receipts[q].outcome = IF Moves(s, q, t, ops, from) THEN to ELSE s.receipts[q].outcome
         /\ \/ n.receipts[q] = s.receipts[q]
            \/ /\ n.receipts[q].revision = s.revision /\ n.receipts[q].created = s.receipts[q].created
               /\ n.receipts[q].token_revision \in 1..s.revision
  BY <1>2, <1>3, <1>6
<1>9. \A q \in Receipted(n) : ValidReceipt(n, q) /\ n.receipts[q].token \in m
  <2> SUFFICES ASSUME NEW q \in Receipted(n) PROVE ValidReceipt(n, q) /\ n.receipts[q].token \in m
    OBVIOUS
  <2>1. ValidReceipt(s, q) /\ s.receipts[q].token \in m
    BY <1>0, <1>7 DEF Valid, Known
  <2>2. n.revision = s.revision /\ n.clock = s.clock /\ s.revision \in 1..s.revision
    BY <1>6, <1>c DEF Frame
  <2> QED
    BY <1>7, <1>8, <2>1, <2>2 DEF ValidReceipt
<1>10. IssuedOnce(n)
  BY <1>0, <1>7, <1>8 DEF IssuedOnce
<1>11. Cardinality(Receipted(n)) <= ReceiptLimit
  BY <1>0, <1>7 DEF Valid
<1>12. Shape(n, m) /\ Retained(n) = Retained(s) /\ Tombstoned(n) = Tombstoned(s)
  BY <1>6, <1>9, <1>10, <1>11, NewReceipts
<1>13. ASSUME NEW x PROVE Follows(n, s, x)
  <2>1. n.revision >= s.revision
    BY <1>6, <1>c DEF Frame
  <2>2. \A a \in Retained(n) : \A q \in Requests : IssueOf(s, q, a) => IssueOf(n, q, a)
    BY <1>7, <1>8 DEF IssueOf
  <2>3. \A a \in Retained(n) : /\ StateOf(n, a) = StateOf(s, a) /\ a \in Retained(s)
                               /\ \A y \in Nat : AdmittedSince(s, a, y) => AdmittedSince(n, a, y)
    BY <1>6, <1>12 DEF StateOf, AdmittedSince
  <2> QED
    BY <2>1, <2>2, <2>3 DEF Follows
<1> QED
  BY <1>6, <1>7, <1>8, <1>12, <1>13 DEF n

\* A new receipt.
LEMMA NewReceiptIs ==
  ASSUME NEW s, NEW m, Shape(s, m), NEW q \in Requests \ Receipted(s), NEW t \in Retained(s),
         NEW op \in Operations, NEW outcome \in Outcomes, NEW now \in 1..s.clock,
         Cardinality(Receipted(s)) < ReceiptLimit,
         op = "ISSUE" => \A p \in Receipted(s) : s.receipts[p].token # t
  PROVE  LET n == NewReceipt(s, q, t, op, outcome, now)
         IN  /\ Shape(n, m) /\ Frame(n, s) /\ n.tokens = s.tokens /\ n.tombstones = s.tombstones
             /\ Retained(n) = Retained(s) /\ Receipted(n) = Receipted(s) \cup {q}
             /\ Tombstoned(n) = Tombstoned(s)
             /\ \A p \in Receipted(s) : n.receipts[p] = s.receipts[p]
             /\ n.receipts[q].op = op /\ n.receipts[q].token = t /\ n.receipts[q].outcome = outcome
             /\ \A x : Follows(n, s, x)
<1> DEFINE n == NewReceipt(s, q, t, op, outcome, now)
           r == [op |-> op, token |-> t, outcome |-> outcome, revision |-> s.revision,
                 token_revision |-> s.tokens[t].revision, created |-> now]
           R == [s.receipts EXCEPT ![q] = r]
<1>0. s \in Snapshot /\ IssuedOnce(s) /\ Known(s) \subseteq m /\ Valid(s)
  BY DEF Shape
<1>c. s.revision \in 1..MaxRevision /\ s.revision \in Nat /\ s.clock \in 0..MaxClock
  BY <1>0, Counters
<1>t. s.tokens[t] \in Token /\ s.tokens[t].revision \in 1..s.revision /\ t \in TokenIds
  BY <1>0, Entries DEF Valid, ValidToken
<1>1. n = [s EXCEPT !.receipts = R]
  BY <1>0 DEF NewReceipt, Snapshot
<1>2. r \in Receipt /\ r.revision = s.revision /\ r.token_revision \in 1..s.revision /\ r.created = now
      /\ r.op = op /\ r.token = t /\ r.outcome = outcome
  <2>1. s.tokens[t].revision \in 1..MaxRevision /\ now \in 1..MaxClock
    BY <1>c, <1>t, LimitAssumption
  <2> QED
    BY <1>c, <1>t, <2>1 DEF Receipt
<1> HIDE DEF r
<1>3. R \in [Requests -> Receipt \cup {NoReceipt}]
  BY <1>0, <1>2 DEF Snapshot
<1>4. \A p \in Requests : R[p] = IF p = q THEN r ELSE s.receipts[p]
  BY <1>0 DEF Snapshot
<1> HIDE DEF R
<1>5. n \in Snapshot /\ Frame(n, s) /\ n.tokens = s.tokens /\ n.tombstones = s.tombstones /\ n.receipts = R
  BY <1>0, <1>1, <1>3 DEF Snapshot, Frame
<1> HIDE DEF n
<1>6. Receipted(n) = Receipted(s) \cup {q}
  BY <1>2, <1>4, <1>5, Entries DEF Receipted
<1>7. /\ \A p \in Receipted(s) : n.receipts[p] = s.receipts[p] /\ p # q
      /\ n.receipts[q] = r
  BY <1>4, <1>5 DEF Receipted
<1>8. Cardinality(Receipted(n)) <= ReceiptLimit
  <2>1. Cardinality(Receipted(n)) = Cardinality(Receipted(s)) + 1
    BY <1>6, FiniteSets_, FS_AddElement
  <2> QED
    BY <2>1, FiniteSets_, LimitAssumption
<1>9. \A p \in Receipted(n) : ValidReceipt(n, p) /\ n.receipts[p].token \in m
  <2>1. ASSUME NEW p \in Receipted(s) PROVE ValidReceipt(n, p) /\ n.receipts[p].token \in m
    BY <1>0, <1>5, <1>7, <2>1 DEF Valid, ValidReceipt, Known, Frame
  <2>2. ValidReceipt(n, q) /\ n.receipts[q].token \in m
    <3>1. n.revision = s.revision /\ n.clock = s.clock /\ s.revision \in 1..s.revision /\ t \in m
      BY <1>0, <1>5, <1>c DEF Frame, Known
    <3> QED
      BY <1>2, <1>7, <3>1 DEF ValidReceipt
  <2> QED
    BY <1>6, <2>1, <2>2
<1>10. IssuedOnce(n)
  <2> SUFFICES ASSUME NEW a \in Receipted(n), NEW b \in Receipted(n),
                      n.receipts[a].op = "ISSUE", n.receipts[b].op = "ISSUE",
                      n.receipts[a].token = n.receipts[b].token
               PROVE  a = b
    BY DEF IssuedOnce
  <2>1. CASE a \in Receipted(s) /\ b \in Receipted(s)
    BY <1>0, <1>7, <2>1 DEF IssuedOnce
  <2>2. CASE a = q /\ b = q
    BY <2>2
  <2>3. CASE a = q /\ b \in Receipted(s)
    BY <1>2, <1>7, <2>3
  <2>4. CASE b = q /\ a \in Receipted(s)
    BY <1>2, <1>7, <2>4
  <2> QED
    BY <1>6, <2>1, <2>2, <2>3, <2>4
<1>11. Shape(n, m) /\ Retained(n) = Retained(s) /\ Tombstoned(n) = Tombstoned(s)
  BY <1>5, <1>8, <1>9, <1>10, NewReceipts
<1>12. ASSUME NEW x PROVE Follows(n, s, x)
  <2>1. n.revision >= s.revision
    BY <1>5, <1>c DEF Frame
  <2>2. \A a \in Retained(n) : \A p \in Requests : IssueOf(s, p, a) => IssueOf(n, p, a)
    BY <1>6, <1>7 DEF IssueOf
  <2>3. \A a \in Retained(n) : /\ StateOf(n, a) = StateOf(s, a) /\ a \in Retained(s)
                               /\ \A y \in Nat : AdmittedSince(s, a, y) => AdmittedSince(n, a, y)
    BY <1>5, <1>11 DEF StateOf, AdmittedSince
  <2> QED
    BY <2>1, <2>2, <2>3 DEF Follows
<1> QED
  BY <1>2, <1>5, <1>6, <1>7, <1>11, <1>12 DEF n


\* What ValidToken asks of the token itself.
Good(a, s) ==
    /\ a.revision \in 1..s.revision
    /\ a.created \in 1..s.clock
    /\ a.expires # 0 => a.expires > a.created
    /\ a.state = "PENDING" => a.route_pending
    /\ Len(a.history) <= HistoryLimit
    /\ \A i \in 1..Len(a.history) : /\ a.history[i] \in a.created..s.clock
                                    /\ i > 1 => a.history[i] >= a.history[i - 1]

LEMMA GoodIsValid ==
  ASSUME NEW s, NEW t
  PROVE  ValidToken(s, t) <=> Good(s.tokens[t], s) /\ t \notin Tombstoned(s)
  BY DEF ValidToken, Good

WithToken(s, t, a) == [s EXCEPT !.tokens = [s.tokens EXCEPT ![t] = a]]

\* One token is new or replaced.
LEMMA WithTokenIs ==
  ASSUME NEW s, NEW m, Shape(s, m), NEW t \in TokenIds \ Tombstoned(s), NEW a \in Token, Good(a, s),
         t \in Retained(s) \/ Cardinality(Retained(s)) < TokenLimit
  PROVE  LET n == WithToken(s, t, a)
         IN  /\ Shape(n, m \cup {t}) /\ Frame(n, s) /\ n.receipts = s.receipts /\ n.tombstones = s.tombstones
             /\ Retained(n) = Retained(s) \cup {t} /\ Receipted(n) = Receipted(s) /\ Tombstoned(n) = Tombstoned(s)
<1> DEFINE n == WithToken(s, t, a)
<1>0. s \in Snapshot /\ Known(s) \subseteq m /\ Valid(s)
  BY DEF Shape
<1>1. /\ n \in Snapshot /\ Frame(n, s) /\ n.receipts = s.receipts /\ n.tombstones = s.tombstones
      /\ n.tokens[t] = a /\ \A u \in TokenIds \ {t} : n.tokens[u] = s.tokens[u]
  BY <1>0 DEF WithToken, Snapshot, Frame
<1> HIDE DEF n
<1>2. Retained(n) = Retained(s) \cup {t}
  BY <1>0, <1>1, Entries DEF Retained
<1>3. Cardinality(Retained(n)) <= TokenLimit
  <2>1. CASE t \in Retained(s)
    BY <1>0, <1>2, <2>1 DEF Valid
  <2>2. CASE t \notin Retained(s)
    <3>1. Cardinality(Retained(n)) = Cardinality(Retained(s)) + 1
      BY <1>2, <2>2, FiniteSets_, FS_AddElement
    <3> QED
      BY <2>2, <3>1, FiniteSets_, LimitAssumption
  <2> QED
    BY <2>1, <2>2
<1>4. Tombstoned(n) = Tombstoned(s)
  BY <1>1 DEF Tombstoned
<1>5. \A u \in Retained(n) : ValidToken(n, u)
  <2>1. ASSUME NEW u \in Retained(s), u # t PROVE ValidToken(n, u)
    BY <1>0, <1>1, <1>4, <2>1 DEF Valid, ValidToken, Frame, Retained
  <2>2. ValidToken(n, t)
    BY <1>1, <1>4 DEF ValidToken, Good, Frame
  <2> QED
    BY <1>2, <2>1, <2>2
<1>6. Retained(n) \subseteq m \cup {t}
  BY <1>0, <1>2 DEF Known
<1>7. Shape(n, m \cup {t}) /\ Receipted(n) = Receipted(s)
  BY <1>1, <1>3, <1>5, <1>6, NewTokens
<1> QED
  BY <1>1, <1>2, <1>4, <1>7 DEF n

\* A token that is replaced by one that is no less over, not pending, and has
\* at least its last admission.
LEMMA FollowsToken ==
  ASSUME NEW s \in Snapshot, NEW n \in Snapshot, NEW t \in Retained(s), Frame(n, s), n.receipts = s.receipts,
         Retained(n) = Retained(s), \A u \in TokenIds \ {t} : n.tokens[u] = s.tokens[u],
         StateOf(n, t) # "PENDING", StateOf(s, t) \in Over => StateOf(n, t) \in Over,
         \A x \in Nat : AdmittedSince(s, t, x) => AdmittedSince(n, t, x),
         NEW x
  PROVE  Follows(n, s, x)
<1>1. n.revision >= s.revision
  BY Counters DEF Frame
<1>2. Receipted(n) = Receipted(s) /\ \A u \in Retained(n) : \A q \in Requests : IssueOf(s, q, u) => IssueOf(n, q, u)
  BY DEF Receipted, IssueOf
<1>3. \A u \in Retained(n) : u # t =>
         /\ StateOf(n, u) = StateOf(s, u)
         /\ \A y \in Nat : AdmittedSince(s, u, y) => AdmittedSince(n, u, y)
  BY DEF Retained, StateOf, AdmittedSince
<1> QED
  BY <1>1, <1>2, <1>3 DEF Follows

\* The denial ends a token and settles what waited for it.
LEMMA DenyIs ==
  ASSUME NEW s, NEW m, Roomy(s, m), NEW t \in Retained(s), StateOf(s, t) # "REVOKED",
         NEW q \in Requests, NEW ops, "ISSUE" \in ops
  PROVE  LET n == Deny(s, t, q, ops)
         IN  /\ Sound(n, m) /\ Follows(n, s, m) /\ Frame(n, s) /\ n.tombstones = s.tombstones
             /\ Retained(n) = Retained(s) /\ Receipted(n) = Receipted(s) /\ Tombstoned(n) = Tombstoned(s)
             /\ StateOf(n, t) = "REVOKED" /\ n.tokens[t].route_pending
<1> DEFINE b == s.tokens[t]
           a == [b EXCEPT !.state = "REVOKED", !.revision = b.revision + 1, !.route_pending = TRUE,
                          !.route = [request |-> q, attempt |-> 0]]
           e == WithToken(s, t, a)
           n == Settle(e, t, ops, "PENDING", "LOCALLY_REVOKED", a.revision)
<1>0. /\ Shape(s, m) /\ s \in Snapshot /\ Known(s) \subseteq m /\ Valid(s)
      /\ \A p \in Receipted(s) : TrueReceipt(s, p)
      /\ b.revision < s.revision /\ t \in TokenIds /\ t \in m
  BY Entries DEF Roomy, Sound, Shape, Known
<1>1. b \in Token /\ Good(b, s) /\ t \notin Tombstoned(s)
  BY <1>0, Entries, GoodIsValid DEF Valid
<1>2. b.revision + 1 \in 1..s.revision /\ b.revision + 1 \in 1..MaxRevision
  BY <1>0, <1>1, Counters, LimitAssumption DEF Good
<1>3. /\ a \in Token /\ a.state = "REVOKED" /\ a.route_pending /\ a.revision = b.revision + 1
      /\ a.history = b.history /\ a.created = b.created /\ a.expires = b.expires
  <2>1. [request |-> q, attempt |-> 0] \in RouteId
    BY DEF RouteId
  <2> QED
    BY <1>1, <1>2, <2>1 DEF Token, TokenStates
<1>d. Deny(s, t, q, ops) = n
  <2>1. [EndToken(s, t, "REVOKED") EXCEPT !.tokens[t].route_pending = TRUE,
                                          !.tokens[t].route = [request |-> q, attempt |-> 0]] = e
    <3> DEFINE b1 == [b EXCEPT !.state = "REVOKED", !.revision = b.revision + 1]
               e1 == WithToken(s, t, b1)
    <3>1. EndToken(s, t, "REVOKED") = e1
      BY <1>0, <1>1 DEF EndToken, WithToken, Snapshot, Token
    <3>2. [e1 EXCEPT !.tokens[t].route_pending = TRUE, !.tokens[t].route = [request |-> q, attempt |-> 0]] = e
      BY ZenonT(60), <1>0, <1>1 DEF WithToken, Snapshot, Token
    <3> QED
      BY <3>1, <3>2
  <2>2. e.tokens[t].revision = a.revision
    BY <1>0 DEF WithToken, Snapshot
  <2> QED
    BY <2>1, <2>2 DEF Deny
<1> HIDE DEF a
<1>4. Good(a, s)
  BY <1>1, <1>2, <1>3 DEF Good
<1>5. /\ Shape(e, m) /\ Frame(e, s) /\ e.receipts = s.receipts /\ e.tombstones = s.tombstones
      /\ Retained(e) = Retained(s) /\ Receipted(e) = Receipted(s) /\ Tombstoned(e) = Tombstoned(s)
      /\ e.tokens[t] = a /\ \A u \in TokenIds \ {t} : e.tokens[u] = s.tokens[u]
  <2>1. m \cup {t} = m /\ Retained(s) \cup {t} = Retained(s)
    BY <1>0
  <2>2. t \in TokenIds \ Tombstoned(s)
    BY <1>0, <1>1
  <2>3. /\ Shape(e, m \cup {t}) /\ Frame(e, s) /\ e.receipts = s.receipts /\ e.tombstones = s.tombstones
        /\ Retained(e) = Retained(s) \cup {t} /\ Receipted(e) = Receipted(s) /\ Tombstoned(e) = Tombstoned(s)
    BY <1>0, <1>3, <1>4, <2>2, WithTokenIs
  <2>4. e.tokens[t] = a /\ \A u \in TokenIds \ {t} : e.tokens[u] = s.tokens[u]
    BY <1>0 DEF WithToken, Snapshot
  <2> QED
    BY <2>1, <2>3, <2>4
<1> HIDE DEF e
<1>6. \A x : Follows(e, s, x)
  <2>1. e \in Snapshot /\ StateOf(e, t) # "PENDING" /\ StateOf(e, t) \in Over
    BY <1>3, <1>5 DEF Shape, StateOf, Over
  <2>2. \A x \in Nat : AdmittedSince(s, t, x) => AdmittedSince(e, t, x)
    BY <1>3, <1>5 DEF AdmittedSince
  <2> QED
    BY <1>0, <1>5, <2>1, <2>2, FollowsToken
<1>7. /\ Shape(n, m) /\ Frame(n, e) /\ n.tokens = e.tokens /\ n.tombstones = e.tombstones
      /\ Retained(n) = Retained(e) /\ Receipted(n) = Receipted(e) /\ Tombstoned(n) = Tombstoned(e)
      /\ \A p \in Receipted(e) :
            /\ n.receipts[p].op = e.receipts[p].op /\ n.receipts[p].token = e.receipts[p].token
            /\ n.receipts[p].outcome = IF Moves(e, p, t, ops, "PENDING") THEN "LOCALLY_REVOKED"
                                       ELSE e.receipts[p].outcome
      /\ \A x : Follows(n, e, x)
  <2>1. a.revision \in 0..e.revision
    BY <1>0, <1>2, <1>3, <1>5, Counters DEF Frame
  <2>2. "LOCALLY_REVOKED" \in Outcomes
    BY DEF Outcomes
  <2> QED
    BY <1>5, <2>1, <2>2, SettleIs
<1> HIDE DEF n
<1>8. /\ Frame(n, s) /\ n.tombstones = s.tombstones
      /\ Retained(n) = Retained(s) /\ Receipted(n) = Receipted(s) /\ Tombstoned(n) = Tombstoned(s)
      /\ n.tokens[t] = a /\ \A u \in TokenIds \ {t} : n.tokens[u] = s.tokens[u]
  BY <1>5, <1>7 DEF Frame
<1>9. \A p \in Receipted(n) : TrueReceipt(n, p)
  <2> SUFFICES ASSUME NEW p \in Receipted(s) PROVE TrueReceipt(n, p)
    BY <1>8
  <2>0. TrueReceipt(s, p) /\ s.receipts[p] \in Receipt
    BY <1>0, Entries
  <2>1. CASE s.receipts[p].token # t
    <3>1. /\ n.receipts[p].op = s.receipts[p].op /\ n.receipts[p].token = s.receipts[p].token
          /\ n.receipts[p].outcome = s.receipts[p].outcome
      BY <1>5, <1>7, <2>1 DEF Moves
    <3>2. n.tokens[s.receipts[p].token] = s.tokens[s.receipts[p].token]
      BY <1>8, <2>0, <2>1 DEF Receipt
    <3> QED
      BY <1>8, <2>0, <3>1, <3>2, StillTrue DEF StateOf
  <2>2. CASE s.receipts[p].token = t
    <3>1. /\ n.receipts[p].op = s.receipts[p].op /\ n.receipts[p].token = t
          /\ n.receipts[p].outcome = IF s.receipts[p].op \in ops /\ s.receipts[p].outcome = "PENDING"
                                     THEN "LOCALLY_REVOKED" ELSE s.receipts[p].outcome
      BY <1>5, <1>7, <2>2 DEF Moves
    <3>2. t \in Retained(n) /\ StateOf(n, t) = "REVOKED" /\ n.tokens[t].route_pending
      BY <1>3, <1>8 DEF StateOf
    <3>3. s.receipts[p].op = "REVOKE" => FALSE
      BY <2>0, <2>2 DEF TrueReceipt
    <3>4. s.receipts[p].op = "REMOVE" => s.receipts[p].outcome \notin {"PENDING", "COMMITTED"}
      BY <2>0, <2>2 DEF TrueReceipt
    <3> QED
      BY <3>1, <3>2, <3>3, <3>4 DEF TrueReceipt
  <2> QED
    BY <2>1, <2>2
<1>10. Follows(n, s, m)
  BY <1>0, <1>5, <1>6, <1>7, FollowsOn DEF Shape
<1> QED
  BY <1>3, <1>7, <1>8, <1>9, <1>10, <1>d DEF Sound, StateOf


\* A tombstone takes the place of a token whose end is confirmed: the removals
\* that waited are done.
LEMMA EraseIs ==
  ASSUME NEW s, NEW m, Shape(s, m), NEW t \in Retained(s), NEW now \in 1..s.clock,
         StateOf(s, t) = "REVOKED", s.tokens[t].route_pending = FALSE,
         Cardinality(Tombstoned(s)) < TombstoneLimit,
         \A q \in Receipted(s) : TrueReceipt(s, q) \/ (s.receipts[q].op = "REMOVE" /\ s.receipts[q].token = t)
  PROVE  LET n == Erase(s, t, now)
         IN  /\ Sound(n, m) /\ Frame(n, s) /\ Retained(n) = Retained(s) \ {t} /\ Receipted(n) = Receipted(s)
             /\ \A x : Follows(n, s, x)
<1> DEFINE e == Settle(s, t, {"REMOVE"}, "PENDING", "COMMITTED", 0)
           k == [e EXCEPT !.tokens = [e.tokens EXCEPT ![t] = NoToken]]
           d == [removed |-> now, revision |-> s.revision]
           n == [k EXCEPT !.tombstones = [k.tombstones EXCEPT ![t] = d]]
<1>0. /\ s \in Snapshot /\ Known(s) \subseteq m /\ Valid(s) /\ t \in TokenIds /\ t \in m
      /\ s.revision \in Nat /\ s.clock \in Nat /\ s.revision \in 1..MaxRevision /\ s.clock \in 0..MaxClock
  BY Entries, Counters DEF Shape, Known
<1>1. /\ Shape(e, m) /\ Frame(e, s) /\ e.tokens = s.tokens /\ e.tombstones = s.tombstones
      /\ Retained(e) = Retained(s) /\ Receipted(e) = Receipted(s) /\ Tombstoned(e) = Tombstoned(s)
      /\ \A q \in Receipted(s) :
            /\ e.receipts[q].op = s.receipts[q].op /\ e.receipts[q].token = s.receipts[q].token
            /\ e.receipts[q].outcome = IF Moves(s, q, t, {"REMOVE"}, "PENDING") THEN "COMMITTED"
                                       ELSE s.receipts[q].outcome
      /\ \A x : Follows(e, s, x)
  <2>1. "COMMITTED" \in Outcomes /\ 0 \in 0..s.revision
    BY <1>0 DEF Outcomes
  <2> QED
    BY <2>1, SettleIs
<1>d. Erase(s, t, now) = n
  <2>1. e \in Snapshot
    BY <1>1 DEF Shape
  <2> HIDE DEF e
  <2>2. [e EXCEPT !.tombstones[t] = d, !.tokens[t] = NoToken] = n
    BY <2>1 DEF Snapshot
  <2> QED
    BY <2>2 DEF Erase, e
<1> HIDE DEF e
<1>2. /\ k \in Snapshot /\ Frame(k, e) /\ k.receipts = e.receipts /\ k.tombstones = e.tombstones
      /\ k.tokens[t] = NoToken /\ \A u \in TokenIds \ {t} : k.tokens[u] = e.tokens[u]
  BY <1>0, <1>1 DEF Shape, Snapshot, Frame
<1> HIDE DEF k
<1>3. Retained(k) = Retained(s) \ {t}
  BY <1>1, <1>2 DEF Retained
<1>4. Shape(k, m) /\ Receipted(k) = Receipted(s) /\ Tombstoned(k) = Tombstoned(s)
  <2>1. Cardinality(Retained(k)) <= TokenLimit
    <3>1. Cardinality(Retained(k)) <= Cardinality(Retained(s)) /\ Cardinality(Retained(s)) <= TokenLimit
      BY <1>0, <1>3, FiniteSets_, FS_Subset DEF Valid
    <3> QED
      BY <3>1, FiniteSets_, LimitAssumption
  <2>2. Retained(k) \subseteq m
    BY <1>0, <1>3 DEF Known
  <2>3. Tombstoned(k) = Tombstoned(e)
    BY <1>2 DEF Tombstoned
  <2>4. \A u \in Retained(k) : ValidToken(k, u)
    BY ZenonT(60), <1>0, <1>1, <1>2, <1>3, <2>3 DEF Shape, Valid, ValidToken, Frame, Retained
  <2> QED
    BY <1>1, <1>2, <2>1, <2>2, <2>4, NewTokens
<1>5. d \in Tombstone
  BY <1>0, LimitAssumption DEF Tombstone
<1>6. /\ n \in Snapshot /\ Frame(n, k) /\ n.receipts = k.receipts /\ n.tokens = k.tokens
      /\ n.tombstones[t] = d /\ \A u \in TokenIds \ {t} : n.tombstones[u] = k.tombstones[u]
  BY <1>0, <1>2, <1>5 DEF Snapshot, Frame
<1>7. d.removed = now /\ d.revision = s.revision
  OBVIOUS
<1> HIDE DEF d, n
<1>8. Tombstoned(n) = Tombstoned(s) \cup {t}
  BY <1>0, <1>4, <1>5, <1>6, Entries DEF Tombstoned
<1>9. Shape(n, m) /\ Retained(n) = Retained(k) /\ Receipted(n) = Receipted(k)
  <2>1. Cardinality(Tombstoned(n)) <= TombstoneLimit
    <3>1. t \notin Tombstoned(s)
      BY <1>0 DEF Valid, ValidToken
    <3>2. Cardinality(Tombstoned(n)) = Cardinality(Tombstoned(s)) + 1
      BY <1>8, <3>1, FiniteSets_, FS_AddElement
    <3> QED
      BY <3>2, FiniteSets_, LimitAssumption
  <2>2. Tombstoned(n) \subseteq m /\ Tombstoned(n) \cap Retained(k) = {}
    BY <1>0, <1>3, <1>8 DEF Known, Valid, ValidToken
  <2>3. n.clock = s.clock /\ n.revision = s.revision
    BY <1>1, <1>2, <1>6 DEF Frame
  <2>4. \A u \in Tombstoned(n) : /\ n.tombstones[u].removed \in 1..n.clock
                                 /\ n.tombstones[u].revision \in 1..n.revision
    <3>1. ASSUME NEW u \in Tombstoned(s), u # t
          PROVE  /\ n.tombstones[u].removed \in 1..n.clock /\ n.tombstones[u].revision \in 1..n.revision
      <4>1. n.tombstones[u] = s.tombstones[u]
        BY <1>1, <1>2, <1>6, <3>1 DEF Tombstoned
      <4> QED
        BY <1>0, <2>3, <4>1 DEF Valid
    <3>2. n.tombstones[t].removed \in 1..n.clock /\ n.tombstones[t].revision \in 1..n.revision
      BY <1>0, <1>6, <1>7, <2>3
    <3> QED
      BY <1>8, <3>1, <3>2
  <2> QED
    BY <1>4, <1>6, <2>1, <2>2, <2>4, NewTombstones
<1>10. /\ Frame(n, s) /\ Retained(n) = Retained(s) \ {t} /\ Receipted(n) = Receipted(s)
       /\ \A u \in Retained(n) : n.tokens[u] = s.tokens[u]
       /\ \A q \in Receipted(s) : n.receipts[q] = e.receipts[q]
  <2>1. \A u \in Retained(n) : n.tokens[u] = s.tokens[u]
    BY <1>1, <1>2, <1>3, <1>6, <1>9 DEF Retained
  <2> QED
    BY <1>1, <1>2, <1>3, <1>4, <1>6, <1>9, <2>1 DEF Frame
<1>11. \A q \in Receipted(n) : TrueReceipt(n, q)
  <2> SUFFICES ASSUME NEW q \in Receipted(s) PROVE TrueReceipt(n, q)
    BY <1>10
  <2>1. CASE s.receipts[q].token # t
    <3>1. /\ n.receipts[q].op = s.receipts[q].op /\ n.receipts[q].token = s.receipts[q].token
          /\ n.receipts[q].outcome = s.receipts[q].outcome
      BY <1>1, <1>10, <2>1 DEF Moves
    <3>2. s.receipts[q].token \in Retained(n) <=> s.receipts[q].token \in Retained(s)
      BY <1>10, <2>1
    <3>3. TrueReceipt(s, q)
      BY <2>1
    <3> QED
      BY <1>10, <3>1, <3>2, <3>3, StillTrue DEF StateOf
  <2>2. CASE s.receipts[q].token = t
    <3>1. /\ n.receipts[q].op = s.receipts[q].op /\ n.receipts[q].token = t
          /\ n.receipts[q].outcome = IF s.receipts[q].op = "REMOVE" /\ s.receipts[q].outcome = "PENDING"
                                     THEN "COMMITTED" ELSE s.receipts[q].outcome
      BY <1>1, <1>10, <2>2 DEF Moves
    <3>2. t \notin Retained(n)
      BY <1>10
    <3>3. s.receipts[q].op = "ISSUE" => s.receipts[q].outcome # "PENDING"
      BY <2>2 DEF TrueReceipt
    <3>4. s.receipts[q].op = "REVOKE" => s.receipts[q].outcome # "LOCALLY_REVOKED"
      BY <2>2 DEF TrueReceipt
    <3>5. n.receipts[q].op = "REMOVE" => n.receipts[q].outcome # "PENDING"
      BY <3>1
    <3> QED
      BY <3>1, <3>2, <3>3, <3>4, <3>5 DEF TrueReceipt
  <2> QED
    BY <2>1, <2>2
<1>12. ASSUME NEW x PROVE Follows(n, s, x)
  <2>1. n.revision >= s.revision
    BY <1>0, <1>10 DEF Frame
  <2>2. \A u \in Retained(n) : \A q \in Requests : IssueOf(s, q, u) => IssueOf(n, q, u)
    BY <1>1, <1>10 DEF IssueOf
  <2>3. \A u \in Retained(n) : /\ StateOf(n, u) = StateOf(s, u) /\ u \in Retained(s)
                               /\ \A y \in Nat : AdmittedSince(s, u, y) => AdmittedSince(n, u, y)
    BY <1>10 DEF StateOf, AdmittedSince
  <2> QED
    BY <2>1, <2>2, <2>3 DEF Follows
<1> QED
  BY <1>9, <1>10, <1>11, <1>12, <1>d DEF Sound


-----------------------------------------------------------------------------
(* The operations: from a sound snapshot each makes a sound one that follows. *)

\* A pending token has one receipt that waits for it, that of its issue; other
\* receipts of it can only be removals that were stopped.
LEMMA PendingReceipts ==
  ASSUME NEW s, NEW m, Sound(s, m), NEW t \in Retained(s), StateOf(s, t) = "PENDING",
         NEW q, IssueOf(s, q, t), NEW p \in Receipted(s), s.receipts[p].token = t, p # q
  PROVE  s.receipts[p].op = "REMOVE" /\ s.receipts[p].outcome = "LOCALLY_REVOKED"
<1>1. /\ s.receipts[p] \in Receipt /\ TrueReceipt(s, p) /\ IssuedOnce(s)
  BY Entries DEF Sound, Shape
<1>2. s.receipts[p].op # "ISSUE"
  BY <1>1 DEF IssuedOnce, IssueOf
<1>3. s.receipts[p].op # "REVOKE"
  BY <1>1 DEF TrueReceipt
<1>4. s.receipts[p].outcome \notin {"PENDING", "COMMITTED"} \/ s.receipts[p].op # "REMOVE"
  BY <1>1 DEF TrueReceipt
<1> QED
  BY <1>1, <1>2, <1>3, <1>4 DEF Receipt, Operations, Outcomes

LEMMA StagedIs ==
  ASSUME NEW s, NEW m, Roomy(s, m), NEW q \in Requests \ Receipted(s), NEW t \in TokenIds \ m,
         NEW expires \in 0..MaxClock, NEW now \in 1..s.clock, expires # 0 => expires > now,
         Cardinality(Retained(s)) < TokenLimit, Cardinality(Receipted(s)) < ReceiptLimit
  PROVE  LET n == Staged(s, q, t, expires, now)
         IN  Sound(n, m \cup {t}) /\ Follows(n, s, m) /\ Frame(n, s) /\ IssueOf(n, q, t)
<1> DEFINE a == [state |-> "PENDING", revision |-> 1, created |-> now, expires |-> expires,
                 route_pending |-> TRUE, route |-> [request |-> q, attempt |-> 1], history |-> <<>>]
           e == WithToken(s, t, a)
           n == NewReceipt(e, q, t, "ISSUE", "PENDING", now)
<1>0. /\ Shape(s, m) /\ s \in Snapshot /\ Known(s) \subseteq m
      /\ \A p \in Receipted(s) : TrueReceipt(s, p)
      /\ s.revision \in 1..MaxRevision /\ s.clock \in 0..MaxClock
  BY Counters DEF Roomy, Sound, Shape
<1>1. t \notin Retained(s) /\ t \in TokenIds \ Tombstoned(s) /\ \A p \in Receipted(s) : s.receipts[p].token # t
  BY <1>0 DEF Known
<1>2. a \in Token
  <2>1. now \in 1..MaxClock /\ 1 \in 1..MaxRevision
    BY <1>0, LimitAssumption
  <2>2. [request |-> q, attempt |-> 1] \in RouteId
    BY DEF RouteId
  <2> QED
    BY <2>1, <2>2 DEF Token, TokenStates
<1>3. Good(a, s)
  BY <1>0, LimitAssumption DEF Good
<1>4. a.state = "PENDING"
  OBVIOUS
<1>d. Staged(s, q, t, expires, now) = n
  <2>1. [s EXCEPT !.tokens[t] = a] = e
    BY <1>0 DEF WithToken, Snapshot
  <2> QED
    BY <2>1 DEF Staged
<1> HIDE DEF a
<1>5. /\ Shape(e, m \cup {t}) /\ Frame(e, s) /\ e.receipts = s.receipts /\ e.tombstones = s.tombstones
      /\ Retained(e) = Retained(s) \cup {t} /\ Receipted(e) = Receipted(s) /\ Tombstoned(e) = Tombstoned(s)
  BY <1>0, <1>1, <1>2, <1>3, WithTokenIs
<1>6. e.tokens[t] = a /\ \A u \in TokenIds \ {t} : e.tokens[u] = s.tokens[u]
  BY <1>0 DEF WithToken, Snapshot
<1> HIDE DEF e
<1>7. /\ Shape(n, m \cup {t}) /\ Frame(n, e) /\ n.tokens = e.tokens
      /\ Retained(n) = Retained(e) /\ Receipted(n) = Receipted(e) \cup {q}
      /\ \A p \in Receipted(e) : n.receipts[p] = e.receipts[p]
      /\ n.receipts[q].op = "ISSUE" /\ n.receipts[q].token = t /\ n.receipts[q].outcome = "PENDING"
  <2>1. q \in Requests \ Receipted(e) /\ t \in Retained(e) /\ now \in 1..e.clock
    BY <1>5 DEF Frame
  <2>2. Cardinality(Receipted(e)) < ReceiptLimit /\ \A p \in Receipted(e) : e.receipts[p].token # t
    BY <1>1, <1>5
  <2>3. "ISSUE" \in Operations /\ "PENDING" \in Outcomes
    BY DEF Operations, Outcomes
  <2> QED
    BY <1>5, <2>1, <2>2, <2>3, NewReceiptIs
<1> HIDE DEF n
<1>8. /\ Frame(n, s) /\ Retained(n) = Retained(s) \cup {t} /\ Receipted(n) = Receipted(s) \cup {q}
      /\ \A p \in Receipted(s) : n.receipts[p] = s.receipts[p]
      /\ \A u \in TokenIds \ {t} : n.tokens[u] = s.tokens[u]
      /\ StateOf(n, t) = "PENDING"
  BY <1>4, <1>5, <1>6, <1>7 DEF Frame, StateOf
<1>9. \A p \in Receipted(n) : TrueReceipt(n, p)
  <2>1. ASSUME NEW p \in Receipted(s) PROVE TrueReceipt(n, p)
    <3>1. s.receipts[p].token # t /\ n.receipts[p] = s.receipts[p] /\ s.receipts[p].token \in TokenIds
      BY <1>0, <1>1, <1>8, Entries DEF Receipt
    <3>2. n.tokens[s.receipts[p].token] = s.tokens[s.receipts[p].token]
      BY <1>8, <3>1
    <3> QED
      BY <1>0, <1>8, <3>1, <3>2, StillTrue DEF StateOf
  <2>2. TrueReceipt(n, q)
    <3>1. /\ n.receipts[q].op = "ISSUE" /\ n.receipts[q].outcome = "PENDING" /\ n.receipts[q].token = t
          /\ t \in Retained(n) /\ StateOf(n, t) = "PENDING"
      BY <1>7, <1>8
    <3> QED
      BY ONLY <3>1 DEF TrueReceipt
  <2> QED
    BY <1>8, <2>1, <2>2
<1>10. Follows(n, s, m)
  <2>1. n.revision >= s.revision
    BY <1>0, <1>8 DEF Frame
  <2>2. \A u \in Retained(n) \cap m : u \in Retained(s) /\ n.tokens[u] = s.tokens[u]
    <3>1. Retained(s) \subseteq TokenIds /\ t \notin m
      BY <1>0, Entries
    <3> QED
      BY <1>8, <3>1
  <2>3. \A u \in Retained(n) \cap m : \A p \in Requests : IssueOf(s, p, u) => IssueOf(n, p, u)
    BY <1>8 DEF IssueOf
  <2> QED
    BY <2>1, <2>2, <2>3 DEF Follows, StateOf, AdmittedSince
<1>11. IssueOf(n, q, t)
  BY <1>7, <1>8 DEF IssueOf
<1> QED
  BY <1>7, <1>8, <1>9, <1>10, <1>11, <1>d DEF Sound

LEMMA RestagedIs ==
  ASSUME NEW s, NEW m, Roomy(s, m), NEW q, NEW t \in Retained(s), StateOf(s, t) = "PENDING", IssueOf(s, q, t),
         NEW new \in TokenIds \ m, NEW attempt \in Nat
  PROVE  LET n == Restaged(s, q, t, new, attempt)
         IN  Sound(n, m \cup {new}) /\ Follows(n, s, m) /\ Frame(n, s) /\ IssueOf(n, q, new)
<1> DEFINE a == [s.tokens[t] EXCEPT !.route = [request |-> q, attempt |-> attempt]]
           r == [s.receipts[q] EXCEPT !.token = new, !.revision = s.revision,
                                      !.token_revision = s.tokens[t].revision]
           e == [s EXCEPT !.tokens = [[s.tokens EXCEPT ![t] = NoToken] EXCEPT ![new] = a]]
           n == [e EXCEPT !.receipts = [e.receipts EXCEPT ![q] = r]]
<1>0. /\ Shape(s, m) /\ Sound(s, m) /\ s \in Snapshot /\ Known(s) \subseteq m /\ Valid(s) /\ IssuedOnce(s)
      /\ \A p \in Receipted(s) : TrueReceipt(s, p)
      /\ s.revision \in 1..MaxRevision /\ s.clock \in 0..MaxClock
  BY Counters DEF Roomy, Sound, Shape
<1>1. /\ new \notin Retained(s) /\ new \notin Tombstoned(s) /\ \A p \in Receipted(s) : s.receipts[p].token # new
      /\ t \in TokenIds /\ t # new /\ t \in m /\ q \in Receipted(s) /\ q \in Requests
      /\ s.receipts[q].token = t /\ s.receipts[q].op = "ISSUE"
  BY <1>0, Entries DEF Known, IssueOf
<1>2. /\ s.tokens[t] \in Token /\ s.receipts[q] \in Receipt /\ Good(s.tokens[t], s)
      /\ ValidReceipt(s, q)
  BY <1>0, <1>1, Entries, GoodIsValid DEF Valid
<1>3. /\ a \in Token /\ Good(a, s) /\ a.state = "PENDING"
  <2>1. [request |-> q, attempt |-> attempt] \in RouteId
    BY <1>1 DEF RouteId
  <2>2. /\ a \in Token /\ a.state = s.tokens[t].state /\ a.revision = s.tokens[t].revision
        /\ a.created = s.tokens[t].created /\ a.expires = s.tokens[t].expires
        /\ a.route_pending = s.tokens[t].route_pending /\ a.history = s.tokens[t].history
    BY <1>2, <2>1 DEF Token
  <2> HIDE DEF a
  <2> QED
    BY <1>2, <2>2 DEF Good, StateOf
<1>4. /\ r \in Receipt /\ r.op = "ISSUE" /\ r.token = new /\ r.outcome = "PENDING"
      /\ r.revision = s.revision /\ r.token_revision \in 1..s.revision /\ r.created \in 1..s.clock
  <2>1. s.receipts[q].outcome = "PENDING"
    BY <1>0, <1>1 DEF TrueReceipt
  <2>2. s.tokens[t].revision \in 1..s.revision /\ s.tokens[t].revision \in 1..MaxRevision
    BY <1>2 DEF Good, Token
  <2>3. s.receipts[q].created \in 1..s.clock
    BY <1>2 DEF ValidReceipt
  <2> QED
    BY <1>0, <1>1, <1>2, <2>1, <2>2, <2>3 DEF Receipt
<1>d. Restaged(s, q, t, new, attempt) = n
  <2> HIDE DEF a, r
  <2>1. [s EXCEPT !.tokens[t] = NoToken, !.tokens[new] = a, !.receipts[q] = r] = n
    BY <1>0 DEF Snapshot
  <2> QED
    BY <2>1 DEF Restaged, a, r
<1> HIDE DEF a, r
<1>5. /\ e \in Snapshot /\ Frame(e, s) /\ e.receipts = s.receipts /\ e.tombstones = s.tombstones
      /\ e.tokens[t] = NoToken /\ e.tokens[new] = a
      /\ \A u \in TokenIds \ {t, new} : e.tokens[u] = s.tokens[u]
  BY <1>0, <1>1, <1>3 DEF Snapshot, Frame
<1> HIDE DEF e
<1>6. Retained(e) = (Retained(s) \ {t}) \cup {new}
  BY <1>1, <1>3, <1>5, Entries DEF Retained
<1>7. Shape(e, m \cup {new}) /\ Receipted(e) = Receipted(s) /\ Tombstoned(e) = Tombstoned(s)
  <2>1. Cardinality(Retained(e)) <= TokenLimit
    <3>1. IsFiniteSet(Retained(s) \ {t}) /\ Cardinality(Retained(s) \ {t}) = Cardinality(Retained(s)) - 1
      BY FiniteSets_, FS_RemoveElement
    <3>2. Cardinality(Retained(e)) = Cardinality(Retained(s) \ {t}) + 1
      BY ZenonT(60), <1>1, <1>6, <3>1, FS_AddElement
    <3>3. Cardinality(Retained(s)) <= TokenLimit
      BY <1>0 DEF Valid
    <3> QED
      BY <3>1, <3>2, <3>3, FiniteSets_, LimitAssumption
  <2>2. Retained(e) \subseteq m \cup {new}
    BY <1>0, <1>6 DEF Known
  <2>3. Tombstoned(e) = Tombstoned(s)
    BY <1>5 DEF Tombstoned
  <2>4. \A u \in Retained(e) : ValidToken(e, u)
    <3>1. ASSUME NEW u \in Retained(s), u # t, u # new PROVE ValidToken(e, u)
      BY <1>0, <1>5, <2>3, <3>1 DEF Valid, ValidToken, Frame, Retained
    <3>2. ValidToken(e, new)
      BY <1>1, <1>3, <1>5, <2>3 DEF ValidToken, Good, Frame
    <3> QED
      BY <1>1, <1>6, <3>1, <3>2
  <2> QED
    BY <1>0, <1>5, <2>1, <2>2, <2>4, NewTokens
<1>8. /\ n \in Snapshot /\ Frame(n, e) /\ n.tokens = e.tokens /\ n.tombstones = e.tombstones
      /\ n.receipts[q] = r /\ \A p \in Requests \ {q} : n.receipts[p] = e.receipts[p]
  BY <1>1, <1>4, <1>5 DEF Snapshot, Frame
<1> HIDE DEF n
<1>9. Receipted(n) = Receipted(s)
  BY <1>1, <1>4, <1>5, <1>8, Entries DEF Receipted
<1>10. \A p \in Receipted(s) : p # q => n.receipts[p] = s.receipts[p]
  BY <1>5, <1>8 DEF Receipted
<1>11. Shape(n, m \cup {new}) /\ Retained(n) = Retained(e)
  <2>1. Cardinality(Receipted(n)) <= ReceiptLimit
    BY <1>0, <1>9 DEF Valid
  <2>2. IssuedOnce(n)
    <3> SUFFICES ASSUME NEW x \in Receipted(n), NEW y \in Receipted(n),
                        n.receipts[x].op = "ISSUE", n.receipts[y].op = "ISSUE",
                        n.receipts[x].token = n.receipts[y].token
                 PROVE  x = y
      BY DEF IssuedOnce
    <3>1. CASE x # q /\ y # q
      BY <1>0, <1>9, <1>10, <3>1 DEF IssuedOnce
    <3>2. CASE x = q /\ y # q
      BY <1>1, <1>4, <1>8, <1>9, <1>10, <3>2
    <3>3. CASE y = q /\ x # q
      BY <1>1, <1>4, <1>8, <1>9, <1>10, <3>3
    <3> QED
      BY <3>1, <3>2, <3>3
  <2>3. \A p \in Receipted(n) : ValidReceipt(n, p) /\ n.receipts[p].token \in m \cup {new}
    <3>0. n.revision = s.revision /\ n.clock = s.clock /\ s.revision \in 1..s.revision
      BY <1>0, <1>5, <1>8 DEF Frame
    <3>1. ASSUME NEW p \in Receipted(s), p # q PROVE ValidReceipt(n, p) /\ n.receipts[p].token \in m
      BY <1>0, <1>10, <3>0, <3>1 DEF Valid, ValidReceipt, Known
    <3>2. ValidReceipt(n, q) /\ n.receipts[q].token = new
      BY <1>4, <1>8, <3>0 DEF ValidReceipt
    <3> QED
      BY <1>9, <3>1, <3>2
  <2> QED
    BY <1>7, <1>8, <2>1, <2>2, <2>3, NewReceipts
<1>12. \A p \in Receipted(n) : TrueReceipt(n, p)
  <2>0. StateOf(n, new) = "PENDING" /\ new \in Retained(n) /\ t \notin Retained(n)
    BY <1>1, <1>3, <1>5, <1>6, <1>8, <1>11 DEF StateOf
  <2>1. TrueReceipt(n, q)
    BY <1>4, <1>8, <2>0 DEF TrueReceipt
  <2>2. ASSUME NEW p \in Receipted(s), p # q, s.receipts[p].token # t PROVE TrueReceipt(n, p)
    <3>1. s.receipts[p].token \in TokenIds \ {t, new} /\ n.receipts[p] = s.receipts[p]
      BY <1>0, <1>1, <1>10, <2>2, Entries DEF Receipt
    <3>2. n.tokens[s.receipts[p].token] = s.tokens[s.receipts[p].token]
      BY <1>5, <1>8, <3>1
    <3>3. s.receipts[p].token \in Retained(n) <=> s.receipts[p].token \in Retained(s)
      BY <1>6, <1>11, <3>1
    <3> QED
      BY <1>0, <3>1, <3>2, <3>3, StillTrue DEF StateOf
  <2>3. ASSUME NEW p \in Receipted(s), p # q, s.receipts[p].token = t PROVE TrueReceipt(n, p)
    <3>1. s.receipts[p].op = "REMOVE" /\ s.receipts[p].outcome = "LOCALLY_REVOKED"
      BY <1>0, <2>3, PendingReceipts
    <3> QED
      BY <1>10, <2>3, <3>1 DEF TrueReceipt
  <2> QED
    BY <1>9, <2>1, <2>2, <2>3
<1>13. Follows(n, s, m)
  <2>1. n.revision >= s.revision
    BY <1>0, <1>5, <1>8 DEF Frame
  <2>2. \A u \in Retained(n) \cap m : u \in Retained(s) /\ u # t /\ n.tokens[u] = s.tokens[u]
    BY <1>1, <1>5, <1>6, <1>8, <1>11 DEF Retained
  <2>3. \A u \in Retained(n) \cap m : \A p \in Requests : IssueOf(s, p, u) => IssueOf(n, p, u)
    BY <1>1, <1>9, <1>10, <2>2 DEF IssueOf
  <2> QED
    BY <2>1, <2>2, <2>3 DEF Follows, StateOf, AdmittedSince
<1>14. IssueOf(n, q, new)
  BY <1>1, <1>4, <1>8, <1>9 DEF IssueOf
<1> QED
  BY <1>5, <1>8, <1>11, <1>12, <1>13, <1>14, <1>d DEF Sound, Frame


LEMMA ActivatedIs ==
  ASSUME NEW s, NEW m, Sound(s, m), NEW q, NEW t \in Retained(s), StateOf(s, t) = "PENDING", IssueOf(s, q, t)
  PROVE  LET n == Activated(s, q, t)
         IN  Sound(n, m) /\ Follows(n, s, m) /\ Frame(n, s)
<1> DEFINE a == [s.tokens[t] EXCEPT !.state = "ACTIVE", !.route_pending = FALSE]
           r == [s.receipts[q] EXCEPT !.outcome = "COMMITTED", !.revision = s.revision]
           e == WithToken(s, t, a)
           n == [e EXCEPT !.receipts = [e.receipts EXCEPT ![q] = r]]
<1>0. /\ Shape(s, m) /\ s \in Snapshot /\ Known(s) \subseteq m /\ Valid(s) /\ IssuedOnce(s)
      /\ s.revision \in 1..MaxRevision /\ s.clock \in 0..MaxClock
      /\ \A p \in Receipted(s) : TrueReceipt(s, p)
  BY Counters DEF Sound, Shape
<1>1. /\ t \in TokenIds /\ t \in m /\ q \in Receipted(s) /\ q \in Requests
      /\ s.receipts[q].token = t /\ s.receipts[q].op = "ISSUE"
  BY <1>0, Entries DEF Known, IssueOf
<1>2. /\ s.tokens[t] \in Token /\ s.receipts[q] \in Receipt /\ Good(s.tokens[t], s) /\ t \notin Tombstoned(s)
      /\ ValidReceipt(s, q)
  BY <1>0, <1>1, Entries, GoodIsValid DEF Valid
<1>3. a \in Token /\ Good(a, s) /\ a.state = "ACTIVE" /\ a.history = s.tokens[t].history
  <2>1. /\ a \in Token /\ a.state = "ACTIVE" /\ a.revision = s.tokens[t].revision
        /\ a.created = s.tokens[t].created /\ a.expires = s.tokens[t].expires
        /\ a.history = s.tokens[t].history
    BY <1>2 DEF Token, TokenStates
  <2> HIDE DEF a
  <2> QED
    BY <1>2, <2>1 DEF Good
<1>4. /\ r \in Receipt /\ r.op = "ISSUE" /\ r.token = t /\ r.outcome = "COMMITTED"
      /\ r.revision = s.revision /\ r.token_revision \in 1..s.revision /\ r.created \in 1..s.clock
  <2>1. /\ r \in Receipt /\ r.op = "ISSUE" /\ r.token = t /\ r.outcome = "COMMITTED"
        /\ r.revision = s.revision /\ r.token_revision = s.receipts[q].token_revision
        /\ r.created = s.receipts[q].created
    BY <1>0, <1>1, <1>2 DEF Receipt, Outcomes
  <2>2. s.receipts[q].created \in 1..s.clock /\ s.receipts[q].token_revision \in 1..s.revision
    BY <1>0, <1>2 DEF ValidReceipt
  <2> QED
    BY <2>1, <2>2
<1>d. Activated(s, q, t) = n
  <2>1. [s EXCEPT !.tokens[t].state = "ACTIVE", !.tokens[t].route_pending = FALSE] = e
    BY ZenonT(60), <1>0, <1>1, <1>2 DEF WithToken, Snapshot, Token
  <2>2. e \in Snapshot /\ e.receipts = s.receipts /\ e.revision = s.revision
    BY <1>0, <1>1, <1>3 DEF WithToken, Snapshot
  <2>3. Activated(s, q, t) = [[s EXCEPT !.tokens[t].state = "ACTIVE", !.tokens[t].route_pending = FALSE]
                               EXCEPT !.receipts[q].outcome = "COMMITTED", !.receipts[q].revision = s.revision]
    BY <1>0 DEF Activated, Snapshot
  <2> HIDE DEF a, e
  <2>4. [e EXCEPT !.receipts[q].outcome = "COMMITTED", !.receipts[q].revision = s.revision] = n
    BY <1>1, <1>2, <2>2 DEF Snapshot, Receipt
  <2> QED
    BY <2>1, <2>3, <2>4
<1> HIDE DEF a, r
<1>5. /\ Shape(e, m) /\ Frame(e, s) /\ e.receipts = s.receipts /\ e.tombstones = s.tombstones
      /\ Retained(e) = Retained(s) /\ Receipted(e) = Receipted(s) /\ Tombstoned(e) = Tombstoned(s)
      /\ e.tokens[t] = a /\ \A u \in TokenIds \ {t} : e.tokens[u] = s.tokens[u]
  <2>1. m \cup {t} = m /\ Retained(s) \cup {t} = Retained(s)
    BY <1>1
  <2>2. t \in TokenIds \ Tombstoned(s)
    BY <1>1, <1>2
  <2>3. /\ Shape(e, m \cup {t}) /\ Frame(e, s) /\ e.receipts = s.receipts /\ e.tombstones = s.tombstones
        /\ Retained(e) = Retained(s) \cup {t} /\ Receipted(e) = Receipted(s) /\ Tombstoned(e) = Tombstoned(s)
    BY <1>0, <1>3, <2>2, WithTokenIs
  <2>4. e.tokens[t] = a /\ \A u \in TokenIds \ {t} : e.tokens[u] = s.tokens[u]
    BY <1>0, <1>1 DEF WithToken, Snapshot
  <2> QED
    BY <2>1, <2>3, <2>4
<1> HIDE DEF e
<1>6. /\ n \in Snapshot /\ Frame(n, e) /\ n.tokens = e.tokens /\ n.tombstones = e.tombstones
      /\ n.receipts[q] = r /\ \A p \in Requests \ {q} : n.receipts[p] = e.receipts[p]
  BY <1>1, <1>4, <1>5 DEF Shape, Snapshot, Frame
<1> HIDE DEF n
<1>7. Receipted(n) = Receipted(s) /\ \A p \in Receipted(s) : p # q => n.receipts[p] = s.receipts[p]
  BY <1>1, <1>4, <1>5, <1>6, Entries DEF Receipted
<1>8. Shape(n, m) /\ Retained(n) = Retained(e)
  <2>1. Cardinality(Receipted(n)) <= ReceiptLimit
    BY <1>0, <1>7 DEF Valid
  <2>2. IssuedOnce(n)
    BY <1>0, <1>1, <1>4, <1>6, <1>7 DEF IssuedOnce
  <2>3. \A p \in Receipted(n) : ValidReceipt(n, p) /\ n.receipts[p].token \in m
    <3>0. n.revision = s.revision /\ n.clock = s.clock /\ s.revision \in 1..s.revision
      BY <1>0, <1>5, <1>6 DEF Frame
    <3>1. ASSUME NEW p \in Receipted(s), p # q PROVE ValidReceipt(n, p) /\ n.receipts[p].token \in m
      BY <1>0, <1>7, <3>0, <3>1 DEF Valid, ValidReceipt, Known
    <3>2. ValidReceipt(n, q) /\ n.receipts[q].token \in m
      BY <1>1, <1>4, <1>6, <3>0 DEF ValidReceipt
    <3> QED
      BY <1>7, <3>1, <3>2
  <2> QED
    BY <1>5, <1>6, <2>1, <2>2, <2>3, NewReceipts
<1>9. /\ Frame(n, s) /\ Retained(n) = Retained(s) /\ StateOf(n, t) = "ACTIVE"
      /\ \A u \in TokenIds \ {t} : n.tokens[u] = s.tokens[u]
  BY <1>3, <1>5, <1>6, <1>8 DEF Frame, StateOf
<1>10. \A p \in Receipted(n) : TrueReceipt(n, p)
  <2>1. TrueReceipt(n, q)
    BY <1>4, <1>6, <1>9 DEF TrueReceipt
  <2>2. ASSUME NEW p \in Receipted(s), p # q, s.receipts[p].token # t PROVE TrueReceipt(n, p)
    <3>1. s.receipts[p].token \in TokenIds \ {t} /\ n.receipts[p] = s.receipts[p]
      BY <1>0, <1>7, <2>2, Entries DEF Receipt
    <3>2. n.tokens[s.receipts[p].token] = s.tokens[s.receipts[p].token]
      BY <1>9, <3>1
    <3> QED
      BY <1>0, <1>9, <3>1, <3>2, StillTrue DEF StateOf
  <2>3. ASSUME NEW p \in Receipted(s), p # q, s.receipts[p].token = t PROVE TrueReceipt(n, p)
    <3>1. s.receipts[p].op = "REMOVE" /\ s.receipts[p].outcome = "LOCALLY_REVOKED"
      BY <2>3, PendingReceipts
    <3> QED
      BY <1>7, <2>3, <3>1 DEF TrueReceipt
  <2> QED
    BY <1>7, <2>1, <2>2, <2>3
<1>11. Follows(n, s, m)
  <2>1. n.revision >= s.revision
    BY <1>0, <1>9 DEF Frame
  <2>2. ASSUME NEW u \in Retained(n), u # t PROVE n.tokens[u] = s.tokens[u] /\ u \in Retained(s)
    BY <1>0, <1>9, <2>2, Entries
  <2>3. \A u \in Retained(n) : \A p \in Requests : IssueOf(s, p, u) => IssueOf(n, p, u)
    BY <1>1, <1>4, <1>6, <1>7 DEF IssueOf
  <2>4. \A x \in Nat : AdmittedSince(s, t, x) => AdmittedSince(n, t, x)
    BY <1>3, <1>5, <1>6 DEF AdmittedSince
  <2>5. ASSUME NEW u \in Retained(n), u # t
        PROVE  StateOf(n, u) = StateOf(s, u) /\ \A x \in Nat : AdmittedSince(s, u, x) => AdmittedSince(n, u, x)
    BY <2>2, <2>5 DEF StateOf, AdmittedSince
  <2>6. StateOf(s, t) \notin Over
    BY DEF Over
  <2> QED
    BY <1>9, <2>1, <2>2, <2>3, <2>4, <2>5, <2>6 DEF Follows
<1> QED
  BY <1>8, <1>9, <1>10, <1>11, <1>d DEF Sound

LEMMA RevokedIs ==
  ASSUME NEW s, NEW m, Roomy(s, m), NEW q \in Requests \ Receipted(s), NEW t \in Retained(s),
         NEW now \in 1..s.clock, Cardinality(Receipted(s)) < ReceiptLimit
  PROVE  LET n == Revoked(s, q, t, now)
         IN  Sound(n, m) /\ Follows(n, s, m) /\ Frame(n, s) /\ StateOf(n, t) = "REVOKED"
<1> DEFINE d == IF StateOf(s, t) = "REVOKED" THEN s ELSE Deny(s, t, q, Operations)
           outcome == IF d.tokens[t].route_pending THEN "LOCALLY_REVOKED" ELSE "COMMITTED"
           n == NewReceipt(d, q, t, "REVOKE", outcome, now)
<1>d. Revoked(s, q, t, now) = n
  BY DEF Revoked
<1>0. Sound(s, m) /\ s \in Snapshot /\ t \in TokenIds
  BY Entries DEF Roomy, Sound, Shape
<1>1. /\ Sound(d, m) /\ Follows(d, s, m) /\ Frame(d, s)
      /\ Retained(d) = Retained(s) /\ Receipted(d) = Receipted(s) /\ StateOf(d, t) = "REVOKED"
  <2>1. CASE StateOf(s, t) = "REVOKED"
    <3>1. Same(s, s) /\ s.revision >= s.revision /\ s.sequence >= s.revision /\ s.clock >= s.clock
      BY <1>0, Counters DEF Same, Sound, Shape, Valid
    <3>2. Follows(s, s, m)
      BY <1>0, <3>1, Grown
    <3> QED
      BY <1>0, <2>1, <3>2 DEF Frame
  <2>2. CASE StateOf(s, t) # "REVOKED"
    <3>1. "ISSUE" \in Operations
      BY DEF Operations
    <3> HIDE DEF d
    <3>2. d = Deny(s, t, q, Operations)
      BY <2>2 DEF d
    <3> QED
      BY <2>2, <3>1, <3>2, DenyIs
  <2> QED
    BY <2>1, <2>2
<1> HIDE DEF d
<1>2. outcome \in Outcomes /\ (outcome = "LOCALLY_REVOKED" <=> d.tokens[t].route_pending)
  BY DEF Outcomes
<1> HIDE DEF outcome
<1>3. /\ Shape(n, m) /\ Frame(n, d) /\ n.tokens = d.tokens /\ Retained(n) = Retained(d)
      /\ Receipted(n) = Receipted(d) \cup {q}
      /\ \A p \in Receipted(d) : n.receipts[p] = d.receipts[p]
      /\ n.receipts[q].op = "REVOKE" /\ n.receipts[q].token = t /\ n.receipts[q].outcome = outcome
      /\ Follows(n, d, m)
  <2>1. /\ Shape(d, m) /\ q \in Requests \ Receipted(d) /\ t \in Retained(d) /\ now \in 1..d.clock
        /\ Cardinality(Receipted(d)) < ReceiptLimit
    BY <1>1 DEF Sound, Frame
  <2>2. "REVOKE" \in Operations /\ "REVOKE" # "ISSUE"
    BY DEF Operations
  <2> QED
    BY <1>2, <2>1, <2>2, NewReceiptIs
<1> HIDE DEF n
<1>4. \A p \in Receipted(n) : TrueReceipt(n, p)
  <2>1. ASSUME NEW p \in Receipted(d) PROVE TrueReceipt(n, p)
    BY <1>1, <1>3, StillTrue DEF Sound, StateOf
  <2>2. TrueReceipt(n, q)
    <3>1. StateOf(n, t) = "REVOKED" /\ t \in Retained(n) /\ n.tokens[t] = d.tokens[t]
      BY <1>1, <1>3 DEF StateOf
    <3> QED
      BY <1>2, <1>3, <3>1 DEF TrueReceipt
  <2> QED
    BY <1>3, <2>1, <2>2
<1>5. Sound(n, m) /\ Frame(n, s) /\ StateOf(n, t) = "REVOKED"
  BY <1>1, <1>3, <1>4 DEF Sound, Frame, StateOf
<1>6. Follows(n, s, m)
  BY <1>0, <1>1, <1>3, FollowsOn DEF Sound, Shape
<1> QED
  BY <1>5, <1>6, <1>d

LEMMA RemovedIs ==
  ASSUME NEW s, NEW m, Roomy(s, m), NEW q \in Requests \ Receipted(s), NEW t \in Retained(s),
         NEW now \in 1..s.clock, Cardinality(Receipted(s)) < ReceiptLimit,
         \/ StateOf(s, t) # "REVOKED" \/ s.tokens[t].route_pending
         \/ Cardinality(Tombstoned(s)) < TombstoneLimit
  PROVE  LET n == Removed(s, q, t, now)
         IN  Sound(n, m) /\ Follows(n, s, m) /\ Frame(n, s) /\ (t \in Retained(n) => StateOf(n, t) = "REVOKED")
<1> DEFINE d == IF StateOf(s, t) = "REVOKED" THEN s ELSE Deny(s, t, q, {"ISSUE"})
           w == NewReceipt(d, q, t, "REMOVE", "PENDING", now)
           c == NewReceipt(d, q, t, "REMOVE", "COMMITTED", now)
           n == IF d.tokens[t].route_pending THEN w ELSE Erase(c, t, now)
<1>d. Removed(s, q, t, now) = n
  BY DEF Removed
<1>0. Sound(s, m) /\ s \in Snapshot /\ t \in TokenIds
  BY Entries DEF Roomy, Sound, Shape
<1>1. /\ Sound(d, m) /\ Follows(d, s, m) /\ Frame(d, s)
      /\ Retained(d) = Retained(s) /\ Receipted(d) = Receipted(s) /\ Tombstoned(d) = Tombstoned(s)
      /\ StateOf(d, t) = "REVOKED"
      /\ d.tokens[t].route_pending \/ Cardinality(Tombstoned(d)) < TombstoneLimit
  <2>1. CASE StateOf(s, t) = "REVOKED"
    <3>1. Same(s, s) /\ s.revision >= s.revision /\ s.sequence >= s.revision /\ s.clock >= s.clock
      BY <1>0, Counters DEF Same, Sound, Shape, Valid
    <3>2. Follows(s, s, m)
      BY <1>0, <3>1, Grown
    <3> QED
      BY <1>0, <2>1, <3>2 DEF Frame
  <2>2. CASE StateOf(s, t) # "REVOKED"
    <3> HIDE DEF d
    <3>2. d = Deny(s, t, q, {"ISSUE"})
      BY <2>2 DEF d
    <3>3. /\ Sound(d, m) /\ Follows(d, s, m) /\ Frame(d, s) /\ d.tombstones = s.tombstones
          /\ Retained(d) = Retained(s) /\ Receipted(d) = Receipted(s) /\ Tombstoned(d) = Tombstoned(s)
          /\ StateOf(d, t) = "REVOKED" /\ d.tokens[t].route_pending
      BY <2>2, <3>2, DenyIs
    <3> QED
      BY <3>3
  <2> QED
    BY <2>1, <2>2
<1> HIDE DEF d
<1>2. /\ Shape(d, m) /\ q \in Requests \ Receipted(d) /\ t \in Retained(d) /\ now \in 1..d.clock
      /\ Cardinality(Receipted(d)) < ReceiptLimit
      /\ "REMOVE" \in Operations /\ "REMOVE" # "ISSUE" /\ "PENDING" \in Outcomes /\ "COMMITTED" \in Outcomes
  BY <1>1 DEF Sound, Frame, Operations, Outcomes
<1>3. ASSUME NEW outcome \in Outcomes, NEW k, k = NewReceipt(d, q, t, "REMOVE", outcome, now)
      PROVE  /\ Shape(k, m) /\ Frame(k, d) /\ k.tokens = d.tokens /\ Retained(k) = Retained(d)
             /\ Receipted(k) = Receipted(d) \cup {q} /\ Tombstoned(k) = Tombstoned(d)
             /\ k.receipts[q].op = "REMOVE" /\ k.receipts[q].token = t /\ k.receipts[q].outcome = outcome
             /\ Follows(k, d, m) /\ StateOf(k, t) = "REVOKED"
             /\ \A p \in Receipted(d) : TrueReceipt(k, p)
  <2>1. /\ Shape(k, m) /\ Frame(k, d) /\ k.tokens = d.tokens /\ Retained(k) = Retained(d)
        /\ Receipted(k) = Receipted(d) \cup {q} /\ Tombstoned(k) = Tombstoned(d)
        /\ \A p \in Receipted(d) : k.receipts[p] = d.receipts[p]
        /\ k.receipts[q].op = "REMOVE" /\ k.receipts[q].token = t /\ k.receipts[q].outcome = outcome
        /\ Follows(k, d, m)
    BY <1>2, <1>3, NewReceiptIs
  <2>2. ASSUME NEW p \in Receipted(d) PROVE TrueReceipt(k, p)
    BY <1>1, <2>1, StillTrue DEF Sound, StateOf
  <2> QED
    BY <1>1, <2>1, <2>2 DEF StateOf
<1>4. CASE d.tokens[t].route_pending
  <2>1. n = w
    BY <1>4
  <2> HIDE DEF w, n
  <2>2. /\ Shape(n, m) /\ Frame(n, d) /\ Retained(n) = Retained(d) /\ Receipted(n) = Receipted(d) \cup {q}
        /\ n.receipts[q].op = "REMOVE" /\ n.receipts[q].token = t /\ n.receipts[q].outcome = "PENDING"
        /\ Follows(n, d, m) /\ StateOf(n, t) = "REVOKED"
        /\ \A p \in Receipted(d) : TrueReceipt(n, p)
    BY <1>2, <1>3, <2>1 DEF w
  <2>3. TrueReceipt(n, q)
    BY <1>2, <2>2 DEF TrueReceipt
  <2>4. Sound(n, m) /\ Frame(n, s)
    BY <1>1, <2>2, <2>3 DEF Sound, Frame
  <2>5. Follows(n, s, m)
    BY <1>0, <1>1, <2>2, FollowsOn DEF Sound, Shape
  <2> QED
    BY <2>2, <2>4, <2>5, <1>d
<1>5. CASE ~d.tokens[t].route_pending
  <2>1. n = Erase(c, t, now)
    BY <1>5
  <2> HIDE DEF c, n
  <2>2. /\ Shape(c, m) /\ Frame(c, d) /\ c.tokens = d.tokens /\ Retained(c) = Retained(d)
        /\ Receipted(c) = Receipted(d) \cup {q} /\ Tombstoned(c) = Tombstoned(d)
        /\ c.receipts[q].op = "REMOVE" /\ c.receipts[q].token = t
        /\ Follows(c, d, m) /\ StateOf(c, t) = "REVOKED"
        /\ \A p \in Receipted(d) : TrueReceipt(c, p)
    BY <1>2, <1>3 DEF c
  <2>3. /\ t \in Retained(c) /\ now \in 1..c.clock /\ Cardinality(Tombstoned(c)) < TombstoneLimit
        /\ \A p \in Receipted(c) : TrueReceipt(c, p) \/ (c.receipts[p].op = "REMOVE" /\ c.receipts[p].token = t)
    BY <1>1, <1>2, <1>5, <2>2 DEF Frame
  <2>4. c.tokens[t].route_pending = FALSE
    <3>1. c.tokens[t] \in Token
      BY <2>2, <2>3, Entries DEF Shape
    <3> QED
      BY <1>5, <2>2, <3>1 DEF Token
  <2>5. Sound(n, m) /\ Frame(n, c) /\ Retained(n) = Retained(c) \ {t} /\ Follows(n, c, m)
    BY ZenonT(60), <2>1, <2>2, <2>3, <2>4, EraseIs
  <2>6. Follows(n, s, m)
    <3>1. Follows(n, d, m)
      BY <1>1, <2>2, <2>5, FollowsOn DEF Sound, Shape
    <3> QED
      BY <1>0, <1>1, <2>5, <3>1, FollowsOn DEF Sound, Shape
  <2> QED
    BY <1>1, <2>2, <2>5, <2>6, <1>d DEF Frame
<1> QED
  BY <1>4, <1>5


LEMMA AcknowledgedIs ==
  ASSUME NEW s, NEW m, Roomy(s, m), NEW t \in Retained(s), StateOf(s, t) = "REVOKED",
         s.tokens[t].route_pending, NEW now \in 1..s.clock
  PROVE  LET n == Acknowledged(s, t, now)
         IN  Sound(n, m) /\ Follows(n, s, m) /\ Frame(n, s)
<1> DEFINE a == [s.tokens[t] EXCEPT !.route_pending = FALSE]
           d == WithToken(s, t, a)
           f == Settle(d, t, {"REVOKE"}, "LOCALLY_REVOKED", "COMMITTED", 0)
           e == Settle(f, t, {"ISSUE", "REMOVE"}, "LOCALLY_REVOKED", "LOCALLY_REVOKED", 0)
           p == Prune(e, now)
           n == IF ~Waiting(e, t) THEN e
                ELSE IF Cardinality(Tombstoned(p)) < TombstoneLimit THEN Erase(p, t, now) ELSE p
<1>0. /\ Shape(s, m) /\ s \in Snapshot /\ Known(s) \subseteq m /\ Valid(s)
      /\ \A q \in Receipted(s) : TrueReceipt(s, q)
      /\ t \in TokenIds /\ t \in m
      /\ \A u \in Retained(s) : s.tokens[u].revision < s.revision
      /\ "COMMITTED" \in Outcomes /\ "LOCALLY_REVOKED" \in Outcomes
  BY Entries DEF Roomy, Sound, Shape, Known, Outcomes
<1>1. s.tokens[t] \in Token /\ Good(s.tokens[t], s) /\ t \in TokenIds \ Tombstoned(s)
  BY <1>0, Entries, GoodIsValid DEF Valid
<1>2. /\ a \in Token /\ a.state = "REVOKED" /\ a.route_pending = FALSE
      /\ a.revision = s.tokens[t].revision /\ a.history = s.tokens[t].history /\ Good(a, s)
  <2>1. /\ a \in Token /\ a.state = "REVOKED" /\ a.revision = s.tokens[t].revision /\ a.route_pending = FALSE
        /\ a.created = s.tokens[t].created /\ a.expires = s.tokens[t].expires
        /\ a.history = s.tokens[t].history
    BY <1>1 DEF Token, StateOf
  <2> HIDE DEF a
  <2> QED
    BY <1>1, <2>1 DEF Good
<1>d. Acknowledged(s, t, now) = n
  <2>1. [s EXCEPT !.tokens[t].route_pending = FALSE] = d
    BY <1>0, <1>1 DEF WithToken, Snapshot, Token
  <2> QED
    BY <2>1 DEF Acknowledged
<1> HIDE DEF a
<1>3. /\ Shape(d, m) /\ Frame(d, s) /\ d.receipts = s.receipts
      /\ Retained(d) = Retained(s) /\ Receipted(d) = Receipted(s)
      /\ d.tokens[t] = a /\ \A u \in TokenIds \ {t} : d.tokens[u] = s.tokens[u]
  <2>1. m \cup {t} = m /\ Retained(s) \cup {t} = Retained(s)
    BY <1>0
  <2>2. /\ Shape(d, m \cup {t}) /\ Frame(d, s) /\ d.receipts = s.receipts
        /\ Retained(d) = Retained(s) \cup {t} /\ Receipted(d) = Receipted(s)
    BY <1>0, <1>1, <1>2, WithTokenIs
  <2>3. d.tokens[t] = a /\ \A u \in TokenIds \ {t} : d.tokens[u] = s.tokens[u]
    BY <1>0 DEF WithToken, Snapshot
  <2> QED
    BY <2>1, <2>2, <2>3
<1> HIDE DEF d
<1>4. Follows(d, s, m)
  <2>1. d \in Snapshot /\ StateOf(d, t) # "PENDING" /\ StateOf(d, t) \in Over
    BY <1>2, <1>3 DEF Shape, StateOf, Over
  <2>2. \A x \in Nat : AdmittedSince(s, t, x) => AdmittedSince(d, t, x)
    BY <1>2, <1>3 DEF AdmittedSince
  <2> QED
    BY <1>0, <1>3, <2>1, <2>2, FollowsToken
<1>5. /\ Shape(f, m) /\ Frame(f, d) /\ f.tokens = d.tokens
      /\ Retained(f) = Retained(d) /\ Receipted(f) = Receipted(d)
      /\ \A q \in Receipted(d) :
            /\ f.receipts[q].op = d.receipts[q].op /\ f.receipts[q].token = d.receipts[q].token
            /\ f.receipts[q].outcome = IF Moves(d, q, t, {"REVOKE"}, "LOCALLY_REVOKED") THEN "COMMITTED"
                                       ELSE d.receipts[q].outcome
      /\ Follows(f, d, m)
  <2>1. 0 \in 0..d.revision
    BY <1>3, Counters DEF Shape
  <2> QED
    BY SMTT(60), <1>0, <1>3, <2>1, SettleIs
<1> HIDE DEF f
<1>6. /\ Shape(e, m) /\ Frame(e, f) /\ e.tokens = f.tokens
      /\ Retained(e) = Retained(f) /\ Receipted(e) = Receipted(f)
      /\ \A q \in Receipted(f) :
            /\ e.receipts[q].op = f.receipts[q].op /\ e.receipts[q].token = f.receipts[q].token
            /\ e.receipts[q].outcome = f.receipts[q].outcome
      /\ Follows(e, f, m)
  <2>1. 0 \in 0..f.revision
    BY <1>5, Counters DEF Shape
  <2>2. /\ Shape(e, m) /\ Frame(e, f) /\ e.tokens = f.tokens
        /\ Retained(e) = Retained(f) /\ Receipted(e) = Receipted(f)
        /\ \A q \in Receipted(f) :
              /\ e.receipts[q].op = f.receipts[q].op /\ e.receipts[q].token = f.receipts[q].token
              /\ e.receipts[q].outcome = IF Moves(f, q, t, {"ISSUE", "REMOVE"}, "LOCALLY_REVOKED")
                                         THEN "LOCALLY_REVOKED" ELSE f.receipts[q].outcome
        /\ Follows(e, f, m)
    BY <1>0, <1>5, <2>1, SettleIs
  <2> QED
    BY <2>2 DEF Moves
<1> HIDE DEF e
<1>7. /\ Frame(e, s) /\ Retained(e) = Retained(s) /\ Receipted(e) = Receipted(s)
      /\ e.tokens[t] = a /\ \A u \in TokenIds \ {t} : e.tokens[u] = s.tokens[u]
  BY <1>3, <1>5, <1>6 DEF Frame
<1>8. \A q \in Receipted(s) :
         /\ e.receipts[q].op = s.receipts[q].op /\ e.receipts[q].token = s.receipts[q].token
         /\ e.receipts[q].outcome = IF Moves(s, q, t, {"REVOKE"}, "LOCALLY_REVOKED") THEN "COMMITTED"
                                    ELSE s.receipts[q].outcome
  BY <1>3, <1>5, <1>6 DEF Moves
<1>9. \A q \in Receipted(e) : TrueReceipt(e, q)
  <2> SUFFICES ASSUME NEW q \in Receipted(s) PROVE TrueReceipt(e, q)
    BY <1>7
  <2>0. TrueReceipt(s, q) /\ s.receipts[q] \in Receipt
    BY <1>0, Entries
  <2>1. CASE s.receipts[q].token # t
    <3>1. /\ e.receipts[q].op = s.receipts[q].op /\ e.receipts[q].token = s.receipts[q].token
          /\ e.receipts[q].outcome = s.receipts[q].outcome
      BY <1>8, <2>1 DEF Moves
    <3>2. e.tokens[s.receipts[q].token] = s.tokens[s.receipts[q].token]
      BY <1>7, <2>0, <2>1 DEF Receipt
    <3> QED
      BY <1>7, <2>0, <3>1, <3>2, StillTrue DEF StateOf
  <2>2. CASE s.receipts[q].token = t
    <3>1. /\ e.receipts[q].op = s.receipts[q].op /\ e.receipts[q].token = t
          /\ e.receipts[q].outcome = IF s.receipts[q].op = "REVOKE" /\ s.receipts[q].outcome = "LOCALLY_REVOKED"
                                     THEN "COMMITTED" ELSE s.receipts[q].outcome
      BY <1>8, <2>2 DEF Moves
    <3>2. t \in Retained(e) /\ StateOf(e, t) = "REVOKED" /\ e.tokens[t].route_pending = FALSE
      BY <1>2, <1>7 DEF StateOf
    <3>3. s.receipts[q].op = "ISSUE" => s.receipts[q].outcome # "PENDING"
      BY <2>0, <2>2 DEF TrueReceipt
    <3>4. s.receipts[q].op = "REVOKE" => s.receipts[q].outcome = "LOCALLY_REVOKED"
      BY <2>0, <2>2 DEF TrueReceipt
    <3>5. s.receipts[q].op = "REMOVE" => s.receipts[q].outcome # "COMMITTED"
      BY <2>0, <2>2 DEF TrueReceipt
    <3> QED
      BY <3>1, <3>2, <3>3, <3>4, <3>5 DEF TrueReceipt
  <2> QED
    BY <2>1, <2>2
<1>10. Roomy(e, m)
  <2>1. ASSUME NEW u \in Retained(e) PROVE e.tokens[u].revision < e.revision
    <3>1. u = t \/ u \in TokenIds \ {t}
      BY <1>6, Entries DEF Shape
    <3> QED
      BY <1>0, <1>2, <1>7, <3>1 DEF Frame
  <2> QED
    BY <1>6, <1>9, <2>1 DEF Roomy, Sound
<1>11. Follows(e, s, m)
  <2>1. Follows(f, s, m)
    BY <1>0, <1>3, <1>4, <1>5, FollowsOn DEF Shape
  <2> QED
    BY <1>0, <1>5, <1>6, <2>1, FollowsOn DEF Shape
<1>12. /\ Roomy(p, m) /\ Follows(p, e, m) /\ Frame(p, e) /\ p.tokens = e.tokens /\ Retained(p) = Retained(e)
  BY <1>10, PruneIs
<1> HIDE DEF p
<1>13. Follows(p, s, m) /\ Frame(p, s) /\ Sound(p, m)
  BY <1>0, <1>6, <1>7, <1>11, <1>12, FollowsOn DEF Shape, Frame, Roomy, Sound
<1>14. CASE ~Waiting(e, t)
  BY <1>7, <1>10, <1>11, <1>14, <1>d DEF Roomy
<1>15. CASE Waiting(e, t) /\ Cardinality(Tombstoned(p)) < TombstoneLimit
  <2>1. n = Erase(p, t, now)
    BY <1>15
  <2> HIDE DEF n
  <2>2. /\ t \in Retained(p) /\ StateOf(p, t) = "REVOKED" /\ p.tokens[t].route_pending = FALSE
        /\ now \in 1..p.clock /\ Shape(p, m) /\ \A q \in Receipted(p) : TrueReceipt(p, q)
    BY <1>2, <1>7, <1>12, <1>13 DEF StateOf, Frame, Sound
  <2>3. Sound(n, m) /\ Frame(n, p) /\ Follows(n, p, m)
    BY <1>15, <2>1, <2>2, EraseIs
  <2>4. Follows(n, s, m) /\ Frame(n, s)
    BY <1>0, <1>13, <2>3, FollowsOn DEF Sound, Shape, Frame
  <2> QED
    BY <2>3, <2>4, <1>d
<1>16. CASE Waiting(e, t) /\ ~(Cardinality(Tombstoned(p)) < TombstoneLimit)
  BY <1>13, <1>16, <1>d
<1> QED
  BY <1>14, <1>15, <1>16

\* The admission is the last entry of the history, whatever the history was.
LEMMA Recorded ==
  ASSUME NEW h \in Seq(1..MaxClock), Len(h) <= HistoryLimit, NEW now \in 1..MaxClock, NEW created \in Nat,
         \A i \in 1..Len(h) : h[i] \in created..now /\ (i > 1 => h[i] >= h[i - 1]), created <= now
  PROVE  LET g == Append(IF Len(h) = HistoryLimit THEN Tail(h) ELSE h, now)
         IN  /\ g \in Seq(1..MaxClock) /\ Len(g) <= HistoryLimit /\ g # <<>> /\ g[Len(g)] = now
             /\ \A i \in 1..Len(g) : g[i] \in created..now /\ (i > 1 => g[i] >= g[i - 1])
<1> DEFINE b == IF Len(h) = HistoryLimit THEN Tail(h) ELSE h
           g == Append(b, now)
<1>0. HistoryLimit \in Nat \ {0} /\ Len(h) \in Nat /\ \A i \in 1..Len(h) : h[i] \in 1..MaxClock /\ h[i] \in Nat
  BY LimitAssumption
<1>1. /\ b \in Seq(1..MaxClock) /\ Len(b) \in Nat /\ Len(b) < HistoryLimit
      /\ \A i \in 1..Len(b) : b[i] \in created..now /\ (i > 1 => b[i] >= b[i - 1])
  <2>1. CASE Len(h) = HistoryLimit
    <3>1. h # <<>> /\ b = Tail(h)
      BY <1>0, <2>1
    <3>2. b \in Seq(1..MaxClock) /\ Len(b) = Len(h) - 1 /\ \A i \in 1..Len(b) : b[i] = h[i + 1]
      BY <3>1, HeadTailProperties
    <3>3. ASSUME NEW i \in 1..Len(b) PROVE b[i] \in created..now /\ (i > 1 => b[i] >= b[i - 1])
      <4>1. i + 1 \in 1..Len(h) /\ i + 1 > 1 /\ b[i] = h[i + 1]
        BY <1>0, <3>2, <3>3
      <4>2. i > 1 => b[i - 1] = h[i] /\ (i + 1) - 1 = i
        BY <1>0, <3>2, <3>3
      <4> QED
        BY <4>1, <4>2
    <3> QED
      BY <1>0, <2>1, <3>2, <3>3
  <2>2. CASE Len(h) # HistoryLimit
    <3>1. b = h
      BY <2>2
    <3> QED
      BY <1>0, <2>2, <3>1
  <2> QED
    BY <2>1, <2>2
<1> HIDE DEF b
<1>2. /\ g \in Seq(1..MaxClock) /\ Len(g) = Len(b) + 1 /\ g[Len(g)] = now
      /\ \A i \in 1..Len(b) : g[i] = b[i]
  BY <1>1
<1> HIDE DEF g
<1>3. ASSUME NEW i \in 1..Len(g) PROVE g[i] \in created..now /\ (i > 1 => g[i] >= g[i - 1])
  <2>1. CASE i \in 1..Len(b)
    <3>1. i > 1 => i - 1 \in 1..Len(b)
      BY <1>1, <2>1
    <3> QED
      BY <1>1, <1>2, <2>1, <3>1
  <2>2. CASE i = Len(g)
    <3>1. i > 1 => i - 1 \in 1..Len(b)
      BY <1>1, <1>2, <2>2
    <3>2. \A j \in 1..Len(b) : g[j] \in created..now
      BY <1>1, <1>2
    <3> QED
      BY <1>0, <1>2, <2>2, <3>1, <3>2
  <2> QED
    BY <1>1, <1>2, <1>3, <2>1, <2>2
<1>4. Len(g) <= HistoryLimit /\ g # <<>>
  BY <1>0, <1>1, <1>2
<1> QED
  BY <1>2, <1>3, <1>4 DEF g, b


LEMMA AdmittedIs ==
  ASSUME NEW s, NEW m, Sound(s, m), HasCandidate(s), NEW t \in Retained(s), StateOf(s, t) = "ACTIVE",
         NEW now \in Times, NEW seen \in 0..MaxClock, now >= s.clock, seen >= now
  PROVE  LET n == Admitted(Candidate(s, now, seen), t, now)
         IN  Sound(n, m) /\ Follows(n, s, m) /\ AdmittedSince(n, t, now) /\ n.clock >= s.clock /\ n.clock >= seen
<1> DEFINE k == Candidate(s, now, seen)
           c == [k EXCEPT !.revision = k.revision - 1]
           b == s.tokens[t]
           g == Append(IF Len(b.history) = HistoryLimit THEN Tail(b.history) ELSE b.history, now)
           a == [b EXCEPT !.history = g]
           n == WithToken(c, t, a)
<1>0. /\ Shape(s, m) /\ s \in Snapshot /\ Known(s) \subseteq m /\ Valid(s)
      /\ s.revision \in Nat /\ s.sequence \in Nat /\ s.clock \in Nat
      /\ s.revision \in 1..MaxRevision /\ s.clock \in 0..MaxClock
      /\ t \in TokenIds /\ t \in m /\ now \in Nat /\ now \in 1..MaxClock /\ now \in 0..MaxClock
      /\ MaxClock \in Nat /\ MaxRevision \in Nat
  BY Entries, Counters, LimitAssumption DEF Sound, Shape, Known, Times
<1>1. /\ k \in Snapshot /\ Same(k, s) /\ k.revision = s.revision + 1 /\ k.sequence = s.sequence + 1
      /\ k.clock \in 0..MaxClock /\ k.clock >= s.clock /\ k.clock >= now /\ k.clock >= seen
  BY ZenonT(60), <1>0, CandidateIs DEF Roomy, Sound, Shape
<1>d. Admitted(k, t, now) = n
  <2>1. k.tokens[t] = b /\ b \in Token /\ k.tokens = s.tokens
    BY <1>0, <1>1, Entries DEF Same
  <2> HIDE DEF k, b
  <2>2. [k EXCEPT !.revision = k.revision - 1, !.tokens[t].history = g] = [c EXCEPT !.tokens[t].history = g]
    BY <1>1 DEF Snapshot
  <2>3. Admitted(k, t, now) = [k EXCEPT !.revision = k.revision - 1, !.tokens[t].history = g]
    BY <1>0, <1>1, <2>1 DEF Admitted, Snapshot
  <2>4. c \in [revision : Int, sequence : 1..MaxRevision, clock : 0..MaxClock,
               tokens : [TokenIds -> Token \cup {NoToken}],
               receipts : [Requests -> Receipt \cup {NoReceipt}],
               tombstones : [TokenIds -> Tombstone \cup {NoTombstone}]] /\ c.tokens[t] = b
    BY <1>0, <1>1, <2>1 DEF Snapshot
  <2> HIDE DEF c, g
  <2>5. [c EXCEPT !.tokens[t].history = g] = n
    BY <1>0, <2>1, <2>4 DEF WithToken, Token
  <2> QED
    BY <2>2, <2>3, <2>5
<1> HIDE DEF k
<1>2. /\ c \in Snapshot /\ Same(c, s) /\ c.revision = s.revision /\ c.sequence = k.sequence /\ c.clock = k.clock
  BY <1>0, <1>1 DEF Snapshot, Same
<1> HIDE DEF c
<1>3. Sound(c, m) /\ Follows(c, s, m) /\ c.clock \in Nat /\ c.clock >= now
  <2>1. c.sequence >= c.revision /\ c.revision >= s.revision /\ c.clock >= s.clock
    BY <1>0, <1>1, <1>2 DEF Valid
  <2>2. c.clock \in Nat
    BY <1>0, <1>1, <1>2
  <2> QED
    BY <1>1, <1>2, <2>1, <2>2, Grown
<1>4. /\ Retained(c) = Retained(s) /\ Receipted(c) = Receipted(s) /\ Tombstoned(c) = Tombstoned(s)
      /\ c.tokens[t] = b
  BY <1>2, SameSets DEF Same
<1>5. b \in Token /\ Good(b, s) /\ t \in TokenIds \ Tombstoned(c) /\ b.state = "ACTIVE"
  BY <1>0, <1>4, Entries, GoodIsValid DEF Valid, StateOf
<1>6. b.history \in Seq(1..MaxClock) /\ Len(b.history) \in Nat /\ b.created \in Nat /\ b.created <= now
  BY SMTT(60), <1>0, <1>5 DEF Token, Good
<1> HIDE DEF b
<1>7. \A i \in 1..Len(b.history) :
         /\ b.history[i] \in b.created..s.clock /\ (i > 1 => b.history[i] >= b.history[i - 1])
         /\ b.history[i] \in b.created..now /\ b.history[i] \in Nat
  <2>1. \A i \in 1..Len(b.history) :
           b.history[i] \in b.created..s.clock /\ (i > 1 => b.history[i] >= b.history[i - 1])
    BY <1>5 DEF Good
  <2>2. \A i \in 1..Len(b.history) : b.history[i] \in 1..MaxClock
    BY <1>6, ElementOfSeq
  <2>3. ASSUME NEW x \in 1..MaxClock, x \in b.created..s.clock PROVE x \in Nat /\ x \in b.created..now
    BY <1>0, <1>6, <2>3
  <2> QED
    BY <2>1, <2>2, <2>3
<1>8. /\ g \in Seq(1..MaxClock) /\ Len(g) <= HistoryLimit /\ g # <<>> /\ g[Len(g)] = now
      /\ \A i \in 1..Len(g) : g[i] \in b.created..now /\ (i > 1 => g[i] >= g[i - 1])
  <2>1. Len(b.history) <= HistoryLimit
    BY <1>5 DEF Good
  <2> QED
    BY <1>0, <1>6, <1>7, <2>1, Recorded
<1> HIDE DEF g
<1>9. /\ a \in Token /\ a.history = g /\ a.state = b.state /\ a.revision = b.revision /\ a.created = b.created
      /\ a.expires = b.expires /\ a.route_pending = b.route_pending
  BY <1>5, <1>8 DEF Token
<1> HIDE DEF a
<1>10. Good(a, c)
  <2>1. /\ b.revision \in 1..s.revision /\ b.created \in 1..s.clock
        /\ b.expires # 0 => b.expires > b.created
        /\ b.state = "PENDING" => b.route_pending
    BY <1>5 DEF Good
  <2>2. a.revision \in 1..c.revision /\ a.created \in 1..c.clock
    BY <1>0, <1>1, <1>2, <1>3, <1>9, <2>1
  <2>3. Len(g) \in Nat /\ \A i \in 1..Len(g) : g[i] \in Nat
    BY <1>0, <1>8
  <2>4. \A i \in 1..Len(g) : g[i] \in a.created..c.clock /\ (i > 1 => g[i] >= g[i - 1])
    <3> SUFFICES ASSUME NEW i \in 1..Len(g)
                 PROVE  g[i] \in a.created..c.clock /\ (i > 1 => g[i] >= g[i - 1])
      OBVIOUS
    <3>1. g[i] \in b.created..now /\ (i > 1 => g[i] >= g[i - 1])
      BY <1>8
    <3>2. a.created = b.created /\ b.created \in Nat /\ now \in Nat /\ c.clock \in Nat /\ c.clock >= now
      BY <1>0, <1>3, <1>6, <1>9
    <3> QED
      BY <3>1, <3>2
  <2>5. Len(a.history) <= HistoryLimit
    BY <1>8, <1>9
  <2> QED
    BY <1>9, <2>1, <2>2, <2>4, <2>5 DEF Good
<1>11. /\ Shape(n, m) /\ Frame(n, c) /\ n.receipts = c.receipts
       /\ Retained(n) = Retained(c) /\ Receipted(n) = Receipted(c)
       /\ n.tokens[t] = a /\ \A u \in TokenIds \ {t} : n.tokens[u] = c.tokens[u]
  <2>1. m \cup {t} = m /\ Retained(c) \cup {t} = Retained(c)
    BY <1>0, <1>4
  <2>2. /\ Shape(n, m \cup {t}) /\ Frame(n, c) /\ n.receipts = c.receipts
        /\ Retained(n) = Retained(c) \cup {t} /\ Receipted(n) = Receipted(c)
    BY <1>3, <1>4, <1>5, <1>9, <1>10, WithTokenIs DEF Sound
  <2>3. n.tokens[t] = a /\ \A u \in TokenIds \ {t} : n.tokens[u] = c.tokens[u]
    BY <1>0, <1>2 DEF WithToken, Snapshot
  <2> QED
    BY <2>1, <2>2, <2>3
<1> HIDE DEF n
<1>12. AdmittedSince(n, t, now) /\ \A x \in Nat : AdmittedSince(c, t, x) => AdmittedSince(n, t, x)
  <2>1. n.tokens[t].history # <<>> /\ n.tokens[t].history[Len(n.tokens[t].history)] = now
    BY <1>8, <1>9, <1>11
  <2>2. ASSUME NEW x \in Nat, AdmittedSince(c, t, x) PROVE now >= x
    <3>1. b.history # <<>> /\ b.history[Len(b.history)] >= x
      BY <1>4, <2>2 DEF AdmittedSince
    <3>2. Len(b.history) \in 1..Len(b.history)
      BY <1>6, <3>1
    <3>3. b.history[Len(b.history)] \in b.created..now
      BY <1>7, <3>2
    <3> QED
      BY <1>0, <1>6, <3>1, <3>3
  <2> QED
    BY <1>0, <2>1, <2>2 DEF AdmittedSince
<1>13. StateOf(n, t) = "ACTIVE" /\ StateOf(c, t) = "ACTIVE"
  BY <1>4, <1>5, <1>9, <1>11 DEF StateOf
<1>14. Follows(n, s, m)
  <2>1. StateOf(n, t) # "PENDING" /\ (StateOf(c, t) \in Over => StateOf(n, t) \in Over)
    BY <1>13
  <2>2. Follows(n, c, m)
    BY <1>2, <1>4, <1>11, <1>12, <2>1, FollowsToken DEF Shape
  <2> QED
    BY <1>0, <1>2, <1>3, <1>11, <2>2, FollowsOn DEF Shape
<1>15. \A q \in Receipted(n) : TrueReceipt(n, q)
  <2> SUFFICES ASSUME NEW q \in Receipted(c) PROVE TrueReceipt(n, q)
    BY <1>11
  <2>1. TrueReceipt(c, q) /\ n.receipts[q] = c.receipts[q] /\ c.receipts[q].token \in TokenIds
    BY <1>2, <1>3, <1>11, Entries DEF Sound, Receipt
  <2>2. CASE c.receipts[q].token # t
    <3>1. n.tokens[c.receipts[q].token] = c.tokens[c.receipts[q].token]
      BY <1>11, <2>1, <2>2
    <3> QED
      BY <1>11, <2>1, <3>1, StillTrue DEF StateOf
  <2>3. CASE c.receipts[q].token = t
    <3>1. n.tokens[t].route_pending = c.tokens[t].route_pending
      BY <1>4, <1>9, <1>11
    <3> QED
      BY <1>11, <1>13, <2>1, <2>3, <3>1, StillTrue
  <2> QED
    BY <2>2, <2>3
<1>16. n.clock >= s.clock /\ n.clock >= seen
  BY <1>1, <1>2, <1>11 DEF Frame
<1> QED
  BY <1>11, <1>12, <1>14, <1>15, <1>16, <1>d DEF Sound, k

\* What Expired and Recovered make of the tokens T.
Ends(n, s, T, to) ==
    \A t \in Retained(s) :
        IF t \in T
        THEN n.tokens[t] = [s.tokens[t] EXCEPT !.state = to, !.revision = s.tokens[t].revision + 1]
        ELSE n.tokens[t] = s.tokens[t]

\* Tokens that end together.
LEMMA EndsIs ==
  ASSUME NEW s, NEW m, Roomy(s, m), NEW T \in SUBSET Retained(s), NEW to \in Over,
         NEW n \in [revision : {s.revision}, sequence : {s.sequence}, clock : {s.clock},
                    tokens : [TokenIds -> Token \cup {NoToken}], receipts : {s.receipts},
                    tombstones : {s.tombstones}],
         Ends(n, s, T, to), \A t \in TokenIds \ Retained(s) : n.tokens[t] = NoToken
  PROVE  /\ Shape(n, m) /\ Frame(n, s) /\ Retained(n) = Retained(s) /\ Receipted(n) = Receipted(s)
         /\ \A t \in T : StateOf(n, t) = to /\ n.tokens[t].route_pending = s.tokens[t].route_pending
         /\ \A t \in Retained(s) : n.tokens[t].history = s.tokens[t].history
         /\ \A t \in Retained(s) \ T : n.tokens[t] = s.tokens[t]
<1>0. /\ Shape(s, m) /\ s \in Snapshot /\ Known(s) \subseteq m /\ Valid(s) /\ MaxRevision \in Nat
      /\ s.revision \in 1..MaxRevision /\ Retained(s) \subseteq TokenIds
  BY Counters, Entries, LimitAssumption DEF Roomy, Sound, Shape
<1>1. /\ n \in Snapshot /\ Frame(n, s) /\ n.receipts = s.receipts /\ n.tombstones = s.tombstones
  <2>1. /\ n.revision = s.revision /\ n.sequence = s.sequence /\ n.clock = s.clock
        /\ n.receipts = s.receipts /\ n.tombstones = s.tombstones
    OBVIOUS
  <2> QED
    BY <1>0, <2>1 DEF Snapshot, Frame
<1>2. Tombstoned(n) = Tombstoned(s)
  BY <1>1 DEF Tombstoned
<1>3. ASSUME NEW t \in T
      PROVE  LET a == n.tokens[t]
                 b == s.tokens[t]
             IN  /\ a \in Token /\ a.state = to /\ a.revision = b.revision + 1
                 /\ a.created = b.created /\ a.expires = b.expires
                 /\ a.route_pending = b.route_pending /\ a.history = b.history
                 /\ Good(b, s) /\ a.revision \in 1..s.revision
  <2> DEFINE b == s.tokens[t]
  <2>1. /\ b \in Token /\ Good(b, s) /\ b.revision < s.revision
        /\ n.tokens[t] = [b EXCEPT !.state = to, !.revision = b.revision + 1]
    BY <1>0, Entries, GoodIsValid DEF Roomy, Valid, Ends
  <2>2. b.revision + 1 \in 1..s.revision /\ b.revision + 1 \in 1..MaxRevision /\ to \in TokenStates
    BY <1>0, <2>1 DEF Good, Over, TokenStates
  <2> HIDE DEF b
  <2>3. LET a == n.tokens[t]
        IN  /\ a \in Token /\ a.state = to /\ a.revision = b.revision + 1
            /\ a.created = b.created /\ a.expires = b.expires
            /\ a.route_pending = b.route_pending /\ a.history = b.history
    BY <2>1, <2>2 DEF Token
  <2> QED
    BY <2>1, <2>2, <2>3 DEF b
<1>4. \A t \in Retained(s) \ T : n.tokens[t] = s.tokens[t]
  BY DEF Ends
<1>5. Retained(n) = Retained(s)
  <2>1. \A t \in Retained(s) : n.tokens[t] \in Token
    BY <1>0, <1>3, <1>4, Entries
  <2>2. \A t \in TokenIds : t \in Retained(n) <=> n.tokens[t] \in Token
    BY <1>1, Entries
  <2>3. NoToken \notin Token /\ Retained(n) \subseteq TokenIds
    BY <1>1, Entries DEF NoToken, Token, TokenStates
  <2> QED
    BY <1>0, <2>1, <2>2, <2>3
<1>6. \A t \in Retained(n) : ValidToken(n, t)
  <2>1. ASSUME NEW t \in T PROVE ValidToken(n, t)
    <3>1. t \in Retained(s) /\ t \notin Tombstoned(n) /\ n.clock = s.clock /\ n.revision = s.revision
      BY <1>0, <1>1, <1>2 DEF Valid, ValidToken, Frame
    <3>2. n.tokens[t].state # "PENDING"
      BY <1>3 DEF Over
    <3>3. Good(n.tokens[t], n)
      BY <1>3, <3>1, <3>2 DEF Good
    <3> QED
      BY <3>1, <3>3, GoodIsValid
  <2>2. ASSUME NEW t \in Retained(s) \ T PROVE ValidToken(n, t)
    BY <1>0, <1>1, <1>2, <1>4 DEF Valid, ValidToken, Frame
  <2> QED
    BY <1>5, <2>1, <2>2
<1>7. Shape(n, m) /\ Receipted(n) = Receipted(s)
  <2>1. Cardinality(Retained(n)) <= TokenLimit /\ Retained(n) \subseteq m
    BY <1>0, <1>5 DEF Valid, Known
  <2> QED
    BY <1>0, <1>1, <1>6, <2>1, NewTokens
<1>8. \A t \in Retained(s) : n.tokens[t].history = s.tokens[t].history
  BY <1>3, <1>4
<1> QED
  BY <1>1, <1>3, <1>4, <1>5, <1>7, <1>8 DEF StateOf


LEMMA ExpiredIs ==
  ASSUME NEW s, NEW m, Roomy(s, m), NEW T \in SUBSET Retained(s), \A t \in T : StateOf(s, t) = "ACTIVE"
  PROVE  LET n == Expired(s, T)
         IN  /\ Sound(n, m) /\ Follows(n, s, m) /\ Frame(n, s)
             /\ \A t \in T : t \in Retained(n) => StateOf(n, t) \in Over
<1> DEFINE X == [t \in TokenIds |-> IF t \in T THEN EndToken(s, t, "EXPIRED").tokens[t] ELSE s.tokens[t]]
           n == [s EXCEPT !.tokens = X]
<1>0. /\ Shape(s, m) /\ s \in Snapshot /\ s.revision \in Nat
      /\ \A q \in Receipted(s) : TrueReceipt(s, q)
      /\ Retained(s) \subseteq TokenIds
  BY Counters, Entries DEF Roomy, Sound, Shape
<1>d. Expired(s, T) = n
  BY DEF Expired
<1>1. \A t \in T : X[t] = [s.tokens[t] EXCEPT !.state = "EXPIRED", !.revision = s.tokens[t].revision + 1]
  <2> SUFFICES ASSUME NEW t \in T
               PROVE  EndToken(s, t, "EXPIRED").tokens[t]
                        = [s.tokens[t] EXCEPT !.state = "EXPIRED", !.revision = s.tokens[t].revision + 1]
    BY <1>0
  <2>1. s.tokens[t] \in Token /\ t \in TokenIds
    BY <1>0, Entries
  <2> QED
    BY <1>0, <2>1 DEF EndToken, Snapshot, Token
<1>2. \A t \in TokenIds \ T : X[t] = s.tokens[t]
  OBVIOUS
<1>3. X \in [TokenIds -> Token \cup {NoToken}]
  <2>1. ASSUME NEW t \in T PROVE X[t] \in Token
    <3>1. s.tokens[t] \in Token /\ Good(s.tokens[t], s) /\ s.tokens[t].revision < s.revision
      BY <1>0, Entries, GoodIsValid DEF Roomy, Shape, Valid
    <3>2. s.tokens[t].revision + 1 \in 1..MaxRevision
      BY <1>0, <3>1, Counters, LimitAssumption DEF Good
    <3> HIDE DEF X
    <3> QED
      BY <1>1, <3>1, <3>2 DEF Token, TokenStates
  <2>2. ASSUME NEW t \in TokenIds \ T PROVE X[t] \in Token \cup {NoToken}
    BY <1>0, <1>2 DEF Snapshot
  <2> QED
    BY <2>1, <2>2
<1> HIDE DEF X
<1>4. /\ n \in [revision : {s.revision}, sequence : {s.sequence}, clock : {s.clock},
                tokens : [TokenIds -> Token \cup {NoToken}], receipts : {s.receipts},
                tombstones : {s.tombstones}]
      /\ n.tokens = X /\ n.receipts = s.receipts
  BY <1>0, <1>3 DEF Snapshot
<1> HIDE DEF n
<1>5. Ends(n, s, T, "EXPIRED") /\ \A t \in TokenIds \ Retained(s) : n.tokens[t] = NoToken
  BY <1>0, <1>1, <1>2, <1>4 DEF Ends, Retained
<1>6. "EXPIRED" \in Over
  BY DEF Over
<1>7. /\ Shape(n, m) /\ Frame(n, s) /\ Retained(n) = Retained(s) /\ Receipted(n) = Receipted(s)
      /\ \A t \in T : StateOf(n, t) = "EXPIRED" /\ n.tokens[t].route_pending = s.tokens[t].route_pending
      /\ \A t \in Retained(s) : n.tokens[t].history = s.tokens[t].history
      /\ \A t \in Retained(s) \ T : n.tokens[t] = s.tokens[t]
  BY <1>4, <1>5, <1>6, EndsIs
<1>8. \A q \in Receipted(n) : TrueReceipt(n, q)
  <2> SUFFICES ASSUME NEW q \in Receipted(s) PROVE TrueReceipt(n, q)
    BY <1>7
  <2>1. TrueReceipt(s, q) /\ n.receipts[q] = s.receipts[q]
    BY <1>0, <1>4
  <2>2. CASE s.receipts[q].token \notin T
    <3>1. s.receipts[q].token \in Retained(s) => n.tokens[s.receipts[q].token] = s.tokens[s.receipts[q].token]
      BY <1>7, <2>2
    <3> QED
      BY <1>7, <2>1, <3>1, StillTrue DEF StateOf
  <2>3. CASE s.receipts[q].token \in T
    <3> DEFINE t == s.receipts[q].token
    <3>1. t \in Retained(s) /\ t \in Retained(n) /\ StateOf(s, t) = "ACTIVE" /\ StateOf(n, t) = "EXPIRED"
      BY <1>7, <2>3
    <3>2. s.receipts[q].op # "REVOKE"
      BY <2>1, <3>1 DEF TrueReceipt
    <3>3. s.receipts[q].op = "ISSUE" => s.receipts[q].outcome \notin {"PENDING", "LOCALLY_REVOKED"}
      BY <2>1, <3>1 DEF TrueReceipt
    <3>4. s.receipts[q].op = "REMOVE" => s.receipts[q].outcome \notin {"PENDING", "COMMITTED"}
      BY <2>1, <3>1 DEF TrueReceipt
    <3> QED
      BY <2>1, <3>1, <3>2, <3>3, <3>4 DEF TrueReceipt
  <2> QED
    BY <2>2, <2>3
<1>9. Follows(n, s, m)
  <2>1. n.revision >= s.revision
    BY <1>0, <1>7 DEF Frame
  <2>2. \A t \in Retained(n) : \A q \in Requests : IssueOf(s, q, t) => IssueOf(n, q, t)
    BY <1>4, <1>7 DEF IssueOf
  <2>3. \A t \in Retained(n) : \A x \in Nat : AdmittedSince(s, t, x) => AdmittedSince(n, t, x)
    BY <1>7 DEF AdmittedSince
  <2>4. \A t \in Retained(n) : t \in T \/ StateOf(n, t) = StateOf(s, t)
    BY <1>7 DEF StateOf
  <2>5. \A t \in T : StateOf(n, t) \in Over /\ StateOf(n, t) # "PENDING"
    BY <1>7 DEF Over
  <2> QED
    BY <1>7, <2>1, <2>2, <2>3, <2>4, <2>5 DEF Follows
<1> QED
  BY <1>6, <1>7, <1>8, <1>9, <1>d DEF Sound

LEMMA RecoveredIs ==
  ASSUME NEW s, NEW m, Roomy(s, m)
  PROVE  LET n == Recovered(s)
         IN  /\ Sound(n, m) /\ Follows(n, s, m) /\ Frame(n, s)
             /\ \A t \in Interrupted(s) : t \in Retained(n) => StateOf(n, t) \in Over
<1> DEFINE T == Interrupted(s)
           X == [t \in TokenIds |-> IF t \in T THEN EndToken(s, t, "REVOKED").tokens[t] ELSE s.tokens[t]]
           stopped(q) == /\ q \in Receipted(s) /\ s.receipts[q].token \in T
                         /\ s.receipts[q].op = "ISSUE" /\ s.receipts[q].outcome = "PENDING"
           settled(q) == [s.receipts[q] EXCEPT !.outcome = "LOCALLY_REVOKED", !.revision = s.revision,
                             !.token_revision = s.tokens[s.receipts[q].token].revision + 1]
           R == [q \in Requests |-> IF stopped(q) THEN settled(q) ELSE s.receipts[q]]
           e == [s EXCEPT !.tokens = X]
           n == [e EXCEPT !.receipts = R]
<1>0. /\ Shape(s, m) /\ s \in Snapshot /\ s.revision \in Nat /\ s.revision \in 1..MaxRevision
      /\ Known(s) \subseteq m /\ IssuedOnce(s) /\ Valid(s)
      /\ \A q \in Receipted(s) : TrueReceipt(s, q)
      /\ Retained(s) \subseteq TokenIds /\ Receipted(s) \subseteq Requests
      /\ T \subseteq Retained(s) /\ \A t \in T : StateOf(s, t) = "PENDING"
      /\ \A t \in Retained(s) \ T : StateOf(s, t) # "PENDING"
  BY Counters, Entries DEF Roomy, Sound, Shape, Interrupted
<1>d. Recovered(s) = n
  BY DEF Recovered
<1>g. \A t \in T : /\ s.tokens[t] \in Token /\ s.tokens[t].revision + 1 \in 1..s.revision
                   /\ s.tokens[t].revision + 1 \in 1..MaxRevision
  <2> SUFFICES ASSUME NEW t \in T
               PROVE  /\ s.tokens[t] \in Token /\ s.tokens[t].revision + 1 \in 1..s.revision
                      /\ s.tokens[t].revision + 1 \in 1..MaxRevision
    OBVIOUS
  <2>1. s.tokens[t] \in Token /\ Good(s.tokens[t], s) /\ s.tokens[t].revision < s.revision
    BY <1>0, Entries, GoodIsValid DEF Roomy, Valid
  <2> QED
    BY <1>0, <2>1, LimitAssumption DEF Good
<1> HIDE DEF T
<1>1. \A t \in T : X[t] = [s.tokens[t] EXCEPT !.state = "REVOKED", !.revision = s.tokens[t].revision + 1]
  <2> SUFFICES ASSUME NEW t \in T
               PROVE  EndToken(s, t, "REVOKED").tokens[t]
                        = [s.tokens[t] EXCEPT !.state = "REVOKED", !.revision = s.tokens[t].revision + 1]
    BY <1>0
  <2>1. s.tokens[t] \in Token /\ t \in TokenIds
    BY <1>0, <1>g
  <2> QED
    BY <1>0, <2>1 DEF EndToken, Snapshot, Token
<1>2. \A t \in TokenIds \ T : X[t] = s.tokens[t]
  OBVIOUS
<1>3. X \in [TokenIds -> Token \cup {NoToken}]
  <2>1. ASSUME NEW t \in T PROVE X[t] \in Token
    <3> DEFINE b == s.tokens[t]
               v == s.tokens[t].revision + 1
    <3>1. b \in Token /\ v \in 1..MaxRevision /\ X[t] = [b EXCEPT !.state = "REVOKED", !.revision = v]
      BY <1>1, <1>g
    <3> HIDE DEF X, b, v
    <3>2. [b EXCEPT !.state = "REVOKED", !.revision = v] \in Token
      BY <3>1 DEF Token, TokenStates
    <3> QED
      BY <3>1, <3>2
  <2>2. ASSUME NEW t \in TokenIds \ T PROVE X[t] \in Token \cup {NoToken}
    BY <1>0, <1>2 DEF Snapshot
  <2> QED
    BY <2>1, <2>2
<1> HIDE DEF X
<1>4. /\ e \in [revision : {s.revision}, sequence : {s.sequence}, clock : {s.clock},
                tokens : [TokenIds -> Token \cup {NoToken}], receipts : {s.receipts},
                tombstones : {s.tombstones}]
      /\ e.tokens = X /\ e.receipts = s.receipts /\ e \in Snapshot
  BY <1>0, <1>3 DEF Snapshot
<1> HIDE DEF e
<1>5. Ends(e, s, T, "REVOKED") /\ \A t \in TokenIds \ Retained(s) : e.tokens[t] = NoToken
  BY <1>0, <1>1, <1>2, <1>4 DEF Ends, Retained
<1>6. "REVOKED" \in Over
  BY DEF Over
<1>7. /\ Shape(e, m) /\ Frame(e, s) /\ Retained(e) = Retained(s) /\ Receipted(e) = Receipted(s)
      /\ \A t \in T : StateOf(e, t) = "REVOKED" /\ e.tokens[t].route_pending = s.tokens[t].route_pending
      /\ \A t \in Retained(s) : e.tokens[t].history = s.tokens[t].history
      /\ \A t \in Retained(s) \ T : e.tokens[t] = s.tokens[t]
  BY <1>0, <1>4, <1>5, <1>6, EndsIs
<1>8. ASSUME NEW q \in Receipted(s), stopped(q)
      PROVE  /\ settled(q) \in Receipt /\ settled(q).op = s.receipts[q].op
             /\ settled(q).token = s.receipts[q].token /\ settled(q).outcome = "LOCALLY_REVOKED"
             /\ settled(q).revision = s.revision /\ settled(q).token_revision \in 1..s.revision
             /\ settled(q).created = s.receipts[q].created
  <2>1. s.receipts[q] \in Receipt /\ s.receipts[q].token \in T
    BY <1>0, <1>8, Entries
  <2>2. /\ s.tokens[s.receipts[q].token].revision + 1 \in 1..s.revision
        /\ s.tokens[s.receipts[q].token].revision + 1 \in 1..MaxRevision
        /\ "LOCALLY_REVOKED" \in Outcomes
    BY <1>g, <2>1 DEF Outcomes
  <2> QED
    BY <1>0, <2>1, <2>2 DEF Receipt
<1> HIDE DEF settled
<1>9. \A q \in Receipted(s) : R[q] = (IF stopped(q) THEN settled(q) ELSE s.receipts[q]) /\ R[q] \in Receipt
  BY <1>0, <1>8, Entries
<1>10. \A q \in Requests \ Receipted(s) : R[q] = NoReceipt
  BY DEF Receipted
<1>11. R \in [Requests -> Receipt \cup {NoReceipt}]
  BY <1>9, <1>10
<1> HIDE DEF R
<1>12. n \in Snapshot /\ Frame(n, e) /\ n.tokens = e.tokens /\ n.tombstones = e.tombstones /\ n.receipts = R
  BY <1>4, <1>11 DEF Snapshot, Frame
<1> HIDE DEF n
<1>13. Receipted(n) = Receipted(s)
  BY <1>0, <1>9, <1>10, <1>12, Entries DEF Receipted
<1>14. \A q \in Receipted(s) :
          /\ n.receipts[q].op = s.receipts[q].op /\ n.receipts[q].token = s.receipts[q].token
          /\ IF stopped(q) THEN /\ n.receipts[q].outcome = "LOCALLY_REVOKED"
                                /\ n.receipts[q].revision = s.revision
                                /\ n.receipts[q].token_revision \in 1..s.revision
                                /\ n.receipts[q].created = s.receipts[q].created
             ELSE n.receipts[q] = s.receipts[q]
  BY <1>8, <1>9, <1>12
<1>15. Shape(n, m) /\ Retained(n) = Retained(s)
  <2>1. Cardinality(Receipted(n)) <= ReceiptLimit
    BY <1>0, <1>13 DEF Valid
  <2>2. IssuedOnce(n)
    BY <1>0, <1>13, <1>14 DEF IssuedOnce
  <2>3. \A q \in Receipted(n) : ValidReceipt(n, q) /\ n.receipts[q].token \in m
    <3> SUFFICES ASSUME NEW q \in Receipted(s) PROVE ValidReceipt(n, q) /\ n.receipts[q].token \in m
      BY <1>13
    <3>1. n.revision = s.revision /\ n.clock = s.clock /\ s.revision \in 1..s.revision
      BY <1>0, <1>7, <1>12 DEF Frame
    <3>2. ValidReceipt(s, q) /\ s.receipts[q].token \in m
      BY <1>0 DEF Valid, Known
    <3>3. CASE stopped(q)
      BY <1>14, <3>1, <3>2, <3>3 DEF ValidReceipt
    <3>4. CASE ~stopped(q)
      BY <1>14, <3>1, <3>2, <3>4 DEF ValidReceipt
    <3> QED
      BY <3>3, <3>4
  <2> QED
    BY <1>7, <1>12, <2>1, <2>2, <2>3, NewReceipts
<1>16. \A q \in Receipted(n) : TrueReceipt(n, q)
  <2> SUFFICES ASSUME NEW q \in Receipted(s) PROVE TrueReceipt(n, q)
    BY <1>13
  <2>1. TrueReceipt(s, q) /\ s.receipts[q] \in Receipt
    BY <1>0, Entries
  <2>2. CASE s.receipts[q].token \notin T
    <3>1. s.receipts[q].token \in Retained(s) => n.tokens[s.receipts[q].token] = s.tokens[s.receipts[q].token]
      BY <1>7, <1>12, <2>2
    <3>2. ~stopped(q)
      BY <2>2
    <3> QED
      BY <1>14, <1>15, <2>1, <3>1, <3>2, StillTrue DEF StateOf
  <2>3. CASE s.receipts[q].token \in T
    <3> DEFINE t == s.receipts[q].token
    <3>1. t \in Retained(s) /\ t \in Retained(n) /\ StateOf(s, t) = "PENDING" /\ StateOf(n, t) = "REVOKED"
      BY <1>0, <1>7, <1>12, <1>15, <2>3 DEF StateOf
    <3>2. s.receipts[q].op # "REVOKE"
      BY <2>1, <3>1 DEF TrueReceipt
    <3>3. s.receipts[q].op = "ISSUE" => stopped(q)
      BY <2>1, <2>3, <3>1 DEF TrueReceipt
    <3>4. s.receipts[q].op = "REMOVE" => s.receipts[q].outcome \notin {"PENDING", "COMMITTED"} /\ ~stopped(q)
      BY <2>1, <3>1 DEF TrueReceipt
    <3>5. n.receipts[q].op = s.receipts[q].op /\ n.receipts[q].token = t
      BY <1>14
    <3>6. s.receipts[q].op = "ISSUE" => n.receipts[q].outcome = "LOCALLY_REVOKED"
      BY <1>14, <3>3
    <3>7. s.receipts[q].op = "REMOVE" => n.receipts[q].outcome \notin {"PENDING", "COMMITTED"}
      BY <1>14, <3>4
    <3> QED
      BY <3>1, <3>2, <3>5, <3>6, <3>7 DEF TrueReceipt
  <2> QED
    BY <2>2, <2>3
<1>17. Follows(n, s, m)
  <2>1. n.revision >= s.revision
    BY <1>0, <1>7, <1>12 DEF Frame
  <2>2. \A t \in Retained(n) : \A x \in Nat : AdmittedSince(s, t, x) => AdmittedSince(n, t, x)
    BY <1>7, <1>12, <1>15 DEF AdmittedSince
  <2>3. \A t \in Retained(n) : t \in T \/ StateOf(n, t) = StateOf(s, t)
    BY <1>7, <1>12, <1>15 DEF StateOf
  <2>4. \A t \in T : StateOf(n, t) \in Over /\ StateOf(n, t) # "PENDING"
    BY <1>7, <1>12 DEF Over, StateOf
  <2>5. \A t \in Retained(n) : StateOf(n, t) # "PENDING"
    BY <1>0, <1>15, <2>3, <2>4
  <2>6. \A t \in Retained(n) : StateOf(s, t) \in Over => StateOf(n, t) \in Over
    BY <2>3, <2>4
  <2> QED
    BY <1>15, <2>1, <2>2, <2>5, <2>6 DEF Follows
<1>18. Frame(n, s)
  BY <1>7, <1>12 DEF Frame
<1>19. \A t \in T : StateOf(n, t) \in Over
  BY <1>6, <1>7, <1>12 DEF StateOf
<1> QED
  BY <1>15, <1>16, <1>17, <1>18, <1>19, <1>d DEF Sound, T


-----------------------------------------------------------------------------
(* Commits and their failures. *)

\* More identities may be generated.
LEMMA SoundOn ==
  ASSUME NEW s, NEW m, NEW mm, Sound(s, m), m \subseteq mm
  PROVE  Sound(s, mm)
  BY DEF Sound, Shape

\* What follows an image owes no less than the image kept.
LEMMA KeepsOn ==
  ASSUME NEW s \in Snapshot, NEW n \in Snapshot, NEW m, Follows(n, s, m),
         NEW ends \in SUBSET m, NEW changes, NEW grants, Keeps(s, ends, changes, grants),
         \A a \in changes : a.revision \in Nat,
         \A a \in grants : a.token \in m /\ a.at \in Nat
  PROVE  Keeps(n, ends, changes, grants)
<1>1. \A t \in ends : t \in Retained(n) => StateOf(n, t) \in Over
  BY DEF Follows, Keeps
<1>2. \A a \in changes : n.revision >= a.revision
  BY Counters DEF Follows, Keeps
<1>3. \A a \in grants : a.token \in Retained(n) => AdmittedSince(n, a.token, a.at)
  BY DEF Follows, Keeps
<1> QED
  BY <1>1, <1>2, <1>3 DEF Keeps

\* A waiting issue keeps what is its own.
LEMMA CallsOn ==
  ASSUME NEW q \in Requests, NEW cs, NEW ds, NEW s \in Snapshot, NEW n \in Snapshot, NEW m, NEW mm,
         NEW changes, NEW more,
         CallSound(q, cs, s, m, changes), Follows(n, s, m), m \subseteq mm, ds[q] = cs[q],
         cs[q] # NoCall => cs[q].expected \in Nat,
         \A p \in Requests : \/ ds[p] = cs[p] \/ ds[p] = NoCall
                             \/ (cs[q] # NoCall => ds[p].expected # cs[q].expected),
         \A a \in more : a \in changes \/ (cs[q] # NoCall => a.expected # cs[q].expected)
  PROVE  CallSound(q, ds, n, mm, more)
<1> DEFINE c == cs[q]
<1> SUFFICES ASSUME c # NoCall PROVE CallSound(q, ds, n, mm, more)
  BY DEF CallSound
<1>1. /\ c.token \in m /\ c.expected < s.revision
      /\ \A a \in changes : a.expected # c.expected
      /\ \A p \in Requests : cs[p] # NoCall /\ cs[p].expected = c.expected => p = q
      /\ c.token \in Retained(s) /\ StateOf(s, c.token) = "PENDING" => IssueOf(s, q, c.token)
  BY DEF CallSound
<1>2. c.token \in mm /\ c.expected < n.revision
  BY <1>1, Counters DEF Follows
<1>3. \A a \in more : a.expected # c.expected
  BY <1>1
<1>4. \A p \in Requests : ds[p] # NoCall /\ ds[p].expected = c.expected => p = q
  BY <1>1
<1>5. c.token \in Retained(n) /\ StateOf(n, c.token) = "PENDING" => IssueOf(n, q, c.token)
  BY <1>1 DEF Follows
<1> QED
  BY <1>2, <1>3, <1>4, <1>5 DEF CallSound

\* What is known of the installed snapshot, and of every call.
LEMMA Installed ==
  ASSUME StoreInv, up
  PROVE  /\ Sound(state, minted) /\ Keeps(state, ended, acked, admitted) /\ state \in Snapshot
         /\ Sound(disk, minted) /\ Keeps(disk, ended, acked, admitted)
         /\ state.revision \in Nat /\ state.clock \in Nat /\ state.clock \in 0..MaxClock
         /\ observed \in 0..MaxClock /\ minted \subseteq TokenIds /\ ended \subseteq minted
         /\ \A a \in acked : a.expected < state.revision
         /\ \A q \in Requests : CallSound(q, calls, state, minted, acked)
         /\ \A q \in Requests : calls[q] # NoCall => calls[q] \in Call
<1>1. state \in Images /\ disk \in Images
  BY DEF Images
<1>2. /\ Sound(state, minted) /\ Keeps(state, ended, acked, admitted) /\ state \in Snapshot
      /\ Sound(disk, minted) /\ Keeps(disk, ended, acked, admitted)
  BY <1>1 DEF StoreInv, Sound, Shape
<1>3. state.revision \in Nat /\ state.clock \in Nat /\ state.clock \in 0..MaxClock
  BY <1>2, Counters
<1>4. \A a \in acked : a.expected < state.revision
  BY <1>2, <1>3 DEF StoreInv, Typed, Keeps
<1>5. \A q \in Requests : calls[q] # NoCall => calls[q] \in Call
  BY DEF StoreInv, Typed
<1> QED
  BY <1>2, <1>3, <1>4, <1>5 DEF StoreInv, Typed

\* A commit: one image is left, and it follows from the last.
LEMMA Committed ==
  ASSUME StoreInv, up, up', NEW n, state' = n, disk' = n, durable' = {n},
         Sound(n, minted'), Follows(n, state, minted), minted \subseteq minted', minted' \subseteq TokenIds,
         poisoned' \in BOOLEAN, fenced' \in BOOLEAN, observed' = Later(observed, n.clock),
         latest' \in 0..MaxClock, latest' <= observed',
         ended \subseteq ended', ended' \subseteq minted',
         \A t \in ended' \ ended : t \in Retained(n) => StateOf(n, t) \in Over,
         \A a \in admitted' \ admitted :
            a.token \in minted' /\ a.at \in Nat /\ AdmittedSince(n, a.token, a.at),
         acked' \subseteq acked \/ \E x \in Nat, q \in Requests :
            /\ x < n.revision /\ acked' = acked \cup {Change(q, x, n)}
            /\ \A b \in acked : b.expected # x,
         calls' \in [Requests -> Call \cup {NoCall}],
         \A q \in Requests : CallSound(q, calls', n, minted', acked')
  PROVE  StoreInv'
<1>1. /\ Sound(state, minted) /\ Keeps(state, ended, acked, admitted) /\ state \in Snapshot
      /\ observed \in 0..MaxClock
  BY Installed
<1>2. n \in Snapshot /\ n.revision \in Nat /\ n.clock \in 0..MaxClock
  BY Counters DEF Sound, Shape
<1>3. Images' = {n}
  BY DEF Images
<1>4. \A a \in acked' : a \in acked \/ (a.revision = n.revision /\ a.expected \in Nat /\ a.expected < n.revision)
  BY DEF Change
<1>5. Typed'
  <2>1. observed' \in 0..MaxClock
    BY <1>1, <1>2 DEF Later
  <2>2. \A a \in acked' : a.expected \in Nat /\ a.revision \in Nat /\ a.expected < a.revision
    BY <1>2, <1>4 DEF StoreInv, Typed
  <2>3. \A a \in admitted' : a.token \in minted' /\ a.at \in Nat
    BY DEF StoreInv, Typed
  <2> QED
    BY <2>1, <2>2, <2>3 DEF Typed
<1>6. Keeps(n, ended', acked', admitted')
  <2>1. Keeps(n, ended, acked, admitted)
    BY <1>1, <1>2, KeepsOn DEF StoreInv, Typed
  <2>2. \A a \in acked' : n.revision >= a.revision
    BY <1>2, <1>4, <2>1 DEF Keeps
  <2> QED
    BY <2>1, <2>2 DEF Keeps
<1>7. NoLostUpdate'
  <2>1. CASE acked' \subseteq acked
    BY <2>1 DEF StoreInv, NoLostUpdate
  <2>2. CASE \E x \in Nat, q \in Requests : /\ x < n.revision /\ acked' = acked \cup {Change(q, x, n)}
                                            /\ \A b \in acked : b.expected # x
    <3>1. PICK x \in Nat, q \in Requests : /\ acked' = acked \cup {Change(q, x, n)}
                                           /\ \A b \in acked : b.expected # x
      BY <2>2
    <3>2. Change(q, x, n).expected = x
      BY DEF Change
    <3> QED
      BY <3>1, <3>2 DEF StoreInv, NoLostUpdate
  <2> QED
    BY <2>1, <2>2
<1>8. \A q \in Requests : CallSound(q, calls', state', minted', acked')
  OBVIOUS
<1> QED
  BY <1>3, <1>5, <1>6, <1>7, <1>8 DEF StoreInv

\* No commit: the handle keeps its snapshot, and the file may be a new one.
LEMMA Uncommitted ==
  ASSUME StoreInv, up, up', state' = state, NEW N, Images' \subseteq Images \cup N,
         \A n \in N : Sound(n, minted') /\ Follows(n, state, minted),
         minted \subseteq minted', minted' \subseteq TokenIds,
         poisoned' \in BOOLEAN, fenced' \in BOOLEAN, observed' \in 0..MaxClock,
         latest' \in 0..MaxClock, latest' <= observed',
         ended' = ended, acked' = acked, admitted' = admitted,
         calls' \in [Requests -> Call \cup {NoCall}],
         \A q \in Requests : calls'[q] = calls[q] \/ calls'[q] = NoCall
  PROVE  StoreInv'
<1>1. Typed'
  BY DEF StoreInv, Typed
<1>2. \A s \in Images' : Sound(s, minted') /\ Keeps(s, ended', acked', admitted')
  <2>1. ASSUME NEW s \in Images PROVE Sound(s, minted') /\ Keeps(s, ended', acked', admitted')
    BY SoundOn DEF StoreInv
  <2>2. ASSUME NEW n \in N PROVE Sound(n, minted') /\ Keeps(n, ended', acked', admitted')
    <3>1. state \in Snapshot /\ n \in Snapshot /\ Follows(n, state, minted) /\ Keeps(state, ended, acked, admitted)
      BY Installed DEF Sound, Shape
    <3>2. Keeps(n, ended, acked, admitted)
      BY <3>1, KeepsOn DEF StoreInv, Typed
    <3> QED
      BY <3>2
  <2> QED
    BY <2>1, <2>2
<1>3. NoLostUpdate'
  BY DEF StoreInv, NoLostUpdate
<1>4. \A q \in Requests : CallSound(q, calls', state', minted', acked')
  BY DEF StoreInv, CallSound
<1> QED
  BY <1>1, <1>2, <1>3, <1>4 DEF StoreInv


-----------------------------------------------------------------------------
(* Every step keeps StoreInv. *)

\* A candidate of the installed snapshot, pruned.
LEMMA Work ==
  ASSUME StoreInv, Ready, HasCandidate(state), NEW now \in Times
  PROVE  LET k == Next_(now)
             n == Prune(k, now)
         IN  /\ Roomy(k, minted) /\ Follows(k, state, minted) /\ Same(k, state) /\ now \in 1..k.clock
             /\ k.revision = state.revision + 1
             /\ Roomy(n, minted) /\ Follows(n, state, minted) /\ now \in 1..n.clock
             /\ n.revision = state.revision + 1 /\ n.tokens = state.tokens
             /\ Retained(n) = Retained(state) /\ Receipted(n) \subseteq Receipted(state)
<1> DEFINE k == Next_(now)
           n == Prune(k, now)
<1>0. /\ Sound(state, minted) /\ state \in Snapshot /\ observed \in 0..MaxClock /\ now \in 0..MaxClock
      /\ now \in Nat /\ now >= 1
  BY Installed, LimitAssumption DEF Ready, Times
<1>1. /\ Roomy(k, minted) /\ Follows(k, state, minted) /\ Same(k, state)
      /\ k.revision = state.revision + 1 /\ k.clock \in 0..MaxClock /\ k.clock >= now
  BY <1>0, CandidateIs DEF Next_
<1> HIDE DEF k
<1>2. now \in 1..k.clock /\ k \in Snapshot
  BY <1>0, <1>1, LimitAssumption DEF Roomy, Sound, Shape
<1>3. /\ Roomy(n, minted) /\ Follows(n, k, minted) /\ Frame(n, k) /\ n.tokens = k.tokens
      /\ Retained(n) = Retained(k) /\ Receipted(n) \subseteq Receipted(k)
  BY <1>1, PruneIs
<1> HIDE DEF n
<1>4. Follows(n, state, minted)
  BY <1>0, <1>1, <1>2, <1>3, FollowsOn DEF Roomy, Sound, Shape
<1>5. Retained(k) = Retained(state) /\ Receipted(k) = Receipted(state) /\ k.tokens = state.tokens
  BY <1>1, SameSets DEF Same
<1> QED
  BY <1>1, <1>2, <1>3, <1>4, <1>5 DEF Frame, n, k

\* The failures of a commit of n.
LEMMA FailedCommit ==
  ASSUME StoreInv, Ready, NEW n, NotSaved(n), handle' = handle,
         Sound(n, minted'), Follows(n, state, minted), minted \subseteq minted', minted' \subseteq TokenIds,
         observed' = observed, latest' = latest,
         ended' = ended, acked' = acked, admitted' = admitted,
         calls' \in [Requests -> Call \cup {NoCall}],
         \A q \in Requests : calls'[q] = calls[q] \/ calls'[q] = NoCall
  PROVE  StoreInv'
<1>1. up /\ up' /\ fenced' \in BOOLEAN /\ poisoned \in BOOLEAN
  BY DEF Ready, handle, StoreInv, Typed
<1>2. state' = state /\ poisoned' \in BOOLEAN
  BY <1>1 DEF NotSaved, SaveFailed, Indeterminate
<1>3. Images' \subseteq Images \cup {n}
  BY <1>1, <1>2 DEF NotSaved, SaveFailed, Indeterminate, Images
<1>4. /\ observed' \in 0..MaxClock /\ latest' \in 0..MaxClock /\ latest' <= observed'
  BY DEF StoreInv, Typed
<1> DEFINE N == {n}
<1>5. Images' \subseteq Images \cup N /\ \A x \in N : Sound(x, minted') /\ Follows(x, state, minted)
  BY <1>3
<1> HIDE DEF N
<1> QED
  BY <1>1, <1>2, <1>4, <1>5, Uncommitted

\* The commit of n, as Saved makes it, by an operation that leaves the waiting
\* issues alone.
LEMMA PlainCommit ==
  ASSUME StoreInv, Ready, NEW n, Saved(n), handle' = handle, calls' = calls,
         Sound(n, minted), Follows(n, state, minted), minted' = minted,
         latest' \in 0..MaxClock, latest' <= observed',
         ended \subseteq ended', ended' \subseteq minted,
         \A t \in ended' \ ended : t \in Retained(n) => StateOf(n, t) \in Over,
         \A a \in admitted' \ admitted :
            a.token \in minted /\ a.at \in Nat /\ AdmittedSince(n, a.token, a.at),
         \/ acked' = acked
         \/ \E q \in Requests : /\ state.revision < n.revision
                                /\ acked' = acked \cup {Change(q, state.revision, n)}
  PROVE  StoreInv'
<1>0. /\ Sound(state, minted) /\ state \in Snapshot /\ state.revision \in Nat
      /\ \A a \in acked : a.expected < state.revision
      /\ \A q \in Requests : CallSound(q, calls, state, minted, acked)
      /\ \A q \in Requests : calls[q] # NoCall => calls[q] \in Call
  BY Installed DEF Ready
<1>1. /\ up /\ up' /\ fenced' \in BOOLEAN /\ poisoned' \in BOOLEAN /\ minted \subseteq TokenIds
      /\ state' = n /\ disk' = n /\ durable' = {n} /\ observed' = Later(observed, n.clock)
      /\ calls' \in [Requests -> Call \cup {NoCall}]
  BY DEF Ready, handle, StoreInv, Typed, Saved
<1>2. n \in Snapshot
  BY DEF Sound, Shape
<1>3. acked' \subseteq acked \/ \E x \in Nat, q \in Requests :
         /\ x < n.revision /\ acked' = acked \cup {Change(q, x, n)}
         /\ \A b \in acked : b.expected # x
  <2>1. CASE acked' = acked
    BY <2>1
  <2>2. CASE \E q \in Requests : /\ state.revision < n.revision
                                 /\ acked' = acked \cup {Change(q, state.revision, n)}
    <3>1. PICK q \in Requests : /\ state.revision < n.revision
                                /\ acked' = acked \cup {Change(q, state.revision, n)}
      BY <2>2
    <3>2. \A b \in acked : b.expected # state.revision
      BY <1>0 DEF StoreInv, Typed
    <3> QED
      BY <1>0, <3>1, <3>2
  <2> QED
    BY <2>1, <2>2
<1>4. ASSUME NEW q \in Requests PROVE CallSound(q, calls', n, minted', acked')
  <2>1. calls[q] # NoCall => calls[q].expected \in Nat /\ calls[q].expected < state.revision
    BY <1>0 DEF CallSound, Call
  <2>2. \A a \in acked' : a \in acked \/ a.expected = state.revision
    BY DEF Change
  <2>3. \A a \in acked' : a \in acked \/ (calls[q] # NoCall => a.expected # calls[q].expected)
    BY <1>0, <2>1, <2>2
  <2> QED
    BY <1>0, <1>2, <2>1, <2>3, CallsOn
<1> QED
  BY <1>1, <1>3, <1>4, Committed


LEMMA IssueKeeps ==
  ASSUME StoreInv, NEW q \in Requests, NEW expires \in 0..MaxClock, NEW now \in Times, Issue(q, expires, now)
  PROVE  StoreInv'
<1> DEFINE n == Prune(Next_(now), now)
<1>1. /\ Ready /\ q \notin Receipted(state) /\ HasCandidate(state)
      /\ (expires # 0 => expires > now)
      /\ Cardinality(Retained(n)) < TokenLimit /\ Cardinality(Receipted(n)) < ReceiptLimit
      /\ handle' = handle /\ ended' = ended /\ acked' = acked /\ admitted' = admitted /\ latest' = latest
  BY DEF Issue
<1>2. PICK t \in Fresh :
         LET staged == Staged(n, q, t, expires, now)
         IN  /\ minted' = minted \cup {t}
             /\ \/ /\ Saved(staged)
                   /\ calls' = [calls EXCEPT ![q] =
                          [token |-> t, generated |-> 1, now |-> now, expected |-> state.revision]]
                \/ NotSaved(staged) /\ UNCHANGED <<observed, calls>>
  BY DEF Issue
<1>3. /\ Roomy(n, minted) /\ Follows(n, state, minted) /\ now \in 1..n.clock
      /\ n.revision = state.revision + 1 /\ Receipted(n) \subseteq Receipted(state)
  BY <1>1, Work
<1> HIDE DEF n
<1> DEFINE s == Staged(n, q, t, expires, now)
           c == [token |-> t, generated |-> 1, now |-> now, expected |-> state.revision]
<1>4. t \in TokenIds \ minted
  BY DEF Fresh
<1>5. Sound(s, minted') /\ Follows(s, n, minted) /\ Frame(s, n) /\ IssueOf(s, q, t)
  <2>1. q \in Requests \ Receipted(n)
    BY <1>1, <1>3
  <2>2. /\ Sound(s, minted \cup {t}) /\ Follows(s, n, minted) /\ Frame(s, n) /\ IssueOf(s, q, t)
    BY <1>1, <1>3, <1>4, <2>1, StagedIs
  <2> QED
    BY <1>2, <2>2
<1>6. /\ (Saved(s) /\ calls' = [calls EXCEPT ![q] = c]) \/ (NotSaved(s) /\ UNCHANGED <<observed, calls>>)
      /\ minted' = minted \cup {t}
  BY <1>2
<1> HIDE DEF s
<1>7. /\ up /\ state \in Snapshot /\ n \in Snapshot /\ s \in Snapshot /\ state.revision \in Nat
      /\ minted \subseteq minted' /\ minted' \subseteq TokenIds /\ t \in minted'
      /\ \A a \in acked : a.expected < state.revision
      /\ \A p \in Requests : CallSound(p, calls, state, minted, acked)
      /\ \A p \in Requests : calls[p] # NoCall => calls[p] \in Call
      /\ calls \in [Requests -> Call \cup {NoCall}]
  BY <1>1, <1>3, <1>4, <1>5, <1>6, Installed DEF Ready, Roomy, Sound, Shape, StoreInv, Typed
<1>8. Follows(s, state, minted) /\ s.revision = state.revision + 1
  BY <1>3, <1>5, <1>7, FollowsOn DEF Frame
<1>9. CASE NotSaved(s) /\ UNCHANGED <<observed, calls>>
  BY <1>1, <1>5, <1>7, <1>8, <1>9, FailedCommit
<1>10. CASE Saved(s) /\ calls' = [calls EXCEPT ![q] = c]
  <2>1. c \in Call /\ c # NoCall /\ c.token = t /\ c.expected = state.revision
    BY <1>4, <1>7, GenerationAssumption DEF Call, NoCall
  <2> HIDE DEF c
  <2>2. calls' \in [Requests -> Call \cup {NoCall}] /\ calls'[q] = c /\ \A p \in Requests \ {q} : calls'[p] = calls[p]
    BY <1>7, <1>10, <2>1
  <2>3. \A p \in Requests : calls[p] # NoCall => calls[p].expected \in Nat /\ calls[p].expected < state.revision
    BY <1>7 DEF CallSound, Call
  <2>4. ASSUME NEW p \in Requests \ {q} PROVE CallSound(p, calls', s, minted', acked')
    <3>1. \A r \in Requests : \/ calls'[r] = calls[r] \/ calls'[r] = NoCall
                              \/ (calls[p] # NoCall => calls'[r].expected # calls[p].expected)
      BY <1>7, <2>1, <2>2, <2>3
    <3> QED
      BY <1>1, <1>7, <1>8, <2>2, <2>3, <3>1, CallsOn
  <2>5. CallSound(q, calls', s, minted', acked')
    <3>1. \A p \in Requests : calls'[p] # NoCall /\ calls'[p].expected = c.expected => p = q
      BY <1>7, <2>1, <2>2, <2>3
    <3>2. c.expected < s.revision /\ \A a \in acked' : a.expected # c.expected
      BY <1>1, <1>7, <1>8, <2>1 DEF StoreInv, Typed
    <3> QED
      BY <1>5, <1>7, <2>1, <2>2, <3>1, <3>2 DEF CallSound
  <2>6. \A p \in Requests : CallSound(p, calls', s, minted', acked')
    BY <2>4, <2>5
  <2>7. /\ state' = s /\ disk' = s /\ durable' = {s} /\ up' /\ poisoned' \in BOOLEAN /\ fenced' \in BOOLEAN
        /\ observed' = Later(observed, s.clock)
    BY <1>1, <1>10 DEF Saved, Ready, handle, StoreInv, Typed
  <2>8. latest' \in 0..MaxClock /\ latest' <= observed'
    BY <1>1, <1>7, <2>7, Counters DEF StoreInv, Typed, Later
  <2>9. ended \subseteq ended' /\ ended' \subseteq minted' /\ ended' \ ended = {} /\ admitted' \ admitted = {}
        /\ acked' \subseteq acked
    BY <1>1, <1>7 DEF StoreInv, Typed
  <2> QED
    BY <1>5, <1>7, <1>8, <2>2, <2>6, <2>7, <2>8, <2>9, Committed
<1> QED
  BY <1>6, <1>9, <1>10

LEMMA IssueCollidesKeeps ==
  ASSUME StoreInv, NEW q \in Requests, IssueCollides(q)
  PROVE  StoreInv'
<1> DEFINE c == calls[q]
           k == Next_(c.now)
<1>1. /\ c # NoCall /\ Ready /\ HasCandidate(state) /\ StillPending(c.token) /\ c.generated < Generations
      /\ handle' = handle /\ ended' = ended /\ acked' = acked /\ admitted' = admitted /\ latest' = latest
  BY DEF IssueCollides
<1>2. PICK t \in Fresh :
         LET n == Restaged(k, q, c.token, t, c.generated + 1)
         IN  /\ minted' = minted \cup {t}
             /\ \/ Saved(n) /\ calls' = [calls EXCEPT ![q].token = t, ![q].generated = @ + 1]
                \/ NotSaved(n) /\ calls' = [calls EXCEPT ![q] = NoCall] /\ UNCHANGED observed
  BY DEF IssueCollides
<1>3. /\ up /\ state \in Snapshot /\ state.revision \in Nat /\ minted \subseteq TokenIds
      /\ \A p \in Requests : CallSound(p, calls, state, minted, acked)
      /\ \A p \in Requests : calls[p] # NoCall => calls[p] \in Call
      /\ calls \in [Requests -> Call \cup {NoCall}] /\ c \in Call
  BY <1>1, Installed DEF Ready, StoreInv, Typed
<1>4. c.now \in Times /\ c.generated \in 1..Generations /\ c.token \in TokenIds /\ c.expected \in Nat
  BY <1>3 DEF Call
<1>5. /\ Roomy(k, minted) /\ Follows(k, state, minted) /\ Same(k, state) /\ k.revision = state.revision + 1
      /\ k \in Snapshot
  BY <1>1, <1>4, Work DEF Roomy, Sound, Shape
<1>6. IssueOf(k, q, c.token) /\ c.token \in Retained(k) /\ StateOf(k, c.token) = "PENDING"
  <2>1. c.token \in Retained(state) /\ StateOf(state, c.token) = "PENDING"
    BY <1>1 DEF StillPending
  <2>2. IssueOf(state, q, c.token)
    BY <1>1, <1>3, <2>1 DEF CallSound
  <2>3. Receipted(k) = Receipted(state) /\ Retained(k) = Retained(state)
    BY <1>5, SameSets
  <2> QED
    BY <1>5, <2>1, <2>2, <2>3 DEF IssueOf, Same, StateOf
<1> HIDE DEF k
<1> DEFINE s == Restaged(k, q, c.token, t, c.generated + 1)
           d == [c EXCEPT !.token = t, !.generated = c.generated + 1]
<1>7. t \in TokenIds \ minted
  BY DEF Fresh
<1>8. Sound(s, minted') /\ Follows(s, k, minted) /\ Frame(s, k) /\ IssueOf(s, q, t)
  <2>1. c.generated + 1 \in Nat
    BY <1>4, GenerationAssumption
  <2>2. Sound(s, minted \cup {t}) /\ Follows(s, k, minted) /\ Frame(s, k) /\ IssueOf(s, q, t)
    BY <1>5, <1>6, <1>7, <2>1, RestagedIs
  <2> QED
    BY <1>2, <2>2
<1>9. /\ \/ Saved(s) /\ calls' = [calls EXCEPT ![q].token = t, ![q].generated = @ + 1]
         \/ NotSaved(s) /\ calls' = [calls EXCEPT ![q] = NoCall] /\ UNCHANGED observed
      /\ minted' = minted \cup {t}
  BY <1>2
<1> HIDE DEF s
<1>10. s \in Snapshot /\ minted \subseteq minted' /\ minted' \subseteq TokenIds /\ t \in minted'
  BY <1>3, <1>7, <1>8, <1>9 DEF Sound, Shape
<1>11. Follows(s, state, minted) /\ s.revision = state.revision + 1
  BY <1>3, <1>5, <1>8, <1>10, FollowsOn DEF Frame
<1>12. CASE NotSaved(s) /\ calls' = [calls EXCEPT ![q] = NoCall] /\ UNCHANGED observed
  <2>1. /\ calls' \in [Requests -> Call \cup {NoCall}]
        /\ \A p \in Requests : calls'[p] = calls[p] \/ calls'[p] = NoCall
    BY <1>3, <1>12
  <2> QED
    BY <1>1, <1>8, <1>10, <1>11, <1>12, <2>1, FailedCommit
<1>13. CASE Saved(s) /\ calls' = [calls EXCEPT ![q].token = t, ![q].generated = @ + 1]
  <2>1. d \in Call /\ d.token = t /\ d.expected = c.expected /\ d # NoCall
    <3>1. c.generated + 1 \in 1..Generations
      BY <1>1, <1>4, GenerationAssumption
    <3>2. d \in Call /\ d.token = t /\ d.expected = c.expected
      BY <1>3, <1>7, <3>1 DEF Call
    <3>3. NoCall \notin Call
      BY DEF Call, NoCall
    <3> HIDE DEF d
    <3> QED
      BY <3>2, <3>3
  <2>2. calls' = [calls EXCEPT ![q] = d]
    BY <1>3, <1>13 DEF Call
  <2> HIDE DEF d
  <2>3. calls' \in [Requests -> Call \cup {NoCall}] /\ calls'[q] = d /\ \A p \in Requests \ {q} : calls'[p] = calls[p]
    BY <1>3, <2>1, <2>2
  <2>4. \A p \in Requests : calls[p] # NoCall => calls[p].expected \in Nat /\ calls[p].expected < state.revision
    BY <1>3 DEF CallSound, Call
  <2>5. ASSUME NEW p \in Requests \ {q} PROVE CallSound(p, calls', s, minted', acked')
    <3>1. calls[p] # NoCall => calls[p].expected # c.expected
      BY <1>1, <1>3 DEF CallSound
    <3>2. \A r \in Requests : \/ calls'[r] = calls[r] \/ calls'[r] = NoCall
                              \/ (calls[p] # NoCall => calls'[r].expected # calls[p].expected)
      BY <2>1, <2>3, <3>1
    <3> QED
      BY <1>1, <1>3, <1>10, <1>11, <2>3, <2>4, <3>2, CallsOn
  <2>6. CallSound(q, calls', s, minted', acked')
    <3>1. /\ \A a \in acked : a.expected # c.expected
          /\ \A p \in Requests : calls[p] # NoCall /\ calls[p].expected = c.expected => p = q
          /\ c.expected < state.revision
      BY <1>1, <1>3 DEF CallSound
    <3>2. \A p \in Requests : calls'[p] # NoCall /\ calls'[p].expected = d.expected => p = q
      BY <2>1, <2>3, <3>1
    <3>3. d.expected < s.revision /\ \A a \in acked' : a.expected # d.expected
      BY <1>1, <1>3, <1>4, <1>11, <2>1, <3>1
    <3> QED
      BY <1>8, <1>10, <2>1, <2>3, <3>2, <3>3 DEF CallSound
  <2>7. \A p \in Requests : CallSound(p, calls', s, minted', acked')
    BY <2>5, <2>6
  <2>8. /\ state' = s /\ disk' = s /\ durable' = {s} /\ up' /\ poisoned' \in BOOLEAN /\ fenced' \in BOOLEAN
        /\ observed' = Later(observed, s.clock)
    BY <1>1, <1>13 DEF Saved, Ready, handle, StoreInv, Typed
  <2>9. latest' \in 0..MaxClock /\ latest' <= observed'
    BY <1>1, <1>10, <2>8, Counters DEF StoreInv, Typed, Later
  <2>10. ended \subseteq ended' /\ ended' \subseteq minted' /\ ended' \ ended = {} /\ admitted' \ admitted = {}
         /\ acked' \subseteq acked
    BY <1>1, <1>10 DEF StoreInv, Typed
  <2> QED
    BY <1>3, <1>8, <1>10, <1>11, <2>3, <2>7, <2>8, <2>9, <2>10, Committed
<1> QED
  BY <1>9, <1>12, <1>13


LEMMA IssueActivatesKeeps ==
  ASSUME StoreInv, NEW q \in Requests, IssueActivates(q)
  PROVE  StoreInv'
<1> DEFINE c == calls[q]
           k == Next_(c.now)
           s == Activated(k, q, c.token)
<1>1. /\ c # NoCall /\ Ready /\ HasCandidate(state) /\ StillPending(c.token)
      /\ handle' = handle /\ ended' = ended /\ minted' = minted /\ admitted' = admitted /\ latest' = latest
      /\ calls' = [calls EXCEPT ![q] = NoCall]
      /\ \/ Saved(s) /\ acked' = acked \cup {Change(q, c.expected, s)}
         \/ NotSaved(s) /\ observed' = observed /\ acked' = acked
  BY DEF IssueActivates
<1>2. /\ up /\ state \in Snapshot /\ state.revision \in Nat /\ minted \subseteq TokenIds
      /\ \A p \in Requests : CallSound(p, calls, state, minted, acked)
      /\ \A p \in Requests : calls[p] # NoCall => calls[p] \in Call
      /\ calls \in [Requests -> Call \cup {NoCall}] /\ c \in Call
  BY <1>1, Installed DEF Ready, StoreInv, Typed
<1>3. c.now \in Times /\ c.expected \in Nat
  BY <1>2 DEF Call
<1>4. /\ Roomy(k, minted) /\ Follows(k, state, minted) /\ Same(k, state) /\ k.revision = state.revision + 1
      /\ k \in Snapshot /\ Sound(k, minted)
  BY <1>1, <1>3, Work DEF Roomy, Sound, Shape
<1>5. IssueOf(k, q, c.token) /\ c.token \in Retained(k) /\ StateOf(k, c.token) = "PENDING"
  <2>1. c.token \in Retained(state) /\ StateOf(state, c.token) = "PENDING"
    BY <1>1 DEF StillPending
  <2>2. IssueOf(state, q, c.token)
    BY <1>1, <1>2, <2>1 DEF CallSound
  <2>3. Receipted(k) = Receipted(state) /\ Retained(k) = Retained(state)
    BY <1>4, SameSets
  <2> QED
    BY <1>4, <2>1, <2>2, <2>3 DEF IssueOf, Same, StateOf
<1> HIDE DEF k
<1>6. Sound(s, minted) /\ Follows(s, k, minted) /\ Frame(s, k)
  BY <1>4, <1>5, ActivatedIs
<1> HIDE DEF s
<1>7. s \in Snapshot /\ Sound(s, minted') /\ minted \subseteq minted' /\ minted' \subseteq TokenIds
  BY <1>1, <1>2, <1>6 DEF Sound, Shape
<1>8. Follows(s, state, minted) /\ s.revision = state.revision + 1
  BY <1>2, <1>4, <1>6, <1>7, FollowsOn DEF Frame
<1>9. /\ calls' \in [Requests -> Call \cup {NoCall}]
      /\ \A p \in Requests : calls'[p] = calls[p] \/ calls'[p] = NoCall
  BY <1>1, <1>2
<1>10. CASE NotSaved(s) /\ observed' = observed /\ acked' = acked
  BY <1>1, <1>7, <1>8, <1>9, <1>10, FailedCommit
<1>11. CASE Saved(s) /\ acked' = acked \cup {Change(q, c.expected, s)}
  <2>1. /\ \A a \in acked : a.expected # c.expected
        /\ \A p \in Requests : calls[p] # NoCall /\ calls[p].expected = c.expected => p = q
        /\ c.expected < state.revision
    BY <1>1, <1>2 DEF CallSound
  <2>2. ASSUME NEW p \in Requests PROVE CallSound(p, calls', s, minted', acked')
    <3>1. CASE p = q
      BY <1>1, <1>2, <3>1 DEF CallSound
    <3>2. CASE p # q
      <4>1. calls'[p] = calls[p] /\ (calls[p] # NoCall => calls[p].expected \in Nat)
        BY <1>1, <1>2, <3>2 DEF Call
      <4>2. \A a \in acked' : a \in acked \/ a.expected = c.expected
        BY <1>11 DEF Change
      <4>3. \A a \in acked' : a \in acked \/ (calls[p] # NoCall => a.expected # calls[p].expected)
        BY <2>1, <3>2, <4>2
      <4> QED
        BY <1>2, <1>7, <1>8, <1>9, <4>1, <4>3, CallsOn
    <3> QED
      BY <3>1, <3>2
  <2>3. /\ state' = s /\ disk' = s /\ durable' = {s} /\ up' /\ poisoned' \in BOOLEAN /\ fenced' \in BOOLEAN
        /\ observed' = Later(observed, s.clock)
    BY <1>1, <1>11 DEF Saved, Ready, handle, StoreInv, Typed
  <2>4. latest' \in 0..MaxClock /\ latest' <= observed'
    BY <1>1, <1>7, <2>3, Counters DEF StoreInv, Typed, Later
  <2>5. ended \subseteq ended' /\ ended' \subseteq minted' /\ ended' \ ended = {} /\ admitted' \ admitted = {}
    BY <1>1 DEF StoreInv, Typed
  <2>6. c.expected < s.revision /\ c.expected \in Nat
    BY <1>2, <1>3, <1>8, <2>1
  <2>7. \E x \in Nat, r \in Requests :
            /\ x < s.revision /\ acked' = acked \cup {Change(r, x, s)}
            /\ \A b \in acked : b.expected # x
    BY <1>11, <2>1, <2>6
  <2> QED
    BY <1>2, <1>7, <1>8, <1>9, <2>2, <2>3, <2>4, <2>5, <2>7, Committed
<1> QED
  BY <1>1, <1>10, <1>11

\* A change to the end of a token, once its snapshot is known to be good.
LEMMA MutateKeeps ==
  ASSUME StoreInv, NEW q \in Requests, NEW t, NEW now \in Times, NEW n, Mutate(q, t, now, n),
         Sound(n, minted), Follows(n, state, minted), n.revision = state.revision + 1,
         t \in Retained(n) => StateOf(n, t) \in Over
  PROVE  StoreInv'
<1>1. /\ Ready /\ handle' = handle /\ calls' = calls /\ minted' = minted /\ admitted' = admitted
      /\ latest' = latest /\ t \in Retained(state)
      /\ \/ Saved(n) /\ ended' = ended \cup {t} /\ acked' = acked \cup {Change(q, state.revision, n)}
         \/ NotSaved(n) /\ observed' = observed /\ ended' = ended /\ acked' = acked
  BY DEF Mutate
<1>2. /\ Sound(state, minted) /\ state.revision \in Nat /\ minted \subseteq TokenIds /\ t \in minted
      /\ ended \subseteq minted /\ calls \in [Requests -> Call \cup {NoCall}]
  BY <1>1, Installed DEF Ready, Sound, Shape, Known, StoreInv, Typed
<1>3. CASE NotSaved(n) /\ observed' = observed /\ ended' = ended /\ acked' = acked
  BY <1>1, <1>2, <1>3, FailedCommit
<1>4. CASE Saved(n) /\ ended' = ended \cup {t} /\ acked' = acked \cup {Change(q, state.revision, n)}
  <2>1. n \in Snapshot /\ state.revision < n.revision
    BY <1>2 DEF Sound, Shape
  <2>2. latest' \in 0..MaxClock /\ latest' <= observed'
    BY <1>1, <1>4, <2>1, Counters DEF StoreInv, Typed, Later, Saved
  <2>3. \A x \in ended' \ ended : x \in Retained(n) => StateOf(n, x) \in Over
    BY <1>4
  <2>4. admitted' \ admitted = {} /\ ended \subseteq ended' /\ ended' \subseteq minted
    BY <1>1, <1>2, <1>4
  <2> QED
    BY <1>1, <1>4, <2>1, <2>2, <2>3, <2>4, PlainCommit
<1> QED
  BY <1>1, <1>3, <1>4

LEMMA RevokeKeeps ==
  ASSUME StoreInv, NEW q \in Requests, NEW t \in TokenIds, NEW now \in Times, Revoke(q, t, now)
  PROVE  StoreInv'
<1> DEFINE n == Prune(Next_(now), now)
           s == Revoked(n, q, t, now)
<1>1. RoomForReceipt(n) /\ t \in Retained(n) /\ Mutate(q, t, now, s)
  BY DEF Revoke
<1>2. Ready /\ HasCandidate(state) /\ q \notin Receipted(state)
  BY <1>1 DEF Mutate
<1>3. /\ Roomy(n, minted) /\ Follows(n, state, minted) /\ now \in 1..n.clock
      /\ n.revision = state.revision + 1 /\ Receipted(n) \subseteq Receipted(state)
  BY <1>2, Work
<1> HIDE DEF n
<1>4. Sound(s, minted) /\ Follows(s, n, minted) /\ Frame(s, n) /\ StateOf(s, t) = "REVOKED"
  BY <1>1, <1>2, <1>3, RevokedIs DEF RoomForReceipt
<1> HIDE DEF s
<1>5. Follows(s, state, minted) /\ s.revision = state.revision + 1 /\ StateOf(s, t) \in Over
  BY <1>2, <1>3, <1>4, Installed, FollowsOn DEF Ready, Roomy, Sound, Shape, Frame, Over
<1> QED
  BY <1>1, <1>4, <1>5, MutateKeeps

LEMMA RemoveKeeps ==
  ASSUME StoreInv, NEW q \in Requests, NEW t \in TokenIds, NEW now \in Times, Remove(q, t, now)
  PROVE  StoreInv'
<1> DEFINE n == Prune(Next_(now), now)
           s == Removed(n, q, t, now)
<1>1. /\ RoomForReceipt(n) /\ t \in Retained(n) /\ Mutate(q, t, now, s)
      /\ \/ StateOf(n, t) # "REVOKED" \/ n.tokens[t].route_pending
         \/ Cardinality(Tombstoned(n)) < TombstoneLimit
  BY DEF Remove
<1>2. Ready /\ HasCandidate(state) /\ q \notin Receipted(state)
  BY <1>1 DEF Mutate
<1>3. /\ Roomy(n, minted) /\ Follows(n, state, minted) /\ now \in 1..n.clock
      /\ n.revision = state.revision + 1 /\ Receipted(n) \subseteq Receipted(state)
  BY <1>2, Work
<1> HIDE DEF n
<1>4. Sound(s, minted) /\ Follows(s, n, minted) /\ Frame(s, n) /\ (t \in Retained(s) => StateOf(s, t) = "REVOKED")
  BY <1>1, <1>2, <1>3, RemovedIs DEF RoomForReceipt
<1> HIDE DEF s
<1>5. Follows(s, state, minted) /\ s.revision = state.revision + 1 /\ "REVOKED" \in Over
  BY <1>2, <1>3, <1>4, Installed, FollowsOn DEF Ready, Roomy, Sound, Shape, Frame, Over
<1> QED
  BY <1>1, <1>4, <1>5, MutateKeeps

\* A commit that reports nothing and ends nothing.
LEMMA QuietCommit ==
  ASSUME StoreInv, Ready, NEW n, Saved(n) \/ (NotSaved(n) /\ observed' = observed),
         handle' = handle, calls' = calls, Sound(n, minted), Follows(n, state, minted),
         minted' = minted, latest' = latest, ended' = ended, acked' = acked, admitted' = admitted
  PROVE  StoreInv'
<1>1. /\ minted \subseteq TokenIds /\ ended \subseteq minted /\ calls \in [Requests -> Call \cup {NoCall}]
      /\ n \in Snapshot
  BY DEF StoreInv, Typed, Sound, Shape
<1>2. CASE NotSaved(n) /\ observed' = observed
  BY <1>1, <1>2, FailedCommit
<1>3. CASE Saved(n)
  <2>1. latest' \in 0..MaxClock /\ latest' <= observed'
    BY <1>1, <1>3, Counters DEF StoreInv, Typed, Later, Saved
  <2>2. ended' \ ended = {} /\ admitted' \ admitted = {} /\ ended \subseteq ended' /\ ended' \subseteq minted
    BY <1>1
  <2> QED
    BY <1>3, <2>1, <2>2, PlainCommit
<1> QED
  BY <1>2, <1>3

LEMMA ResumeRemoveKeeps ==
  ASSUME StoreInv, NEW q \in Requests, NEW now \in Times, ResumeRemove(q, now)
  PROVE  StoreInv'
<1> DEFINE t == state.receipts[q].token
           n == Prune(Next_(now), now)
           s == Erase(n, t, now)
<1>1. /\ Ready /\ HasCandidate(state) /\ t \in Retained(state) /\ StateOf(state, t) = "REVOKED"
      /\ ~state.tokens[t].route_pending /\ Cardinality(Tombstoned(n)) < TombstoneLimit
      /\ Saved(s) \/ (NotSaved(s) /\ observed' = observed)
      /\ handle' = handle /\ calls' = calls
      /\ minted' = minted /\ latest' = latest /\ ended' = ended /\ acked' = acked /\ admitted' = admitted
  BY DEF ResumeRemove, history
<1>2. /\ Roomy(n, minted) /\ Follows(n, state, minted) /\ now \in 1..n.clock
      /\ n.tokens = state.tokens /\ Retained(n) = Retained(state)
  BY <1>1, Work
<1> HIDE DEF t, n
<1>3. state \in Snapshot /\ n \in Snapshot /\ Shape(n, minted) /\ \A p \in Receipted(n) : TrueReceipt(n, p)
  BY <1>1, <1>2, Installed DEF Ready, Roomy, Sound, Shape
<1>4. t \in Retained(n) /\ StateOf(n, t) = "REVOKED" /\ n.tokens[t].route_pending = FALSE
  <2>1. t \in Retained(n) /\ n.tokens[t] \in Token
    BY <1>1, <1>2, <1>3, Entries
  <2> QED
    BY <1>1, <1>2, <2>1 DEF StateOf, Token
<1>5. Sound(s, minted) /\ Follows(s, n, minted)
  BY <1>1, <1>2, <1>3, <1>4, EraseIs
<1> HIDE DEF s
<1>6. Follows(s, state, minted)
  BY <1>2, <1>3, <1>5, FollowsOn DEF Sound, Shape
<1> QED
  BY <1>1, <1>5, <1>6, QuietCommit

LEMMA RouteAckKeeps ==
  ASSUME StoreInv, NEW row \in rows, NEW now \in Times, RouteAck(row, now)
  PROVE  StoreInv'
<1> DEFINE t == row.token
           k == Next_(now)
           s == Acknowledged(k, t, now)
<1>1. /\ Ready /\ HasCandidate(state) /\ t \in Retained(state) /\ StateOf(state, t) = "REVOKED"
      /\ state.tokens[t].route_pending
      /\ Saved(s) \/ (NotSaved(s) /\ observed' = observed)
      /\ handle' = handle /\ calls' = calls
      /\ minted' = minted /\ latest' = latest /\ ended' = ended /\ acked' = acked /\ admitted' = admitted
  BY DEF RouteAck, history
<1>2. Roomy(k, minted) /\ Follows(k, state, minted) /\ Same(k, state) /\ now \in 1..k.clock
  BY <1>1, Work
<1> HIDE DEF t, k
<1>3. t \in Retained(k) /\ StateOf(k, t) = "REVOKED" /\ k.tokens[t].route_pending
  BY <1>1, <1>2, SameSets DEF Same, StateOf
<1>4. Sound(s, minted) /\ Follows(s, k, minted)
  BY <1>2, <1>3, AcknowledgedIs
<1> HIDE DEF s
<1>5. Follows(s, state, minted)
  BY <1>1, <1>2, <1>4, Installed, FollowsOn DEF Ready, Roomy, Sound, Shape
<1> QED
  BY <1>1, <1>4, <1>5, QuietCommit


\* Tokens whose time has come are expired, or the handle is poisoned.
LEMMA ExpireAllKeeps ==
  ASSUME StoreInv, Ready, NEW T \in SUBSET Retained(state), \A t \in T : StateOf(state, t) = "ACTIVE",
         NEW now \in Times, ExpireAll(T, now), handle' = handle, calls' = calls, minted' = minted,
         latest' = latest \/ latest' = Later(latest, now), acked' = acked, admitted' = admitted
  PROVE  StoreInv'
<1> DEFINE seen == Later(observed, now)
           k == Candidate(state, now, seen)
           n == Expired(k, T)
<1>0. /\ Sound(state, minted) /\ state \in Snapshot /\ up /\ observed \in 0..MaxClock /\ latest \in 0..MaxClock
      /\ latest <= observed /\ now \in 0..MaxClock /\ MaxClock \in Nat
      /\ minted \subseteq TokenIds /\ ended \subseteq minted /\ calls \in [Requests -> Call \cup {NoCall}]
      /\ up' /\ fenced' \in BOOLEAN
  BY Installed, LimitAssumption DEF Ready, StoreInv, Typed, Times, handle
<1>1. /\ seen \in 0..MaxClock /\ seen >= observed /\ seen >= now
      /\ latest' \in 0..MaxClock /\ latest' <= seen
  BY <1>0 DEF Later
<1>2. \/ HasCandidate(state) /\ Saved(n) /\ ended' = ended \cup T
      \/ HasCandidate(state) /\ Indeterminate(n) /\ observed' = seen /\ ended' = ended
      \/ Poison /\ observed' = seen /\ ended' = ended
  BY DEF ExpireAll
<1> HIDE DEF seen
<1>3. ASSUME HasCandidate(state)
      PROVE  /\ Sound(n, minted) /\ Follows(n, state, minted) /\ n.clock >= seen /\ n \in Snapshot
             /\ \A t \in T : t \in Retained(n) => StateOf(n, t) \in Over
  <2>1. /\ Roomy(k, minted) /\ Follows(k, state, minted) /\ Same(k, state)
        /\ k.clock \in 0..MaxClock /\ k.clock >= seen
    BY <1>0, <1>1, <1>3, CandidateIs
  <2>2. T \subseteq Retained(k) /\ \A t \in T : StateOf(k, t) = "ACTIVE"
    BY <2>1, SameSets DEF Same, StateOf
  <2> HIDE DEF k
  <2>3. /\ Sound(n, minted) /\ Follows(n, k, minted) /\ Frame(n, k)
        /\ \A t \in T : t \in Retained(n) => StateOf(n, t) \in Over
    BY <2>1, <2>2, ExpiredIs
  <2> QED
    BY <1>0, <2>1, <2>3, FollowsOn DEF Roomy, Sound, Shape, Frame
<1> HIDE DEF n
<1>4. CASE HasCandidate(state) /\ Saved(n) /\ ended' = ended \cup T
  <2>1. T \subseteq minted
    BY <1>0 DEF Sound, Shape, Known
  <2>2. latest' <= observed'
    <3>1. n.clock \in Nat /\ n.clock >= seen /\ observed' = Later(observed, n.clock)
      BY <1>3, <1>4, Counters DEF Saved
    <3>2. observed' >= n.clock
      BY <1>0, <3>1 DEF Later
    <3> QED
      BY <1>0, <1>1, <3>1, <3>2 DEF Later
  <2>3. /\ ended \subseteq ended' /\ ended' \subseteq minted
        /\ \A t \in ended' \ ended : t \in Retained(n) => StateOf(n, t) \in Over
        /\ admitted' \ admitted = {}
    BY <1>0, <1>3, <1>4, <2>1
  <2> QED
    BY <1>1, <1>3, <1>4, <2>2, <2>3, PlainCommit
<1>5. CASE HasCandidate(state) /\ Indeterminate(n) /\ observed' = seen /\ ended' = ended
  <2> DEFINE N == {n}
  <2>1. /\ state' = state /\ poisoned' \in BOOLEAN /\ Images' \subseteq Images \cup N
        /\ \A x \in N : Sound(x, minted') /\ Follows(x, state, minted)
    BY <1>0, <1>3, <1>5 DEF Indeterminate, Images
  <2> HIDE DEF N
  <2> QED
    BY <1>0, <1>1, <1>5, <2>1, Uncommitted
<1>6. CASE Poison /\ observed' = seen /\ ended' = ended
  <2> DEFINE N == {}
  <2>1. /\ state' = state /\ poisoned' \in BOOLEAN /\ Images' \subseteq Images \cup N
        /\ \A x \in N : Sound(x, minted') /\ Follows(x, state, minted)
    BY <1>0, <1>6 DEF Poison, Images
  <2> HIDE DEF N
  <2> QED
    BY <1>0, <1>1, <1>6, <2>1, Uncommitted
<1> QED
  BY <1>2, <1>4, <1>5, <1>6

LEMMA AuthorizeKeeps ==
  ASSUME StoreInv, NEW t \in TokenIds, NEW now \in Times, Authorize(t, now)
  PROVE  StoreInv'
<1> DEFINE seen == Later(observed, now)
           n == Admitted(Candidate(state, now, seen), t, now)
<1>1. /\ Ready /\ now >= state.clock /\ t \in Retained(state) /\ StateOf(state, t) = "ACTIVE"
      /\ handle' = handle /\ calls' = calls /\ minted' = minted /\ latest' = latest /\ acked' = acked
  BY DEF Authorize
<1>0. /\ Sound(state, minted) /\ state \in Snapshot /\ up /\ observed \in 0..MaxClock /\ latest \in 0..MaxClock
      /\ latest <= observed /\ now \in 0..MaxClock /\ now \in Nat /\ MaxClock \in Nat
      /\ minted \subseteq TokenIds /\ ended \subseteq minted /\ calls \in [Requests -> Call \cup {NoCall}]
      /\ up' /\ fenced' \in BOOLEAN /\ t \in minted /\ poisoned \in BOOLEAN
  BY <1>1, Installed, LimitAssumption DEF Ready, StoreInv, Typed, Times, handle, Sound, Shape, Known
<1>2. seen \in 0..MaxClock /\ seen >= observed /\ seen >= now /\ latest' \in 0..MaxClock /\ latest' <= seen
  BY <1>0, <1>1 DEF Later
<1>3. \/ DueAt(state, t, seen) /\ ExpireAll({t}, now) /\ admitted' = admitted
      \/ /\ HasCandidate(state) /\ Saved(n) /\ admitted' = admitted \cup {[token |-> t, at |-> now]}
         /\ ended' = ended
      \/ HasCandidate(state) /\ Indeterminate(n) /\ observed' = seen /\ admitted' = admitted /\ ended' = ended
      \/ SaveFailed /\ observed' = seen /\ admitted' = admitted /\ ended' = ended
  BY DEF Authorize
<1> HIDE DEF seen
<1>4. ASSUME HasCandidate(state)
      PROVE  /\ Sound(n, minted) /\ Follows(n, state, minted) /\ n.clock >= seen /\ n \in Snapshot
             /\ AdmittedSince(n, t, now)
  BY <1>0, <1>1, <1>2, <1>4, AdmittedIs DEF Sound, Shape
<1> HIDE DEF n
<1>5. CASE DueAt(state, t, seen) /\ ExpireAll({t}, now) /\ admitted' = admitted
  <2> DEFINE T == {t}
  <2>1. T \in SUBSET Retained(state) /\ (\A x \in T : StateOf(state, x) = "ACTIVE") /\ ExpireAll(T, now)
    BY <1>1, <1>5
  <2> HIDE DEF T
  <2> QED
    BY <1>1, <1>5, <2>1, ExpireAllKeeps
<1>6. CASE /\ HasCandidate(state) /\ Saved(n) /\ admitted' = admitted \cup {[token |-> t, at |-> now]}
           /\ ended' = ended
  <2>1. latest' <= observed'
    BY <1>0, <1>1, <1>4, <1>6, Counters DEF Saved, Later
  <2>2. /\ \A a \in admitted' \ admitted : a.token \in minted /\ a.at \in Nat /\ AdmittedSince(n, a.token, a.at)
        /\ ended \subseteq ended' /\ ended' \subseteq minted /\ ended' \ ended = {}
    BY <1>0, <1>4, <1>6
  <2> QED
    BY <1>1, <1>2, <1>4, <1>6, <2>1, <2>2, PlainCommit
<1>7. CASE HasCandidate(state) /\ Indeterminate(n) /\ observed' = seen /\ admitted' = admitted /\ ended' = ended
  <2> DEFINE N == {n}
  <2>1. /\ state' = state /\ poisoned' \in BOOLEAN /\ Images' \subseteq Images \cup N
        /\ \A x \in N : Sound(x, minted') /\ Follows(x, state, minted)
    BY <1>0, <1>1, <1>4, <1>7 DEF Indeterminate, Images
  <2> HIDE DEF N
  <2> QED
    BY <1>0, <1>1, <1>2, <1>7, <2>1, Uncommitted
<1>8. CASE SaveFailed /\ observed' = seen /\ admitted' = admitted /\ ended' = ended
  <2> DEFINE N == {}
  <2>1. /\ state' = state /\ poisoned' \in BOOLEAN /\ Images' \subseteq Images \cup N
        /\ \A x \in N : Sound(x, minted') /\ Follows(x, state, minted)
    BY <1>0, <1>8 DEF SaveFailed, Images
  <2> HIDE DEF N
  <2> QED
    BY <1>0, <1>1, <1>2, <1>8, <2>1, Uncommitted
<1> QED
  BY <1>3, <1>5, <1>6, <1>7, <1>8

\* Steps that leave the snapshots alone.
LEMMA IdleKeeps ==
  ASSUME StoreInv, up, up', state' = state, Images' \subseteq Images, minted' = minted,
         poisoned' \in BOOLEAN, fenced' \in BOOLEAN, observed' \in 0..MaxClock,
         latest' \in 0..MaxClock, latest' <= observed',
         ended' = ended, acked' = acked, admitted' = admitted,
         \A q \in Requests : calls'[q] = calls[q] \/ calls'[q] = NoCall,
         calls' \in [Requests -> Call \cup {NoCall}]
  PROVE  StoreInv'
<1> DEFINE N == {}
<1>1. /\ Images' \subseteq Images \cup N
      /\ \A x \in N : Sound(x, minted') /\ Follows(x, state, minted)
  OBVIOUS
<1> HIDE DEF N
<1>2. minted' \subseteq TokenIds
  BY DEF StoreInv, Typed
<1> QED
  BY <1>1, <1>2, Uncommitted

LEMMA ExpireKeeps ==
  ASSUME StoreInv, NEW now \in Times, Expire(now)
  PROVE  StoreInv'
<1> DEFINE seen == Later(observed, now)
           due == {t \in Retained(state) : DueAt(state, t, seen)}
<1>1. /\ Ready /\ handle' = handle /\ calls' = calls /\ minted' = minted /\ acked' = acked /\ admitted' = admitted
      /\ latest' = Later(latest, now)
      /\ \/ due = {} /\ observed' = seen /\ UNCHANGED <<state, poisoned, disk, durable, ended>>
         \/ ExpireAll(due, now)
  BY DEF Expire
<1>2. CASE ExpireAll(due, now)
  <2>1. due \in SUBSET Retained(state) /\ \A t \in due : StateOf(state, t) = "ACTIVE"
    BY DEF DueAt
  <2> HIDE DEF due
  <2> QED
    BY <1>1, <1>2, <2>1, ExpireAllKeeps
<1>3. CASE due = {} /\ observed' = seen /\ UNCHANGED <<state, poisoned, disk, durable, ended>>
  <2>1. /\ up /\ up' /\ fenced' \in BOOLEAN /\ poisoned' \in BOOLEAN /\ state' = state /\ ended' = ended
        /\ calls' \in [Requests -> Call \cup {NoCall}] /\ Images' \subseteq Images
    BY <1>1, <1>3 DEF Ready, handle, StoreInv, Typed, Images
  <2>2. observed' \in 0..MaxClock /\ latest' \in 0..MaxClock /\ latest' <= observed'
    BY <1>1, <1>3, LimitAssumption DEF StoreInv, Typed, Later, Times
  <2> QED
    BY <1>1, <2>1, <2>2, IdleKeeps
<1> QED
  BY <1>1, <1>2, <1>3

LEMMA SmallStepsKeep ==
  ASSUME StoreInv,
         \/ \E q \in Requests : IssueGivesUp(q)
         \/ \E t \in TokenIds : RevokeNext(t)
         \/ \E now \in Times : SessionCheck(now)
         \/ Flush
  PROVE  StoreInv'
<1>0. /\ observed \in 0..MaxClock /\ latest \in 0..MaxClock /\ latest <= observed /\ MaxClock \in Nat
      /\ poisoned \in BOOLEAN /\ fenced \in BOOLEAN /\ calls \in [Requests -> Call \cup {NoCall}]
  BY LimitAssumption DEF StoreInv, Typed
<1>1. ASSUME NEW q \in Requests, IssueGivesUp(q) PROVE StoreInv'
  <2>1. /\ up /\ up' /\ fenced' = fenced /\ poisoned' = poisoned /\ state' = state /\ ended' = ended
        /\ calls' = [calls EXCEPT ![q] = NoCall] /\ Images' \subseteq Images
        /\ minted' = minted /\ acked' = acked /\ admitted' = admitted /\ latest' = latest /\ observed' = observed
    BY <1>1 DEF IssueGivesUp, handle, history, Images
  <2>2. /\ calls' \in [Requests -> Call \cup {NoCall}]
        /\ \A p \in Requests : calls'[p] = calls[p] \/ calls'[p] = NoCall
    BY <1>0, <2>1
  <2> QED
    BY <1>0, <2>1, <2>2, IdleKeeps
<1>2. ASSUME NEW t \in TokenIds, RevokeNext(t) PROVE StoreInv'
  <2>1. /\ up /\ up' /\ fenced' = fenced /\ poisoned' = poisoned /\ state' = state /\ ended' = ended
        /\ calls' = calls /\ Images' \subseteq Images
        /\ minted' = minted /\ acked' = acked /\ admitted' = admitted /\ latest' = latest /\ observed' = observed
    BY <1>2 DEF RevokeNext, handle, history, Images
  <2> QED
    BY <1>0, <2>1, IdleKeeps
<1>3. ASSUME NEW now \in Times, SessionCheck(now) PROVE StoreInv'
  <2>1. /\ up /\ up' /\ fenced' = fenced /\ poisoned' = poisoned /\ state' = state /\ ended' = ended
        /\ calls' = calls /\ Images' \subseteq Images
        /\ minted' = minted /\ acked' = acked /\ admitted' = admitted
        /\ latest' = Later(latest, now) /\ observed' = Later(observed, now)
    BY <1>3 DEF SessionCheck, handle, history, Images
  <2>2. observed' \in 0..MaxClock /\ latest' \in 0..MaxClock /\ latest' <= observed'
    BY <1>0, <2>1 DEF Later, Times
  <2> QED
    BY <1>0, <2>1, <2>2, IdleKeeps
<1>4. ASSUME Flush PROVE StoreInv'
  <2>1. /\ up /\ up' /\ fenced' \in BOOLEAN /\ poisoned' \in BOOLEAN /\ state' = state /\ ended' = ended
        /\ calls' = calls /\ Images' \subseteq Images
        /\ minted' = minted /\ acked' = acked /\ admitted' = admitted /\ latest' = latest /\ observed' = observed
    BY <1>0, <1>4 DEF Flush, history, Images
  <2> QED
    BY <1>0, <2>1, IdleKeeps
<1> QED
  BY <1>1, <1>2, <1>3, <1>4

\* Nothing is lost with the process but what was not written.
LEMMA DownKeeps ==
  ASSUME StoreInv, Crash \/ PowerFails
  PROVE  StoreInv'
<1>1. /\ ~up' /\ poisoned' = FALSE /\ fenced' = FALSE /\ observed' = 0 /\ latest' = 0
      /\ calls' = [q \in Requests |-> NoCall]
      /\ minted' = minted /\ ended' = ended /\ acked' = acked /\ admitted' = admitted /\ up' = FALSE
  BY DEF Crash, PowerFails, Down
<1>2. Images' \subseteq Images
  BY <1>1 DEF Crash, PowerFails, Images
<1>3. Typed'
  <2>1. calls' \in [Requests -> Call \cup {NoCall}]
    BY <1>1
  <2>2. 0 \in 0..MaxClock /\ TRUE \in BOOLEAN /\ FALSE \in BOOLEAN
    BY LimitAssumption
  <2>3. up' \in BOOLEAN /\ poisoned' \in BOOLEAN /\ fenced' \in BOOLEAN
    BY <1>1
  <2>4. observed' \in 0..MaxClock /\ latest' \in 0..MaxClock
    BY <1>1, <2>2
  <2>5. /\ minted' \subseteq TokenIds /\ ended' \subseteq minted'
        /\ \A a \in acked' : a.expected \in Nat /\ a.revision \in Nat /\ a.expected < a.revision
        /\ \A a \in admitted' : a.token \in minted' /\ a.at \in Nat
    BY <1>1 DEF StoreInv, Typed
  <2> QED
    BY <2>1, <2>3, <2>4, <2>5 DEF Typed
<1>4. \A q \in Requests : calls'[q] = NoCall /\ CallSound(q, calls', state', minted', acked')
  BY <1>1 DEF CallSound
<1>5. NoLostUpdate' /\ latest' <= observed'
  BY <1>1 DEF StoreInv, NoLostUpdate
<1>6. \A s \in Images' : Sound(s, minted') /\ Keeps(s, ended', acked', admitted')
  BY <1>1, <1>2 DEF StoreInv
<1> QED
  BY <1>1, <1>3, <1>4, <1>5, <1>6 DEF StoreInv

LEMMA OpenKeeps ==
  ASSUME StoreInv, Open
  PROVE  StoreInv'
<1> DEFINE k == Candidate(disk, disk.clock, 0)
           n == Recovered(k)
<1>0. /\ ~up /\ Sound(disk, minted) /\ disk \in Snapshot /\ Keeps(disk, ended, acked, admitted)
      /\ disk.clock \in 0..MaxClock /\ disk.clock \in Nat /\ MaxClock \in Nat
      /\ minted \subseteq TokenIds /\ ended \subseteq minted /\ latest = 0 /\ 0 \in 0..MaxClock
      /\ \A q \in Requests : calls[q] = NoCall
  <2>1. disk \in Images /\ ~up
    BY DEF Images, Open
  <2>2. /\ Sound(disk, minted) /\ disk \in Snapshot /\ Keeps(disk, ended, acked, admitted)
    BY <2>1 DEF StoreInv, Sound, Shape
  <2> QED
    BY <2>1, <2>2, Counters, LimitAssumption DEF StoreInv, Typed
<1>1. /\ fenced' = fenced /\ poisoned' = poisoned /\ calls' = calls /\ minted' = minted /\ acked' = acked
      /\ admitted' = admitted /\ latest' = latest
      /\ \/ /\ state' = disk /\ up' = TRUE /\ observed' = disk.clock
            /\ disk' = disk /\ durable' = durable /\ ended' = ended
         \/ /\ HasCandidate(disk)
            /\ state' = n /\ disk' = n /\ durable' = {n} /\ up' = TRUE /\ observed' = n.clock
            /\ ended' = ended \cup Interrupted(disk)
         \/ /\ HasCandidate(disk)
            /\ disk' = n /\ durable' = durable \cup {n}
            /\ state' = state /\ up' = up /\ observed' = observed /\ ended' = ended
  BY DEF Open
<1>2. ASSUME HasCandidate(disk)
      PROVE  /\ Sound(n, minted) /\ n \in Snapshot /\ Keeps(n, ended, acked, admitted)
             /\ \A t \in Interrupted(disk) : t \in Retained(n) => StateOf(n, t) \in Over
             /\ n.clock \in 0..MaxClock
  <2>1. /\ Roomy(k, minted) /\ Follows(k, disk, minted) /\ Same(k, disk)
    BY <1>0, <1>2, CandidateIs
  <2> HIDE DEF k
  <2>2. /\ Sound(n, minted) /\ Follows(n, k, minted)
        /\ \A t \in Interrupted(k) : t \in Retained(n) => StateOf(n, t) \in Over
    BY <2>1, RecoveredIs
  <2> HIDE DEF n
  <2>3. Interrupted(k) = Interrupted(disk)
    BY <2>1, SameSets DEF Interrupted, Same, StateOf
  <2>4. n \in Snapshot /\ Follows(n, disk, minted)
    BY <1>0, <2>1, <2>2, FollowsOn DEF Roomy, Sound, Shape
  <2>5. Keeps(n, ended, acked, admitted)
    BY <1>0, <2>4, KeepsOn DEF StoreInv, Typed
  <2> QED
    BY <2>2, <2>3, <2>4, <2>5, Counters
<1> HIDE DEF n
<1>3. Interrupted(disk) \subseteq minted
  BY <1>0 DEF Interrupted, Sound, Shape, Known
<1>4. Typed'
  <2>1. up' \in BOOLEAN /\ observed' \in 0..MaxClock /\ ended' \subseteq minted'
    BY <1>0, <1>1, <1>2, <1>3 DEF StoreInv, Typed
  <2> QED
    BY <1>1, <2>1 DEF StoreInv, Typed
<1>5. \A s \in Images' : Sound(s, minted') /\ Keeps(s, ended', acked', admitted')
  <2>1. CASE /\ state' = disk /\ up' = TRUE /\ observed' = disk.clock
             /\ disk' = disk /\ durable' = durable /\ ended' = ended
    <3>1. Images' \subseteq Images
      BY <2>1 DEF Images
    <3> QED
      BY <1>1, <2>1, <3>1 DEF StoreInv
  <2>2. CASE /\ HasCandidate(disk)
             /\ state' = n /\ disk' = n /\ durable' = {n} /\ up' = TRUE /\ observed' = n.clock
             /\ ended' = ended \cup Interrupted(disk)
    <3>1. Images' = {n}
      BY <2>2 DEF Images
    <3>2. Keeps(n, ended', acked, admitted)
      BY <1>2, <2>2 DEF Keeps
    <3> QED
      BY <1>1, <1>2, <2>2, <3>1, <3>2
  <2>3. CASE /\ HasCandidate(disk)
             /\ disk' = n /\ durable' = durable \cup {n}
             /\ state' = state /\ up' = up /\ observed' = observed /\ ended' = ended
    <3>1. Images' \subseteq Images \cup {n}
      BY <1>0, <2>3 DEF Images
    <3> QED
      BY <1>1, <1>2, <2>3, <3>1 DEF StoreInv
  <2> QED
    BY <1>1, <2>1, <2>2, <2>3
<1>6. \A q \in Requests : calls'[q] = NoCall /\ CallSound(q, calls', state', minted', acked')
  BY <1>0, <1>1 DEF CallSound
<1>7. NoLostUpdate' /\ latest' = 0 /\ latest' <= observed'
  BY <1>0, <1>1, <1>4 DEF StoreInv, NoLostUpdate, Typed
<1> QED
  BY <1>4, <1>5, <1>6, <1>7 DEF StoreInv


-----------------------------------------------------------------------------
(* The invariant of every behaviour. *)

\* The store starts closed, on a file an earlier process wrote.
LEMMA Begins == Init => StoreInv
<1> SUFFICES ASSUME Init PROVE StoreInv
  OBVIOUS
<1>1. PICK s \in InitialStores : disk = s /\ durable = {s} /\ minted = Known(s)
  BY DEF Init
<1>2. /\ ~up /\ up = FALSE /\ poisoned = FALSE /\ fenced = FALSE /\ observed = 0 /\ latest = 0
      /\ calls = [q \in Requests |-> NoCall] /\ ended = {} /\ acked = {} /\ admitted = {}
  BY DEF Init
<1>3. Images = {s}
  BY <1>1, <1>2 DEF Images
<1>4. /\ s \in Snapshot /\ Valid(s) /\ IssuedOnce(s)
      /\ \A q \in Receipted(s) : TrueReceipt(s, q)
  BY InitialAssumption
<1>5. Sound(s, minted)
  BY <1>1, <1>4 DEF Sound, Shape
<1>6. Keeps(s, ended, acked, admitted)
  BY <1>2 DEF Keeps
<1>7. Typed
  <2>1. Known(s) \subseteq TokenIds
    <3>1. \A q \in Receipted(s) : s.receipts[q] \in Receipt
      BY <1>4 DEF Snapshot, Receipted
    <3> QED
      BY <3>1 DEF Known, Retained, Tombstoned, Receipt
  <2>2. 0 \in 0..MaxClock
    BY LimitAssumption
  <2>3. calls \in [Requests -> Call \cup {NoCall}]
    BY <1>2
  <2>4. up \in BOOLEAN /\ poisoned \in BOOLEAN /\ fenced \in BOOLEAN
    BY <1>2
  <2> QED
    BY <1>1, <1>2, <2>1, <2>2, <2>3, <2>4 DEF Typed
<1>8. \A q \in Requests : calls[q] = NoCall /\ CallSound(q, calls, state, minted, acked)
  BY <1>2 DEF CallSound
<1>9. NoLostUpdate /\ latest <= observed
  BY <1>2 DEF NoLostUpdate
<1> QED
  BY <1>2, <1>3, <1>5, <1>6, <1>7, <1>8, <1>9 DEF StoreInv

LEMMA StepKeeps == StoreInv /\ [Next]_vars => StoreInv'
<1> SUFFICES ASSUME StoreInv, [Next]_vars PROVE StoreInv'
  OBVIOUS
<1>1. ASSUME NEW q \in Requests, NEW e \in 0..MaxClock, NEW now \in Times, Issue(q, e, now)
      PROVE  StoreInv'
  BY <1>1, IssueKeeps
<1>2. ASSUME NEW q \in Requests, IssueCollides(q) PROVE StoreInv'
  BY <1>2, IssueCollidesKeeps
<1>3. ASSUME NEW q \in Requests, IssueActivates(q) PROVE StoreInv'
  BY <1>3, IssueActivatesKeeps
<1>4. ASSUME NEW q \in Requests, NEW t \in TokenIds, NEW now \in Times, Revoke(q, t, now)
      PROVE  StoreInv'
  BY <1>4, RevokeKeeps
<1>5. ASSUME NEW q \in Requests, NEW t \in TokenIds, NEW now \in Times, Remove(q, t, now)
      PROVE  StoreInv'
  BY <1>5, RemoveKeeps
<1>6. ASSUME NEW q \in Requests, NEW now \in Times, ResumeRemove(q, now) PROVE StoreInv'
  BY <1>6, ResumeRemoveKeeps
<1>7. ASSUME NEW row \in rows, NEW now \in Times, RouteAck(row, now) PROVE StoreInv'
  BY <1>7, RouteAckKeeps
<1>8. ASSUME NEW t \in TokenIds, NEW now \in Times, Authorize(t, now) PROVE StoreInv'
  BY <1>8, AuthorizeKeeps
<1>9. ASSUME NEW now \in Times, Expire(now) PROVE StoreInv'
  BY <1>9, ExpireKeeps
<1>10. ASSUME \/ \E q \in Requests : IssueGivesUp(q)
              \/ \E t \in TokenIds : RevokeNext(t)
              \/ \E now \in Times : SessionCheck(now)
              \/ Flush
       PROVE  StoreInv'
  BY <1>10, SmallStepsKeep
<1>11. CASE Crash \/ PowerFails
  BY <1>11, DownKeeps
<1>12. CASE Open
  BY <1>12, OpenKeeps
<1>13. CASE UNCHANGED vars
  <2>1. /\ Images' = Images
        /\ \A q \in Requests : CallSound(q, calls', state', minted', acked')
                                  <=> CallSound(q, calls, state, minted, acked)
    BY <1>13 DEF vars, Images
  <2> QED
    BY <1>13, <2>1 DEF vars, StoreInv, Typed, NoLostUpdate
<1> QED
  BY <1>1, <1>2, <1>3, <1>4, <1>5, <1>6, <1>7, <1>8, <1>9, <1>10, <1>11, <1>12, <1>13 DEF Next

\* The invariant from which the promises of the store follow: every image a
\* failure may leave is sound and keeps the ends, changes and admissions that
\* were reported, and every issue that waits owns its token and its revision.
THEOREM StoreIsSound == Spec => []StoreInv
<1>1. Init => StoreInv
  BY Begins
<1>2. StoreInv /\ [Next]_vars => StoreInv'
  BY StepKeeps
<1> QED
  BY <1>1, <1>2, PTL DEF Spec

\* A token whose revocation, removal or expiry was committed is usable again
\* in no process: a late activation, a route that answers twice, a crash or a
\* power failure never brings it back.
THEOREM EndedStaysEnded == Spec => []NoResurrection
<1>1. StoreInv => NoResurrection
  BY DEF StoreInv, Keeps, Over, NoResurrection
<1> QED
  BY <1>1, StoreIsSound, PTL

\* Every file a start of the server may read passes validate(), within the
\* limits of the store, and what its receipts say of the tokens is true.
THEOREM ImagesSound == Spec => []ImagesAreSound
<1>1. ASSUME StoreInv PROVE ImagesAreSound
  <2>1. \A s \in Images : s \in Snapshot /\ Valid(s) /\ \A q \in Receipted(s) : TrueReceipt(s, q)
    BY <1>1 DEF StoreInv, Sound, Shape
  <2>2. \A q \in Requests : calls[q] # NoCall => calls[q].generated \in 1..Generations
    BY <1>1 DEF StoreInv, Typed, Call
  <2>3. ASTypeOK
    BY <1>1, <2>1, <2>2 DEF StoreInv, Typed, ASTypeOK
  <2> QED
    BY <2>1, <2>3 DEF ImagesAreSound, SnapshotsAreValid, ReceiptsAreTrue
<1> QED
  BY <1>1, StoreIsSound, PTL

\* A change that was reported is in every image, an admission that was granted
\* is recorded in every image that knows its token, and of the changes asked
\* for against one revision at most one was ever reported as committed.
THEOREM RepliesAreKept == Spec => []RepliesHold
<1>1. ASSUME StoreInv PROVE RepliesHold
  <2>1. \A s \in Images : Keeps(s, ended, acked, admitted)
    BY <1>1 DEF StoreInv
  <2>2. ReportedChangesSurvive
    BY <2>1 DEF Keeps, ReportedChangesSurvive
  <2>3. AdmissionsAreRecorded
    BY <2>1 DEF Keeps, AdmittedSince, AdmissionsAreRecorded
  <2> QED
    BY <1>1, <2>2, <2>3 DEF StoreInv, RepliesHold
<1> QED
  BY <1>1, StoreIsSound, PTL

\* A clock that goes back does not bring a session back: the store keeps the
\* latest time it saw, so a session whose end was seen is refused for good.
THEOREM SeenExpirySticks == Spec => []ObservedExpirySticks
<1>1. ASSUME StoreInv PROVE ObservedExpirySticks
  <2>1. observed \in Nat /\ latest \in Nat /\ latest <= observed
    BY <1>1, LimitAssumption DEF StoreInv, Typed
  <2>2. ASSUME NEW t \in TokenIds, NEW now \in Times, NEW revision \in 1..MaxRevision,
               SessionValid(t, revision, now), state.tokens[t].expires # 0
        PROVE  latest < state.tokens[t].expires
    <3>1. up /\ t \in Retained(state) /\ now >= observed /\ now < state.tokens[t].expires
      BY <2>2 DEF SessionValid, Ready
    <3>2. state \in Snapshot
      BY <1>1, <3>1 DEF StoreInv, Images, Sound, Shape
    <3>3. state.tokens[t] \in Token
      BY <3>1, <3>2 DEF Snapshot, Retained
    <3>4. state.tokens[t].expires \in Nat /\ now \in Nat
      BY <3>3, LimitAssumption DEF Token, Times
    <3> QED
      BY <2>1, <3>1, <3>4
  <2> QED
    BY <2>2 DEF ObservedExpirySticks
<1> QED
  BY <1>1, StoreIsSound, PTL

=============================================================================
