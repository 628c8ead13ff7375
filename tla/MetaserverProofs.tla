-------------------------- MODULE MetaserverProofs --------------------------
(***************************************************************************)
(* What the server relies on in its dealings with the metaserver, for      *)
(* every value of the constants: the publish sequence on disk              *)
(* (PublishSequence), the rendezvous control (RendezvousControl), the      *)
(* publisher's idea of what has been published (MetaserverPublisher) and   *)
(* the budget of traversal attempts (AttemptBudget).                       *)
(***************************************************************************)
EXTENDS MetaserverPublisher, PublishSequence, RendezvousControl, AttemptBudget,
        FiniteSetTheorems, TLAPS

-----------------------------------------------------------------------------
(* The publish sequence. *)

Other == 1 - op.target

\* No file that may be left has a number above the one that is seen.
Highest == \A i \in Slots : \A v \in may[i] : v <= Highwater

\* An operation replaces the lower file by a higher number, and what it was
\* asked for is synchronised before the older file goes.
OperationSound ==
    op # Idle =>
        /\ slot[Other] < op.desired
        /\ op.step = "unlink" => slot[op.target] < slot[Other]
        /\ op.step = "create" => slot[op.target] = Absent
        /\ op.step \in {"sync", "cleanup"} => slot[op.target] = op.desired
        /\ op.step = "cleanup" /\ ~relied => may[op.target] = {op.desired}

SequenceInv == SequenceSound /\ Highest /\ OperationSound

\* The greater of two numbers.
LEMMA MaxOfTwo ==
  ASSUME NEW a \in Nat, NEW b \in Nat
  PROVE  Max({a, b}) = IF a < b THEN b ELSE a
<1>1. \E x \in {a, b} : \A y \in {a, b} : x >= y
  OBVIOUS
<1>2. Max({a, b}) \in {a, b} /\ \A y \in {a, b} : Max({a, b}) >= y
  BY <1>1 DEF Max
<1> QED
  BY <1>2

\* The first state has no file.
LEMMA SequenceInitially == SequenceInit => SequenceInv
<1> SUFFICES ASSUME SequenceInit PROVE SequenceInv
  OBVIOUS
<1> USE MaxSeqAssumption DEF SequenceInit, Slots, Absent
<1>1. PSTypeOK
  <2>1. relied \in BOOLEAN
    BY Zenon
  <2>2. QED
    BY <2>1 DEF PSTypeOK
<1>2. slot[0] = 0 /\ slot[1] = 0 /\ may[0] = {0} /\ may[1] = {0}
  OBVIOUS
<1>3. Unambiguous /\ ReservedIsDurable /\ Highest
  BY <1>2 DEF Unambiguous, Readable, ReservedIsDurable, Highest, Highwater
<1>4. OperationSound
  BY DEF OperationSound
<1> QED
  BY <1>1, <1>3, <1>4 DEF SequenceInv, SequenceSound

\* An operation begins with a number above every file.
LEMMA PersistKeeps ==
  ASSUME SequenceInv, op = Idle, Readable,
         NEW kind \in {"reserve", "recover"}, NEW desired \in 0..MaxSeq, Persist(kind, desired)
  PROVE  SequenceInv'
<1> USE MaxSeqAssumption DEF Slots, Absent, Idle
<1>1. /\ slot[0] \in 0..MaxSeq /\ slot[1] \in 0..MaxSeq /\ Highwater \in 0..MaxSeq
      /\ slot[0] <= Highwater /\ slot[1] <= Highwater
  BY DEF SequenceInv, SequenceSound, PSTypeOK, Highwater
<1>2. desired > Highwater /\ desired \in 1..MaxSeq
  BY <1>1 DEF Persist, Reached
<1>3. Target \in Slots /\ (slot[Target] # Absent => slot[Target] < slot[1 - Target])
  BY <1>1 DEF Target, Readable
<1>4. /\ op' = [step   |-> IF slot[Target] = Absent THEN "create" ELSE "unlink",
                kind   |-> kind, desired |-> desired, target |-> Target]
      /\ UNCHANGED <<slot, may, last, relied>>
  BY DEF Persist
<1>5. PSTypeOK'
  BY <1>2, <1>3, <1>4 DEF SequenceInv, SequenceSound, PSTypeOK, Steps
<1>6. Unambiguous' /\ ReservedIsDurable' /\ Highest'
  BY <1>4 DEF SequenceInv, SequenceSound, Unambiguous, Readable, ReservedIsDurable, Highest, Highwater
<1>7. OperationSound'
  BY <1>1, <1>2, <1>3, <1>4 DEF OperationSound, Other
<1> QED
  BY <1>5, <1>6, <1>7 DEF SequenceInv, SequenceSound

\* What is known while an operation is under way.
LEMMA Underway ==
  ASSUME SequenceInv, op # Idle
  PROVE  /\ op \in [step : Steps, kind : {"reserve", "recover"}, desired : 1..MaxSeq, target : {0, 1}]
         /\ op.target \in {0, 1} /\ Other \in {0, 1} /\ Other # op.target
         /\ op.desired \in 1..MaxSeq
         /\ slot \in [{0, 1} -> 0..MaxSeq] /\ may \in [{0, 1} -> SUBSET (0..MaxSeq)]
         /\ slot[op.target] \in may[op.target] /\ slot[Other] \in may[Other]
         /\ last \in 0..MaxSeq
         /\ ~relied => last <= Highwater
         /\ op.step # "cleanup" /\ op.step # "sync" => Highwater = slot[Other]
<1> USE MaxSeqAssumption DEF SequenceInv, SequenceSound, PSTypeOK, Slots, Absent
<1>1. /\ op \in [step : Steps, kind : {"reserve", "recover"}, desired : 1..MaxSeq, target : {0, 1}]
      /\ op.target \in {0, 1} /\ Other \in {0, 1} /\ Other # op.target
      /\ op.desired \in 1..MaxSeq
      /\ op.step \in Steps
  BY DEF Other
<1>2. /\ slot \in [{0, 1} -> 0..MaxSeq] /\ may \in [{0, 1} -> SUBSET (0..MaxSeq)]
      /\ slot[0] \in may[0] /\ slot[1] \in may[1] /\ last \in 0..MaxSeq
  OBVIOUS
<1>3. ~relied => last <= Highwater
  BY <1>2 DEF ReservedIsDurable, Highwater
<1>4. op.step # "cleanup" /\ op.step # "sync" => Highwater = slot[Other]
  <2>1. CASE op.step = "unlink"
    BY <1>1, <1>2, <2>1 DEF OperationSound, Highwater, Other
  <2>2. CASE op.step = "create"
    BY <1>1, <1>2, <2>2 DEF OperationSound, Highwater, Other
  <2> QED
    BY <1>1, <2>1, <2>2 DEF Steps
<1> QED
  BY <1>1, <1>2, <1>3, <1>4

\* Nothing of an operation that ended is left but the files.
LEMMA EndsKeeps ==
  ASSUME SequenceInv, op' = Idle, UNCHANGED <<slot, may, last, relied>>
  PROVE  SequenceInv'
  BY DEF SequenceInv, SequenceSound, PSTypeOK, Unambiguous, Readable, ReservedIsDurable, Highest,
         Highwater, OperationSound

\* The lower file goes; a number that was never synchronised then counts.
LEMMA UnlinkKeeps ==
  ASSUME SequenceInv, op # Idle, Unlink
  PROVE  SequenceInv'
<1> USE Underway, MaxSeqAssumption DEF Absent
<1> DEFINE t == op.target
           o == Other
<1>1. /\ op.step = "unlink"
      /\ slot' = [slot EXCEPT ![t] = 0] /\ may' = [may EXCEPT ![t] = @ \cup {0}]
      /\ op' = [op EXCEPT !.step = "create"]
      /\ relied' = (relied \/ may[o] # {slot[o]}) /\ last' = last
  BY DEF Unlink, Replace, Other
<1>2. /\ op'.target = t /\ op'.desired = op.desired /\ op'.step = "create" /\ Other' = o
      /\ op' \in [step : Steps, kind : {"reserve", "recover"}, desired : 1..MaxSeq, target : {0, 1}]
  BY <1>1 DEF Steps, Other
<1>3. /\ slot'[t] = 0 /\ slot'[o] = slot[o] /\ may'[t] = may[t] \cup {0} /\ may'[o] = may[o]
      /\ slot[t] < slot[o] /\ slot[o] < op.desired
  BY <1>1 DEF SequenceInv, OperationSound, Idle
<1>4. Highwater' = Highwater /\ Highwater = slot[o]
  BY <1>1, <1>3 DEF Highwater, Other
<1>5. PSTypeOK'
  <2>1. relied' \in BOOLEAN
    BY <1>1, Zenon
  <2> QED
    BY <1>1, <1>2, <1>3, <2>1 DEF PSTypeOK, Slots, SequenceInv, SequenceSound
<1>6. Unambiguous'
  BY <1>1, <1>3 DEF Unambiguous, Readable, SequenceInv, SequenceSound, Other
<1>7. ReservedIsDurable'
  <2> SUFFICES ASSUME ~relied', NEW v0 \in may'[0], NEW v1 \in may'[1]
               PROVE  last <= v0 \/ last <= v1
    BY <1>1 DEF ReservedIsDurable
  <2>1. may[o] = {slot[o]} /\ last <= slot[o]
    BY <1>1, <1>4
  <2> QED
    BY <1>3, <2>1 DEF Other
<1>8. Highest'
  BY <1>3, <1>4 DEF Highest, Slots, SequenceInv, Other
<1>9. OperationSound'
  BY <1>2, <1>3, <1>1 DEF OperationSound, Idle
<1> QED
  BY <1>5, <1>6, <1>7, <1>8, <1>9 DEF SequenceInv, SequenceSound

\* The new number is above every other one.
LEMMA CreateKeeps ==
  ASSUME SequenceInv, op # Idle, Create
  PROVE  SequenceInv'
<1> USE Underway, MaxSeqAssumption DEF Absent
<1> DEFINE t == op.target
           o == Other
<1>1. /\ op.step = "create"
      /\ slot' = [slot EXCEPT ![t] = op.desired] /\ may' = [may EXCEPT ![t] = @ \cup {op.desired}]
      /\ op' = [op EXCEPT !.step = "sync"] /\ relied' = relied /\ last' = last
  BY DEF Create, Replace
<1>2. /\ op'.target = t /\ op'.desired = op.desired /\ op'.step = "sync" /\ Other' = o
      /\ op' \in [step : Steps, kind : {"reserve", "recover"}, desired : 1..MaxSeq, target : {0, 1}]
  BY <1>1 DEF Steps, Other
<1>3. /\ slot'[t] = op.desired /\ slot'[o] = slot[o]
      /\ may'[t] = may[t] \cup {op.desired} /\ may'[o] = may[o]
      /\ slot[t] = 0 /\ slot[o] < op.desired
  BY <1>1 DEF SequenceInv, OperationSound, Idle
<1>4. Highwater' = op.desired /\ Highwater = slot[o]
  BY <1>1, <1>3 DEF Highwater, Other
<1>5. PSTypeOK'
  BY <1>1, <1>2, <1>3 DEF PSTypeOK, Slots, SequenceInv, SequenceSound
<1>6. \A v \in may[o] : v < op.desired
  BY <1>3, <1>4 DEF SequenceInv, Highest, Slots
<1>7. Unambiguous'
  BY <1>1, <1>3, <1>6 DEF Unambiguous, Readable, SequenceInv, SequenceSound, Other
<1>8. ReservedIsDurable'
  <2> SUFFICES ASSUME ~relied, NEW v0 \in may'[0], NEW v1 \in may'[1]
               PROVE  last <= v0 \/ last <= v1
    BY <1>1 DEF ReservedIsDurable
  <2>1. last <= op.desired
    BY <1>3, <1>4
  <2>2. \A w0 \in may[0], w1 \in may[1] : last <= w0 \/ last <= w1
    BY DEF SequenceInv, SequenceSound, ReservedIsDurable
  <2> QED
    BY <1>3, <2>1, <2>2 DEF Other
<1>9. Highest'
  <2>1. \A v \in may[t] : v <= op.desired
    BY <1>3, <1>4 DEF SequenceInv, Highest, Slots
  <2> QED
    BY <1>3, <1>4, <1>6, <2>1 DEF Highest, Slots, Other
<1>10. OperationSound'
  BY <1>2, <1>3 DEF OperationSound, Idle
<1> QED
  BY <1>5, <1>7, <1>8, <1>9, <1>10 DEF SequenceInv, SequenceSound

\* Both entries are synchronised, or the new one is relied on as it is.
LEMMA SyncKeeps ==
  ASSUME SequenceInv, op # Idle, Sync
  PROVE  SequenceInv'
<1> USE Underway, MaxSeqAssumption DEF Absent
<1> DEFINE t == op.target
           o == Other
<1>1. /\ op.step = "sync" /\ slot' = slot /\ last' = last
      /\ op' = [op EXCEPT !.step = "cleanup"]
  BY DEF Sync
<1>2. /\ op'.target = t /\ op'.desired = op.desired /\ op'.step = "cleanup" /\ Other' = o
      /\ op' \in [step : Steps, kind : {"reserve", "recover"}, desired : 1..MaxSeq, target : {0, 1}]
  BY <1>1 DEF Steps, Other
<1>3. slot[t] = op.desired /\ slot[o] < op.desired
  BY <1>1 DEF SequenceInv, OperationSound, Idle
<1>4. Highwater' = Highwater
  BY <1>1 DEF Highwater
<1>5. CASE may' = Synchronised /\ UNCHANGED relied
  <2>1. may'[0] = {slot[0]} /\ may'[1] = {slot[1]} /\ may'[t] = {slot[t]} /\ relied' = relied
    BY <1>5 DEF Synchronised, Slots
  <2>2. PSTypeOK'
    BY <1>1, <1>2, <1>5, <2>1 DEF PSTypeOK, Slots, SequenceInv, SequenceSound, Synchronised
  <2>3. Unambiguous' /\ Highest' /\ ReservedIsDurable'
    BY <1>1, <1>4, <2>1
    DEF Unambiguous, Readable, SequenceInv, SequenceSound, Highest, Slots, ReservedIsDurable, Highwater
  <2>4. OperationSound'
    BY <1>1, <1>2, <1>3, <2>1 DEF OperationSound, Idle
  <2> QED
    BY <2>2, <2>3, <2>4 DEF SequenceInv, SequenceSound
<1>6. CASE relied' = TRUE /\ UNCHANGED may
  <2>1. relied' \in BOOLEAN
    BY <1>6, Zenon
  <2>2. PSTypeOK'
    BY <1>1, <1>2, <1>6, <2>1 DEF PSTypeOK, Slots, SequenceInv, SequenceSound
  <2>3. Unambiguous' /\ Highest' /\ ReservedIsDurable'
    BY <1>1, <1>4, <1>6
    DEF Unambiguous, Readable, SequenceInv, SequenceSound, Highest, ReservedIsDurable
  <2>4. OperationSound'
    BY <1>1, <1>2, <1>3, <1>6 DEF OperationSound, Idle
  <2> QED
    BY <2>2, <2>3, <2>4 DEF SequenceInv, SequenceSound
<1> QED
  BY <1>5, <1>6 DEF Sync

\* The older file goes, and the operation is reported.
LEMMA CleanupKeeps ==
  ASSUME SequenceInv, op # Idle, Cleanup
  PROVE  SequenceInv'
<1> USE Underway, MaxSeqAssumption DEF Absent
<1> DEFINE t == op.target
           o == Other
<1>1. /\ op.step = "cleanup" /\ op' = Idle /\ relied' = relied
      /\ last' = IF op.kind = "reserve" THEN op.desired ELSE last
      /\ \/ slot' = [slot EXCEPT ![o] = 0] /\ may' = [may EXCEPT ![o] = @ \cup {0}]
         \/ slot' = slot /\ may' = may
  BY DEF Cleanup, Replace, Other
<1>2. slot[t] = op.desired /\ slot[o] < op.desired /\ (~relied => may[t] = {op.desired})
  BY <1>1 DEF SequenceInv, OperationSound, Idle
<1>3. /\ slot' \in [{0, 1} -> 0..MaxSeq] /\ may' \in [{0, 1} -> SUBSET (0..MaxSeq)]
      /\ slot'[t] = slot[t] /\ may'[t] = may[t]
      /\ slot'[o] \in {slot[o], 0} /\ slot'[o] \in may'[o]
      /\ may'[o] \subseteq may[o] \cup {0}
  BY <1>1
<1>4. Highwater = op.desired /\ Highwater' = op.desired
  BY <1>2, <1>3 DEF Highwater, Other
<1>5. last' \in 0..MaxSeq /\ (~relied => last' <= op.desired)
  BY <1>1, <1>4
<1>6. PSTypeOK'
  BY <1>1, <1>3, <1>5 DEF PSTypeOK, Slots, SequenceInv, SequenceSound, Other
<1>7. Unambiguous'
  BY <1>2, <1>3 DEF Unambiguous, Readable, SequenceInv, SequenceSound, Other
<1>8. ReservedIsDurable'
  BY <1>1, <1>2, <1>3, <1>5 DEF ReservedIsDurable, Other
<1>9. Highest'
  BY <1>3, <1>4 DEF Highest, Slots, SequenceInv, Other
<1> QED
  BY <1>1, <1>6, <1>7, <1>8, <1>9 DEF SequenceInv, SequenceSound, OperationSound

\* A power failure leaves two files that may be left.
LEMMA PowerFailureKeeps ==
  ASSUME SequenceInv, PowerFailure
  PROVE  SequenceInv'
<1> USE MaxSeqAssumption DEF Slots, Absent
<1>1. PICK left \in [Slots -> 0..MaxSeq] :
          /\ \A i \in Slots : left[i] \in may[i]
          /\ slot' = left /\ may' = [i \in Slots |-> {left[i]}]
  BY DEF PowerFailure
<1>2. op' = Idle /\ last' = last /\ relied' = relied
  BY DEF PowerFailure
<1>3. /\ slot'[0] \in may[0] /\ slot'[1] \in may[1] /\ may'[0] = {slot'[0]} /\ may'[1] = {slot'[1]}
      /\ slot'[0] \in 0..MaxSeq /\ slot'[1] \in 0..MaxSeq
  BY <1>1
<1>4. PSTypeOK'
  BY <1>1, <1>2 DEF PSTypeOK, SequenceInv, SequenceSound
<1>5. Unambiguous' /\ ReservedIsDurable'
  BY <1>2, <1>3 DEF SequenceInv, SequenceSound, Unambiguous, Readable, ReservedIsDurable
<1>6. Highest'
  BY <1>3 DEF Highest, Highwater
<1> QED
  BY <1>2, <1>4, <1>5, <1>6 DEF SequenceInv, SequenceSound, OperationSound

\* Every step keeps the files and the operation sound.
LEMMA SequenceStep == SequenceInv /\ [SequenceNext]_sequence_vars => SequenceInv'
<1> SUFFICES ASSUME SequenceInv, [SequenceNext]_sequence_vars PROVE SequenceInv'
  OBVIOUS
<1>1. Highwater \in 0..MaxSeq
  BY DEF SequenceInv, SequenceSound, PSTypeOK, Highwater, Slots
<1>2. CASE Reserve
  <2>1. Highwater + 1 \in 0..MaxSeq
    BY <1>1, <1>2, MaxSeqAssumption DEF Reserve, Exhausted
  <2> QED
    BY <1>2, <2>1, PersistKeeps DEF Reserve
<1>3. ASSUME NEW minimum \in 1..MaxSeq, Recover(minimum) PROVE SequenceInv'
  <2>1. Max({Highwater, minimum - 1}) \in 0..MaxSeq
    BY <1>1, MaxOfTwo, MaxSeqAssumption
  <2> QED
    BY <1>3, <2>1, PersistKeeps DEF Recover
<1>4. CASE Fail \/ Crash
  BY <1>4, EndsKeeps DEF Fail, Crash
<1>5. CASE Unlink
  <2>1. op # Idle
    BY <1>5 DEF Unlink, Idle
  <2> QED
    BY <1>5, <2>1, UnlinkKeeps
<1>6. CASE Create
  <2>1. op # Idle
    BY <1>6 DEF Create, Idle
  <2> QED
    BY <1>6, <2>1, CreateKeeps
<1>7. CASE Sync
  <2>1. op # Idle
    BY <1>7 DEF Sync, Idle
  <2> QED
    BY <1>7, <2>1, SyncKeeps
<1>8. CASE Cleanup
  <2>1. op # Idle
    BY <1>8 DEF Cleanup, Idle
  <2> QED
    BY <1>8, <2>1, CleanupKeeps
<1>9. CASE PowerFailure
  BY <1>9, PowerFailureKeeps
<1>10. CASE UNCHANGED sequence_vars
  <2>1. UNCHANGED <<slot, may, op, last, relied>>
    BY <1>10 DEF sequence_vars
  <2>2. PSTypeOK' /\ Unambiguous' /\ ReservedIsDurable' /\ Highest'
    BY <2>1 DEF SequenceInv, SequenceSound, PSTypeOK, Unambiguous, Readable, ReservedIsDurable,
                Highest, Highwater
  <2>3. OperationSound'
    BY <2>1 DEF SequenceInv, OperationSound, Other
  <2> QED
    BY <2>2, <2>3 DEF SequenceInv, SequenceSound
<1> QED
  BY <1>2, <1>3, <1>4, <1>5, <1>6, <1>7, <1>8, <1>9, <1>10 DEF SequenceNext

\* The two files never agree on a number and never forget the number that was
\* reserved last (metaserver_publisher_sequence.c), whatever call fails and
\* wherever the process or the machine dies, for every size of the space.
THEOREM SequenceIsSound == SequenceSpec => []SequenceSound
<1>1. SequenceInv => SequenceSound
  BY DEF SequenceInv
<1> QED
  BY <1>1, SequenceInitially, SequenceStep, PTL DEF SequenceSpec

-----------------------------------------------------------------------------
(* The rendezvous control. *)

\* What a thread may be about to send.
Sendable ==
    {NoSend} \cup [kind : {"ping", "punch", "complete"}, ticket : Tickets \cup {Nobody}]
             \cup [kind : {"candidate"}, ticket : Tickets, left : 0..Addresses]

\* A thread that answers has a ticket, and tickets are counted.
TicketsSound ==
    /\ send \in [Gens -> Sendable]
    /\ \A g \in Gens : pc[g] = "answer" => send[g].kind = "candidate"
    /\ IsFiniteSet(jobs) /\ IsFiniteSet(punches)

\* The thread the publisher knows of is the only one, and there is none once
\* it is stopped, or when a call does not wait for it.
ThreadsSound ==
    /\ call = NoCall \/ call \in [kind : {"start", "stop", "deinit"}, gen : Gens, join : BOOLEAN]
    /\ Alive \subseteq {newest}
    /\ state = "stopped" => Alive = {}
    /\ call # NoCall /\ ~call.join => Alive = {}
    /\ call = NoCall /\ shutdown => Alive = {}

ControlInv == RCTypeOK /\ NoStaleDisclosure /\ TicketsSound /\ ThreadsSound

\* The invariant is as strong as the property.
LEMMA ControlEnough == ControlInv => ControlSound
<1> SUFFICES ASSUME ControlInv PROVE ControlSound
  OBVIOUS
<1>1. Cardinality(Alive) <= 1
  <2>1. IsFiniteSet({newest}) /\ Cardinality({newest}) = 1
    BY FS_Singleton
  <2>2. Alive \in SUBSET {newest}
    BY DEF ControlInv, ThreadsSound
  <2> QED
    BY <2>1, <2>2, FS_Subset
<1>2. OneControl
  BY <1>1 DEF OneControl, ControlInv, ThreadsSound
<1>3. lock # Caller
  BY ControlAssumption DEF ControlInv, RCTypeOK, Caller
<1> QED
  BY <1>2, <1>3 DEF ControlInv, ControlSound

\* No thread, no ticket and no call.
LEMMA ControlInitially == ControlInit => ControlInv
<1> SUFFICES ASSUME ControlInit PROVE ControlInv
  OBVIOUS
<1> USE ControlAssumption DEF ControlInit
<1>1. RCTypeOK
  <2>1. shutdown \in BOOLEAN
    BY Zenon
  <2> QED
    BY <2>1, FS_EmptySet DEF RCTypeOK, Gens, Places, Nobody
<1>2. NoStaleDisclosure
  BY DEF NoStaleDisclosure
<1>3. TicketsSound
  BY FS_EmptySet DEF TicketsSound, Sendable
<1>4. ThreadsSound
  BY DEF ThreadsSound, Alive
<1> QED
  BY <1>1, <1>2, <1>3, <1>4 DEF ControlInv

\* A thread that goes on neither starts nor joins a thread, and has no
\* disclosure under way.
LEMMA MoveKeeps ==
  ASSUME ControlInv, NEW g \in Gens,
         NEW from \in Places \ {"none", "gone", "send"}, NEW to \in Places \ {"none", "send"},
         Goto(g, from, to),
         UNCHANGED <<generation, shutdown, newest, call, lock>>, state' \in {state, "exited"}
  PROVE  ThreadsSound' /\ NoStaleDisclosure' /\ pc' \in [Gens -> Places]
<1>1. /\ pc \in [Gens -> Places] /\ pc[g] = from /\ pc' = [pc EXCEPT ![g] = to]
  BY DEF ControlInv, RCTypeOK, Goto
<1>2. pc' \in [Gens -> Places]
  BY <1>1
<1>3. Alive' \subseteq Alive /\ g \in Alive
  BY <1>1 DEF Alive
<1>4. ThreadsSound'
  BY <1>3 DEF ControlInv, ThreadsSound
<1>5. NoStaleDisclosure'
  BY <1>1 DEF ControlInv, NoStaleDisclosure, Current
<1> QED
  BY <1>2, <1>4, <1>5

\* The steps of a thread that leave the tickets alone.
LEMMA PlainKeeps ==
  ASSUME ControlInv, NEW g \in Gens,
         Check(g) \/ Budget(g) \/ Wait(g) \/ Connect(g) \/ Exit(g) \/ Loop(g) \/ Closed(g)
  PROVE  ControlInv'
<1> DEFINE Move(from, to) == Goto(g, from, to)
<1>1. /\ UNCHANGED <<generation, shutdown, newest, call, lock, send, jobs, punches>>
      /\ state' \in {state, "exited"}
      /\ tokens' = tokens \/ (tokens > 0 /\ tokens' = tokens - 1)
      /\ \E from \in Places \ {"none", "gone", "send"}, to \in Places \ {"none", "send", "answer"} :
            Move(from, to)
  <2>1. CASE Check(g)
    BY <2>1 DEF Check, shared, Places
  <2>2. CASE Budget(g)
    BY <2>2 DEF Budget, shared, Places
  <2>3. CASE Wait(g)
    BY <2>3 DEF Wait, Woken, shared, Places
  <2>4. CASE Connect(g)
    BY <2>4 DEF Connect, shared, Places
  <2>5. CASE Exit(g)
    BY <2>5 DEF Exit, Places
  <2>6. CASE Loop(g)
    BY <2>6 DEF Loop, shared, Places
  <2>7. CASE Closed(g)
    BY <2>7 DEF Closed, shared, Places
  <2> QED
    BY <2>1, <2>2, <2>3, <2>4, <2>5, <2>6, <2>7
<1>2. PICK from \in Places \ {"none", "gone", "send"}, to \in Places \ {"none", "send", "answer"} :
         Move(from, to)
  BY <1>1
<1>3. ThreadsSound' /\ NoStaleDisclosure' /\ pc' \in [Gens -> Places]
  BY <1>1, <1>2, MoveKeeps
<1>4. RCTypeOK'
  BY <1>1, <1>3, ControlAssumption DEF ControlInv, RCTypeOK
<1>5. TicketsSound'
  BY <1>1, <1>2 DEF ControlInv, RCTypeOK, TicketsSound, Goto
<1> QED
  BY <1>3, <1>4, <1>5 DEF ControlInv

\* The connection ends, and with it everything about tickets.
LEMMA DisconnectKeeps ==
  ASSUME ControlInv, NEW g \in Gens, Disconnect(g)
  PROVE  ControlInv'
<1> DEFINE to == IF Current(g) THEN "wait" ELSE "exit"
<1>1. /\ Goto(g, "end", to) /\ to \in Places \ {"none", "send", "answer"}
      /\ UNCHANGED <<generation, shutdown, state, newest, call, lock>>
      /\ send' = [send EXCEPT ![g] = NoSend] /\ jobs' = {} /\ punches' = {}
      /\ tokens' \in {tokens, ControlTokens}
  BY DEF Disconnect, shared, Places
<1>2. ThreadsSound' /\ NoStaleDisclosure' /\ pc' \in [Gens -> Places]
  BY <1>1, MoveKeeps DEF Places
<1>3. RCTypeOK'
  BY <1>1, <1>2, FS_EmptySet, ControlAssumption DEF ControlInv, RCTypeOK
<1>4. TicketsSound'
  <2>1. send' \in [Gens -> Sendable]
    BY <1>1 DEF ControlInv, TicketsSound, Sendable
  <2> QED
    BY <1>1, <2>1, FS_EmptySet DEF ControlInv, RCTypeOK, TicketsSound, Goto
<1> QED
  BY <1>2, <1>3, <1>4 DEF ControlInv

\* Something other than an address is about to be sent.
LEMMA SendsKeeps ==
  ASSUME ControlInv, NEW g \in Gens, NEW from \in {"loop", "answer"},
         NEW kind \in {"ping", "punch", "complete"}, NEW t \in Tickets \cup {Nobody},
         Sends(g, from, kind, t), UNCHANGED <<shared, lock, call, jobs, punches, tokens>>
  PROVE  ControlInv'
<1>1. /\ Goto(g, from, "acquire") /\ send' = [send EXCEPT ![g] = [kind |-> kind, ticket |-> t]]
      /\ UNCHANGED <<generation, shutdown, state, newest, call, lock, jobs, punches, tokens>>
  BY DEF Sends, shared
<1>2. ThreadsSound' /\ NoStaleDisclosure' /\ pc' \in [Gens -> Places]
  BY <1>1, MoveKeeps DEF Places
<1>3. RCTypeOK'
  BY <1>1, <1>2 DEF ControlInv, RCTypeOK
<1>4. TicketsSound'
  <2>1. send' \in [Gens -> Sendable]
    BY <1>1 DEF ControlInv, TicketsSound, Sendable
  <2> QED
    BY <1>1, <2>1 DEF ControlInv, RCTypeOK, TicketsSound, Goto
<1> QED
  BY <1>2, <1>3, <1>4 DEF ControlInv

\* A ticket that was answered expires.
LEMMA ExpireKeeps ==
  ASSUME ControlInv, NEW g \in Gens, NEW t \in Tickets, Expire(g, t)
  PROVE  ControlInv'
<1>1. /\ jobs' = jobs \ {t}
      /\ UNCHANGED <<generation, shutdown, state, newest, call, lock, pc, send, punches, tokens>>
  BY DEF Expire, shared
<1>2. /\ IsFiniteSet(jobs') /\ jobs' \subseteq jobs /\ Cardinality(jobs') <= Cardinality(jobs)
      /\ Cardinality(jobs') \in Nat /\ Cardinality(jobs) \in Nat
  BY <1>1, FS_RemoveElement, FS_CardinalityType, FS_Subset DEF ControlInv, TicketsSound
<1>3. RCTypeOK'
  BY <1>1, <1>2, ControlAssumption DEF ControlInv, RCTypeOK
<1>4. NoStaleDisclosure' /\ ThreadsSound'
  BY <1>1 DEF ControlInv, NoStaleDisclosure, Current, ThreadsSound, Alive
<1>5. TicketsSound'
  BY <1>1, <1>2 DEF ControlInv, TicketsSound
<1> QED
  BY <1>3, <1>4, <1>5 DEF ControlInv

\* A ticket is claimed while there is a place for it.
LEMMA CandidateKeeps ==
  ASSUME ControlInv, NEW g \in Gens, NEW t \in Tickets, Candidate(g, t)
  PROVE  ControlInv'
<1>1. PICK n \in 0..Addresses :
         send' = [send EXCEPT ![g] = [kind |-> "candidate", ticket |-> t, left |-> n]]
  BY DEF Candidate
<1>2. /\ t \notin jobs /\ Cardinality(jobs) < JobsMax /\ jobs' = jobs \cup {t}
      /\ Goto(g, "loop", "answer")
      /\ UNCHANGED <<generation, shutdown, state, newest, call, lock, punches, tokens>>
  BY DEF Candidate, shared
<1>3. ThreadsSound' /\ NoStaleDisclosure' /\ pc' \in [Gens -> Places]
  BY <1>2, MoveKeeps DEF Places
<1>4. /\ IsFiniteSet(jobs') /\ Cardinality(jobs') = Cardinality(jobs) + 1 /\ Cardinality(jobs) \in Nat
  BY <1>2, FS_AddElement, FS_CardinalityType DEF ControlInv, TicketsSound
<1>5. RCTypeOK'
  BY <1>2, <1>3, <1>4, ControlAssumption DEF ControlInv, RCTypeOK
<1>6. TicketsSound'
  <2>1. send' \in [Gens -> Sendable]
    BY <1>1 DEF ControlInv, TicketsSound, Sendable
  <2>2. \A h \in Gens : pc'[h] = "answer" => send'[h].kind = "candidate"
    BY <1>1, <1>2 DEF ControlInv, RCTypeOK, TicketsSound, Goto
  <2> QED
    BY <1>2, <1>4, <2>1, <2>2 DEF ControlInv, TicketsSound
<1> QED
  BY <1>3, <1>5, <1>6 DEF ControlInv

\* An address is sent, or the window of the ticket opens if there is a place.
LEMMA AnswerKeeps ==
  ASSUME ControlInv, NEW g \in Gens, Answer(g)
  PROVE  ControlInv'
<1> DEFINE t == send[g].ticket
<1>1. /\ pc[g] = "answer" /\ send[g].kind = "candidate" /\ t \in Tickets
      /\ send[g] \in [kind : {"candidate"}, ticket : Tickets, left : 0..Addresses]
      /\ send \in [Gens -> Sendable]
      /\ UNCHANGED <<generation, shutdown, state, newest, call, lock, jobs, tokens>>
  <2>1. pc[g] = "answer" /\ send[g].kind = "candidate" /\ send[g] \in Sendable
    BY DEF Answer, ControlInv, TicketsSound
  <2>2. send[g] \in [kind : {"candidate"}, ticket : Tickets, left : 0..Addresses]
    BY <2>1 DEF Sendable, NoSend
  <2> QED
    BY <2>1, <2>2 DEF Answer, shared, ControlInv, TicketsSound
<1>2. CASE /\ send[g].left > 0 /\ Goto(g, "answer", "acquire")
           /\ send' = [send EXCEPT ![g].left = @ - 1] /\ UNCHANGED punches
  <2>1. ThreadsSound' /\ NoStaleDisclosure' /\ pc' \in [Gens -> Places]
    BY <1>1, <1>2, MoveKeeps DEF Places
  <2>2. RCTypeOK'
    BY <1>1, <1>2, <2>1 DEF ControlInv, RCTypeOK
  <2>3. [send[g] EXCEPT !.left = @ - 1] \in [kind : {"candidate"}, ticket : Tickets, left : 0..Addresses]
    BY <1>1, <1>2, ControlAssumption
  <2>4. send' \in [Gens -> Sendable]
    BY <1>1, <1>2, <2>3 DEF Sendable
  <2>5. TicketsSound'
    BY <1>1, <1>2, <2>4 DEF ControlInv, RCTypeOK, TicketsSound, Goto
  <2> QED
    BY <2>1, <2>2, <2>5 DEF ControlInv
<1>3. CASE Goto(g, "answer", "end") /\ UNCHANGED <<send, punches>>
  <2>1. ThreadsSound' /\ NoStaleDisclosure' /\ pc' \in [Gens -> Places]
    BY <1>1, <1>3, MoveKeeps DEF Places
  <2>2. RCTypeOK'
    BY <1>1, <1>3, <2>1 DEF ControlInv, RCTypeOK
  <2>3. TicketsSound'
    BY <1>1, <1>3 DEF ControlInv, RCTypeOK, TicketsSound, Goto
  <2> QED
    BY <2>1, <2>2, <2>3 DEF ControlInv
<1>4. CASE /\ Room(t) /\ Goto(g, "answer", "loop")
           /\ punches' = punches \cup {t} /\ send' = [send EXCEPT ![g] = NoSend]
  <2>1. ThreadsSound' /\ NoStaleDisclosure' /\ pc' \in [Gens -> Places]
    BY <1>1, <1>4, MoveKeeps DEF Places
  <2>2. IsFiniteSet(punches') /\ Cardinality(punches') <= PunchMax /\ punches' \subseteq Tickets
    <3>1. /\ IsFiniteSet(punches) /\ Cardinality(punches) \in Nat /\ Cardinality(punches) <= PunchMax
          /\ punches \subseteq Tickets
      BY FS_CardinalityType DEF ControlInv, TicketsSound, RCTypeOK
    <3>2. /\ IsFiniteSet(punches')
          /\ Cardinality(punches') = IF t \in punches THEN Cardinality(punches) ELSE Cardinality(punches) + 1
      BY <1>4, <3>1, FS_AddElement
    <3> QED
      BY <1>1, <1>4, <3>1, <3>2, ControlAssumption DEF Room
  <2>3. RCTypeOK'
    BY <1>1, <1>4, <2>1, <2>2 DEF ControlInv, RCTypeOK
  <2>4. send' \in [Gens -> Sendable]
    BY <1>1, <1>4 DEF Sendable
  <2>5. TicketsSound'
    BY <1>1, <1>4, <2>2, <2>4 DEF ControlInv, RCTypeOK, TicketsSound, Goto
  <2> QED
    BY <2>1, <2>3, <2>5 DEF ControlInv
<1>5. CASE Sends(g, "answer", "complete", t) /\ UNCHANGED punches
  BY <1>1, <1>5, SendsKeeps DEF shared
<1> QED
  BY <1>2, <1>3, <1>4, <1>5 DEF Answer

\* The disclosure lock is taken for the current generation only.
LEMMA AcquireKeeps ==
  ASSUME ControlInv, NEW g \in Gens, Acquire(g)
  PROVE  ControlInv'
<1>1. /\ lock = Nobody /\ pc[g] = "acquire" /\ pc \in [Gens -> Places]
      /\ UNCHANGED <<generation, shutdown, state, newest, call, send, jobs, punches, tokens>>
  BY DEF Acquire, Goto, shared, ControlInv, RCTypeOK
<1>2. CASE Current(g) /\ Goto(g, "acquire", "send") /\ lock' = g
  <2>1. pc' = [pc EXCEPT ![g] = "send"]
    BY <1>2 DEF Goto
  <2>2. Alive' = Alive
    BY <1>1, <2>1 DEF Alive
  <2>3. RCTypeOK'
    BY <1>1, <1>2, <2>1, ControlAssumption DEF ControlInv, RCTypeOK, Gens, Places
  <2>4. \A h \in Gens : pc[h] # "send"
    BY <1>1, ControlAssumption DEF ControlInv, NoStaleDisclosure, Gens, Nobody
  <2>5. NoStaleDisclosure'
    BY <1>1, <1>2, <2>1, <2>4 DEF NoStaleDisclosure, Current
  <2>6. TicketsSound' /\ ThreadsSound'
    BY <1>1, <2>1, <2>2 DEF ControlInv, TicketsSound, ThreadsSound
  <2> QED
    BY <2>3, <2>5, <2>6 DEF ControlInv
<1>3. CASE Goto(g, "acquire", "end") /\ UNCHANGED lock
  <2>1. ThreadsSound' /\ NoStaleDisclosure' /\ pc' \in [Gens -> Places]
    BY <1>1, <1>3, MoveKeeps DEF Places
  <2>2. RCTypeOK'
    BY <1>1, <1>3, <2>1 DEF ControlInv, RCTypeOK
  <2>3. TicketsSound'
    BY <1>1, <1>3 DEF ControlInv, TicketsSound, Goto
  <2> QED
    BY <2>1, <2>2, <2>3 DEF ControlInv
<1> QED
  BY <1>2, <1>3 DEF Acquire

\* Only the thread that holds the lock is sending, so nobody sends afterwards.
LEMMA ReleaseKeeps ==
  ASSUME ControlInv, NEW g \in Gens, Release(g)
  PROVE  ControlInv'
<1>1. /\ pc[g] = "send" /\ pc \in [Gens -> Places] /\ lock' = Nobody
      /\ UNCHANGED <<generation, shutdown, state, newest, call, jobs, tokens>>
  BY DEF Release, Goto, shared, ControlInv, RCTypeOK
<1>2. PICK to \in {"answer", "loop", "end"} :
         /\ pc' = [pc EXCEPT ![g] = to]
         /\ to = "answer" => send[g].kind = "candidate" /\ send' = send
         /\ send' \in {send, [send EXCEPT ![g] = NoSend]}
         /\ punches' \in {punches, punches \ {send[g].ticket}}
  BY DEF Release, Goto, Over
<1>3. Alive' = Alive
  BY <1>1, <1>2 DEF Alive
<1>4. NoStaleDisclosure'
  BY <1>1, <1>2 DEF ControlInv, NoStaleDisclosure
<1>5. IsFiniteSet(punches') /\ Cardinality(punches') <= PunchMax /\ punches' \subseteq Tickets
  <2>1. /\ IsFiniteSet(punches) /\ Cardinality(punches) \in Nat /\ Cardinality(punches) <= PunchMax
        /\ punches \subseteq Tickets /\ PunchMax \in Nat
    BY FS_CardinalityType, ControlAssumption DEF ControlInv, TicketsSound, RCTypeOK
  <2>2. punches' \in SUBSET punches
    BY <1>2
  <2>3. IsFiniteSet(punches') /\ Cardinality(punches') <= Cardinality(punches) /\ Cardinality(punches') \in Nat
    BY <2>1, <2>2, FS_Subset, FS_CardinalityType
  <2> QED
    BY <2>1, <2>2, <2>3
<1>6. RCTypeOK'
  BY <1>1, <1>2, <1>5, ControlAssumption DEF ControlInv, RCTypeOK, Places, Nobody
<1>7. TicketsSound'
  <2>1. send \in [Gens -> Sendable] /\ send' \in [Gens -> Sendable]
    BY <1>2 DEF ControlInv, TicketsSound, Sendable
  <2>2. \A h \in Gens : pc'[h] = "answer" => send'[h].kind = "candidate"
    BY <1>1, <1>2, <2>1 DEF ControlInv, TicketsSound
  <2> QED
    BY <1>1, <1>5, <2>1, <2>2 DEF ControlInv, TicketsSound
<1>8. ThreadsSound'
  BY <1>1, <1>3 DEF ControlInv, ThreadsSound
<1> QED
  BY <1>4, <1>6, <1>7, <1>8 DEF ControlInv

\* A call takes its turn while nobody discloses.
LEMMA CallKeeps ==
  ASSUME ControlInv, NEW kind \in {"start", "stop", "deinit"}, Call(kind)
  PROVE  ControlInv'
<1>1. /\ call = NoCall /\ ~shutdown /\ generation < MaxGen /\ lock = Nobody
      /\ generation' = generation + 1 /\ shutdown' = (kind = "deinit")
      /\ call' = [kind |-> kind, gen |-> generation', join |-> state # "stopped"]
      /\ UNCHANGED <<lock, state, newest, pc, send, jobs, punches, tokens>>
  BY DEF Call, Exclusive, Unlocked
<1>2. generation' \in Gens /\ generation \in 0..MaxGen
  BY <1>1, ControlAssumption DEF ControlInv, RCTypeOK, Gens
<1>3. RCTypeOK'
  <2>1. shutdown' \in BOOLEAN
    BY <1>1, Zenon
  <2> QED
    BY <1>1, <1>2, <2>1, ControlAssumption DEF ControlInv, RCTypeOK, Gens
<1>4. NoStaleDisclosure'
  BY <1>1, ControlAssumption DEF ControlInv, NoStaleDisclosure, Gens, Nobody
<1>5. TicketsSound'
  BY <1>1 DEF ControlInv, TicketsSound
<1>6. ThreadsSound'
  <2>1. Alive' = Alive
    BY <1>1 DEF Alive
  <2>2. call' \in [kind : {"start", "stop", "deinit"}, gen : Gens, join : BOOLEAN]
    BY <1>1, <1>2
  <2>3. call' # NoCall /\ call'.join = (state # "stopped")
    BY <1>1 DEF NoCall
  <2> QED
    BY <1>1, <2>1, <2>2, <2>3 DEF ControlInv, ThreadsSound
<1> QED
  BY <1>3, <1>4, <1>5, <1>6 DEF ControlInv

\* The old thread is gone when a call ends, and a new one is the only one.
LEMMA FinishKeeps ==
  ASSUME ControlInv, Finish
  PROVE  ControlInv'
<1>1. /\ call # NoCall /\ call' = NoCall /\ (call.join => pc[newest] = "gone")
      /\ UNCHANGED <<generation, shutdown, lock, send, jobs, punches, tokens>>
  BY DEF Finish, Joined
<1>2. call \in [kind : {"start", "stop", "deinit"}, gen : Gens, join : BOOLEAN] /\ call.gen \in Gens
  BY <1>1 DEF ControlInv, ThreadsSound
<1>3. Alive = {}
  BY <1>1 DEF ControlInv, ThreadsSound, Alive
<1>4. pc \in [Gens -> Places]
  BY DEF ControlInv, RCTypeOK
<1>5. CASE /\ Current(call.gen) /\ state' = "running" /\ newest' = call.gen
           /\ pc' = [pc EXCEPT ![call.gen] = "check"]
  <2>1. Alive' \subseteq {newest'}
    BY <1>3, <1>4, <1>5 DEF Alive
  <2>2. RCTypeOK'
    BY <1>1, <1>2, <1>4, <1>5, ControlAssumption DEF ControlInv, RCTypeOK, Gens, Places
  <2>3. NoStaleDisclosure' /\ TicketsSound'
    BY <1>1, <1>2, <1>4, <1>5 DEF ControlInv, NoStaleDisclosure, TicketsSound, Current
  <2>4. ThreadsSound'
    BY <1>1, <1>5, <2>1 DEF ThreadsSound, Current
  <2> QED
    BY <2>2, <2>3, <2>4 DEF ControlInv
<1>6. CASE state' = "stopped" /\ UNCHANGED <<newest, pc>>
  <2>1. Alive' = {}
    BY <1>3, <1>6 DEF Alive
  <2>2. RCTypeOK'
    BY <1>1, <1>6 DEF ControlInv, RCTypeOK
  <2>3. NoStaleDisclosure' /\ TicketsSound'
    BY <1>1, <1>6 DEF ControlInv, NoStaleDisclosure, TicketsSound, Current
  <2>4. ThreadsSound'
    BY <1>1, <2>1 DEF ThreadsSound
  <2> QED
    BY <2>2, <2>3, <2>4 DEF ControlInv
<1> QED
  BY <1>5, <1>6 DEF Finish

\* A step that leaves threads, calls and tickets alone.
LEMMA IdleKeeps ==
  ASSUME ControlInv, tokens' \in 0..ControlTokens,
         UNCHANGED <<generation, shutdown, state, newest, lock, call, pc, send, jobs, punches>>
  PROVE  ControlInv'
<1>1. Alive' = Alive
  BY DEF Alive
<1>2. RCTypeOK'
  BY DEF ControlInv, RCTypeOK
<1>3. NoStaleDisclosure' /\ TicketsSound' /\ ThreadsSound'
  BY <1>1 DEF ControlInv, NoStaleDisclosure, TicketsSound, ThreadsSound, Current
<1> QED
  BY <1>2, <1>3 DEF ControlInv

\* Every step of a thread.
LEMMA ThreadKeeps ==
  ASSUME ControlInv, NEW g \in Gens, Thread(g)
  PROVE  ControlInv'
<1>1. CASE Check(g) \/ Budget(g) \/ Wait(g) \/ Connect(g) \/ Exit(g) \/ Loop(g) \/ Closed(g)
  BY <1>1, PlainKeeps
<1>2. CASE Disconnect(g)
  BY <1>2, DisconnectKeeps
<1>3. CASE Heartbeat(g)
  BY <1>3, SendsKeeps DEF Heartbeat
<1>4. ASSUME NEW t \in Tickets, Expire(g, t) PROVE ControlInv'
  BY <1>4, ExpireKeeps
<1>5. ASSUME NEW t \in Tickets, Punch(g, t) \/ PunchEnd(g, t) PROVE ControlInv'
  BY <1>5, SendsKeeps DEF Punch, PunchEnd
<1>6. ASSUME NEW t \in Tickets, Candidate(g, t) PROVE ControlInv'
  BY <1>6, CandidateKeeps
<1>7. CASE Answer(g)
  BY <1>7, AnswerKeeps
<1>8. CASE Acquire(g)
  BY <1>8, AcquireKeeps
<1>9. CASE Release(g)
  BY <1>9, ReleaseKeeps
<1> QED
  BY <1>1, <1>2, <1>3, <1>4, <1>5, <1>6, <1>7, <1>8, <1>9 DEF Thread

\* Every step keeps the control sound.
LEMMA ControlStep == ControlInv /\ [ControlNext]_control_vars => ControlInv'
<1> SUFFICES ASSUME ControlInv, [ControlNext]_control_vars PROVE ControlInv'
  OBVIOUS
<1>1. tokens \in 0..ControlTokens /\ ControlTokens \in Nat
  BY ControlAssumption DEF ControlInv, RCTypeOK
<1>2. ASSUME NEW kind \in {"start", "stop", "deinit"}, Call(kind) PROVE ControlInv'
  BY <1>2, CallKeeps
<1>3. CASE Finish
  BY <1>3, FinishKeeps
<1>4. CASE RefillControl
  <2>1. /\ tokens' \in 0..ControlTokens
        /\ UNCHANGED <<generation, shutdown, state, newest, lock, call, pc, send, jobs, punches>>
    BY <1>1, <1>4 DEF RefillControl, shared
  <2> QED
    BY <2>1, IdleKeeps
<1>5. ASSUME NEW g \in Gens, Thread(g) PROVE ControlInv'
  BY <1>5, ThreadKeeps
<1>6. CASE UNCHANGED control_vars
  <2>1. /\ tokens' \in 0..ControlTokens
        /\ UNCHANGED <<generation, shutdown, state, newest, lock, call, pc, send, jobs, punches>>
    BY <1>1, <1>6 DEF control_vars, shared
  <2> QED
    BY <2>1, IdleKeeps
<1> QED
  BY <1>2, <1>3, <1>4, <1>5, <1>6 DEF ControlNext

\* Nothing is disclosed for a generation that is over, there is never a second
\* control thread, and a call that stopped the control left none behind
\* (socket/metaserver.c), for any number of generations, tickets and addresses.
THEOREM ControlIsSound == ControlSpec => []ControlSound
  BY ControlInitially, ControlStep, ControlEnough, PTL DEF ControlSpec

-----------------------------------------------------------------------------
(* The publisher. PublisherSound speaks of it at rest; while a request is  *)
(* under way, or its result is handled and it is not freed yet, what is    *)
(* true later depends on what the request carried: the conjuncts below say *)
(* so, and with them the invariant is inductive.                           *)


Cadences == [dirty : Times, retry : Times, beat : Times, tokens : 0..PublishTokens,
             published : BOOLEAN, suspended : BOOLEAN, replayed : BOOLEAN]

Requests == [worker : {"flight", "ended", "admitted", "over"}, applied : BOOLEAN, cancelled : BOOLEAN,
             outcome : {"none", "ok", "retry", "replay", "reject"}, handled : 0..1]

\* current_request points to the request as long as there is one, and only the
\* main thread takes it away.
RequestLife ==
    /\ request = NoRequest \/ request \in Requests
    /\ current <=> request # NoRequest
    /\ main \in {"free", "join"} => current
    /\ main = "cadence" => ~current
    /\ leaving /\ main = "idle" => ~current
    /\ main \in {"free", "join"} /\ ~leaving => request.handled = 1
    /\ current => snaps.attempted # Nothing

\* Until the result is handled, a state that is not dirty is the one that the
\* request carries.
AttemptCurrent == current /\ Unhandled /\ cadence.dirty = "no" => snaps.attempted = Snapshot

\* From then on it is the one that was published, before the request is freed
\* and after.
PublishedCurrent ==
    cadence.dirty = "no" /\ ~cadence.suspended /\ ~leaving /\ (current => request.handled = 1)
        => snaps.published = Snapshot

PublisherInv ==
    MPTypeOK /\ RequestLife /\ SuspendedForCause /\ AttemptCurrent /\ PublishedCurrent

-----------------------------------------------------------------------------
(* What becomes of the cadence. *)

\* metaserver_public_snapshot() is a number of players.
LEMMA SnapshotType ==
    ASSUME count \in Counts
    PROVE  Snapshot \in Counts /\ Snapshot \in Snapshots /\ Snapshot # Nothing
BY PublisherAssumption, SettingsAssumption DEF Snapshot, Counts, Snapshots, Nothing

\* metaserver_publish_cadence_changed() marks the state as dirty.
LEMMA ChangedFact ==
    ASSUME NEW c \in Cadences, NEW actual \in BOOLEAN
    PROVE  /\ Changed(c, actual) \in Cadences
           /\ Changed(c, actual).dirty = "wait"
           /\ Changed(c, actual).suspended => c.suspended /\ ~actual
<1>1. (c.suspended /\ ~actual) \in BOOLEAN
    OBVIOUS
<1> QED
    BY <1>1 DEF Changed, Cadences, Times

\* metaserver_publish_cadence_failed() marks it for another attempt.
LEMMA FailedFact ==
    ASSUME NEW c \in Cadences
    PROVE  /\ Failed(c) \in Cadences
           /\ Failed(c).dirty = "due"
           /\ Failed(c).suspended = c.suspended
BY DEF Failed, Cadences, Times

\* metaserver_publish_cadence_succeeded() ends a suspension.
LEMMA SucceededFact ==
    ASSUME NEW c \in Cadences
    PROVE  /\ Succeeded(c) \in Cadences
           /\ Succeeded(c).dirty = c.dirty
           /\ Succeeded(c).suspended = FALSE
<1>1. (IF Public \/ Protected THEN "wait" ELSE "no") \in Times
    BY DEF Times
<1> QED
    BY <1>1 DEF Succeeded, Cadences, Times

\* metaserver_publish_cadence_suspend() begins one.
LEMMA SuspendedFact ==
    ASSUME NEW c \in Cadences
    PROVE  /\ Suspended(c) \in Cadences
           /\ Suspended(c).dirty = c.dirty
           /\ Suspended(c).suspended = TRUE
BY DEF Suspended, Cadences, Times

\* Only the replay mark changes.
LEMMA ReplayedFact ==
    ASSUME NEW c \in Cadences, NEW r \in BOOLEAN
    PROVE  /\ [c EXCEPT !.replayed = r] \in Cadences
           /\ [c EXCEPT !.replayed = r].dirty = c.dirty
           /\ [c EXCEPT !.replayed = r].suspended = c.suspended
BY DEF Cadences, Times

\* metaserver_publish_cadence_attempted() takes a token.
LEMMA AttemptedFact ==
    ASSUME NEW c \in Cadences, c.tokens > 0
    PROVE  /\ Attempted(c) \in Cadences
           /\ Attempted(c).dirty = "no"
           /\ Attempted(c).suspended = c.suspended
<1>1. c.tokens - 1 \in 0..PublishTokens
    BY PublisherAssumption DEF Cadences
<1> QED
    BY <1>1 DEF Attempted, Cadences, Times

\* The state that is not dirty is the one that was rejected or published.
LEMMA ReconsideredFact ==
    ASSUME cadence \in Cadences
    PROVE  LET c == Reconsidered(cadence)
           IN  /\ c \in Cadences
               /\ c.suspended => cadence.suspended /\ c.dirty = "no" /\ Snapshot = snaps.blocked
               /\ ~c.suspended /\ c.dirty = "no" => c = cadence
<1>1. CASE ~cadence.suspended
    BY <1>1 DEF Reconsidered
<1>2. CASE cadence.suspended /\ Snapshot # snaps.blocked
    BY <1>2, ChangedFact DEF Reconsidered
<1>3. CASE cadence.suspended /\ Snapshot = snaps.blocked
    BY <1>3 DEF Reconsidered, Cadences, Times
<1> QED
    BY <1>1, <1>2, <1>3

LEMMA SettledFact ==
    ASSUME NEW c \in Cadences, NEW changed \in BOOLEAN
    PROVE  LET d == Settled(c, changed)
           IN  /\ d \in Cadences
               /\ d.suspended = c.suspended
               /\ d = c \/ (d.dirty = "no" /\ ~changed /\ ~c.suspended)
<1>1. CASE Free(c) /\ c.dirty = "due" /\ c.published /\ ~changed
  <2>1. Settled(c, changed) = [c EXCEPT !.dirty = "no"]
      BY <1>1 DEF Settled
  <2>2. ~c.suspended
      BY <1>1 DEF Free
  <2> QED
      BY <1>1, <2>1, <2>2 DEF Cadences, Times
<1>2. CASE ~(Free(c) /\ c.dirty = "due" /\ c.published /\ ~changed)
    BY <1>2 DEF Settled
<1> QED
    BY <1>1, <1>2

\* The cadence with which metaserver_service() decides about an attempt.
LEMMA ServiceFact ==
    ASSUME cadence \in Cadences
    PROVE  LET c == Settled(Reconsidered(cadence), Snapshot # snaps.published)
           IN  /\ c \in Cadences
               /\ c.suspended => cadence.suspended /\ Snapshot = snaps.blocked
               /\ c.dirty = "no" /\ ~c.suspended =>
                    (cadence.dirty = "no" /\ ~cadence.suspended) \/ snaps.published = Snapshot
               /\ Due(c) => c.tokens > 0 /\ ~c.suspended
<1> DEFINE r == Reconsidered(cadence)
           changed == Snapshot # snaps.published
           c == Settled(r, changed)
<1>1. changed \in BOOLEAN
    OBVIOUS
<1>2. /\ r \in Cadences
      /\ r.suspended => cadence.suspended /\ r.dirty = "no" /\ Snapshot = snaps.blocked
      /\ ~r.suspended /\ r.dirty = "no" => r = cadence
    BY ReconsideredFact
<1>3. ~changed => snaps.published = Snapshot
    OBVIOUS
<1> HIDE DEF r, changed
<1>4. /\ c \in Cadences
      /\ c.suspended = r.suspended
      /\ c = r \/ (c.dirty = "no" /\ ~changed /\ ~r.suspended)
    BY <1>1, <1>2, SettledFact
<1>5. Due(c) => c.tokens > 0 /\ ~c.suspended
    BY DEF Due, Free
<1> HIDE DEF c
<1>6. c.dirty = "no" /\ ~c.suspended =>
        (cadence.dirty = "no" /\ ~cadence.suspended) \/ snaps.published = Snapshot
    BY <1>2, <1>3, <1>4
<1>7. c.suspended => cadence.suspended /\ Snapshot = snaps.blocked
    BY <1>2, <1>4
<1> QED
    BY <1>4, <1>5, <1>6, <1>7 DEF c, r, changed

-----------------------------------------------------------------------------
(* A result. *)

Snaps == [{"published", "attempted", "blocked"} -> Snapshots]

\* What metaserver_update_request_locked() leaves, whoever calls it and however
\* often.
LEMMA HandleFact ==
    ASSUME PublisherInv, current, Handle
    PROVE  /\ cadence' \in Cadences
           /\ snaps' \in Snaps
           /\ snaps'.attempted = snaps.attempted
           /\ cadence'.suspended =>
                snaps'.blocked # Nothing /\ (cadence'.dirty = "no" => snaps'.blocked = Snapshot)
           /\ cadence'.dirty = "no" /\ ~cadence'.suspended /\ ~leaving => snaps'.published = Snapshot
<1>1. cadence \in Cadences /\ snaps \in Snaps
    BY DEF PublisherInv, MPTypeOK, Cadences, Snaps
<1>2. /\ request.handled \in 0..1
      /\ snaps.attempted # Nothing /\ snaps.attempted \in Snapshots
    BY <1>1 DEF PublisherInv, RequestLife, Requests, Snaps
<1>3. cadence.suspended =>
        snaps.blocked # Nothing /\ (cadence.dirty = "no" => snaps.blocked = Snapshot)
    BY DEF PublisherInv, SuspendedForCause
<1>4. Unhandled /\ cadence.dirty = "no" => snaps.attempted = Snapshot
    BY DEF PublisherInv, AttemptCurrent
<1>5. CASE ~Unhandled /\ UNCHANGED <<cadence, snaps>>
  <2>1. request.handled = 1
      BY <1>2, <1>5 DEF Unhandled
  <2>2. cadence.dirty = "no" /\ ~cadence.suspended /\ ~leaving => snaps.published = Snapshot
      BY <2>1 DEF PublisherInv, PublishedCurrent
  <2> QED
      BY <1>1, <1>3, <1>5, <2>2
<1>6. CASE /\ Unhandled /\ request.outcome = "ok"
           /\ snaps' = [snaps EXCEPT !.published = snaps.attempted, !.blocked = Nothing]
           /\ cadence' = Succeeded(cadence)
  <2>1. cadence' \in Cadences /\ cadence'.dirty = cadence.dirty /\ ~cadence'.suspended
      BY <1>1, <1>6, SucceededFact
  <2>2. Nothing \in Snapshots
      BY DEF Snapshots
  <2>3. /\ snaps' \in Snaps
        /\ snaps'.attempted = snaps.attempted
        /\ snaps'.published = snaps.attempted
      BY <1>1, <1>2, <1>6, <2>2 DEF Snaps
  <2> QED
      BY <1>4, <1>6, <2>1, <2>3
<1>7. CASE Unhandled /\ request.outcome = "retry" /\ cadence' = Failed(cadence) /\ UNCHANGED snaps
  <2>1. cadence' \in Cadences /\ cadence'.dirty = "due" /\ cadence'.suspended = cadence.suspended
      BY <1>1, <1>7, FailedFact
  <2> QED
      BY <1>1, <1>3, <1>7, <2>1
<1>8. CASE /\ Unhandled /\ request.outcome = "replay" /\ ~cadence.replayed
           /\ cadence' = Failed([cadence EXCEPT !.replayed = TRUE]) /\ UNCHANGED snaps
  <2> DEFINE c == [cadence EXCEPT !.replayed = TRUE]
  <2>1. c \in Cadences /\ c.suspended = cadence.suspended
      BY <1>1, ReplayedFact
  <2>2. cadence' = Failed(c)
      BY <1>8
  <2> HIDE DEF c
  <2>3. cadence' \in Cadences /\ cadence'.dirty = "due" /\ cadence'.suspended = cadence.suspended
      BY <2>1, <2>2, FailedFact
  <2> QED
      BY <1>1, <1>3, <1>8, <2>3
<1>9. CASE Unhandled /\ request.outcome \in {"replay", "reject"} /\ Suspends
  <2>1. PICK r \in Replayed : cadence' = Suspended([cadence EXCEPT !.replayed = r])
      BY <1>9 DEF Suspends
  <2>2. cadence.replayed \in BOOLEAN
      BY <1>1 DEF Cadences
  <2>3. r \in BOOLEAN
      BY <2>2 DEF Replayed
  <2> DEFINE c == [cadence EXCEPT !.replayed = r]
  <2>4. c \in Cadences /\ c.dirty = cadence.dirty
      BY <1>1, <2>3, ReplayedFact
  <2>5. cadence' = Suspended(c)
      BY <2>1
  <2> HIDE DEF c
  <2>6. cadence' \in Cadences /\ cadence'.dirty = cadence.dirty /\ cadence'.suspended
      BY <2>4, <2>5, SuspendedFact
  <2>7. snaps' = [snaps EXCEPT !.blocked = snaps.attempted]
      BY <1>9 DEF Suspends
  <2>8. /\ snaps' \in Snaps
        /\ snaps'.attempted = snaps.attempted
        /\ snaps'.blocked = snaps.attempted
      BY <1>1, <1>2, <2>7 DEF Snaps
  <2> QED
      BY <1>2, <1>4, <1>9, <2>6, <2>8
<1> QED
    BY <1>5, <1>6, <1>7, <1>8, <1>9 DEF Handle

\* A result that is handled has been handled once.
LEMMA CountedFact ==
    ASSUME request \in Requests
    PROVE  Counted = 1
BY DEF Requests, Counted, Unhandled

-----------------------------------------------------------------------------
(* The invariant. *)

LEMMA InvInit == Init => PublisherInv
<1> SUFFICES ASSUME Init PROVE PublisherInv
    OBVIOUS
<1>1. /\ count = 0 /\ main = "idle" /\ leaving = FALSE /\ request = NoRequest /\ current = FALSE
      /\ cadence = InitCadence /\ snaps = [published |-> Nothing, attempted |-> Nothing, blocked |-> Nothing]
      /\ listed = Nothing /\ late = <<>> /\ calm = FALSE
    BY DEF Init, InitServer
<1>2. cadence \in Cadences /\ cadence.dirty = "due" /\ ~cadence.suspended
    BY <1>1, PublisherAssumption DEF InitCadence, Cadences, Times
<1>3. count \in Counts /\ Nothing \in Snapshots
    BY <1>1, PublisherAssumption DEF Counts, Snapshots
<1>4. snaps \in Snaps
    BY <1>1, <1>3 DEF Snaps
<1>5. late \in Seq(Snapshots) /\ Len(late) <= MaxLate
    BY <1>1, PublisherAssumption
<1>6. MPTypeOK
    BY <1>1, <1>2, <1>3, <1>4, <1>5 DEF MPTypeOK, Cadences, Snaps
<1> QED
    BY <1>1, <1>2, <1>6 DEF PublisherInv, RequestLife, SuspendedForCause, AttemptCurrent, PublishedCurrent

\* Players come and go: their number is dirty if it is told.
LEMMA InvPlay == ASSUME PublisherInv, Play PROVE PublisherInv'
<1>1. /\ ~leaving /\ count' \in Counts
      /\ cadence' = IF Public THEN Changed(cadence, FALSE) ELSE cadence
      /\ UNCHANGED <<main, leaving, request, current, snaps, listed, late, calm>>
    BY DEF Play
<1>2. MPTypeOK /\ RequestLife /\ SuspendedForCause /\ AttemptCurrent /\ PublishedCurrent
    BY DEF PublisherInv
<1>3. cadence \in Cadences
    BY <1>2 DEF MPTypeOK, Cadences
<1>4. CASE Public
  <2>1. /\ cadence' \in Cadences /\ cadence'.dirty = "wait"
        /\ cadence'.suspended => cadence.suspended
      BY <1>1, <1>3, <1>4, ChangedFact
  <2>2. MPTypeOK'
      BY <1>1, <1>2, <2>1 DEF MPTypeOK, Cadences
  <2>3. RequestLife'
      BY <1>1, <1>2 DEF RequestLife
  <2> QED
      BY <1>1, <1>2, <2>1, <2>2, <2>3
      DEF PublisherInv, SuspendedForCause, AttemptCurrent, PublishedCurrent
<1>5. CASE ~Public
  <2>1. cadence' = cadence /\ Snapshot' = Snapshot
      BY <1>1, <1>5 DEF Snapshot
  <2>2. MPTypeOK'
      BY <1>1, <1>2, <2>1 DEF MPTypeOK
  <2>3. RequestLife'
      BY <1>1, <1>2 DEF RequestLife
  <2> QED
      BY <1>1, <1>2, <2>1, <2>2, <2>3
      DEF PublisherInv, SuspendedForCause, AttemptCurrent, PublishedCurrent, Unhandled
<1> QED
    BY <1>4, <1>5

\* Both ways to handle a result, for the cadence and the snapshots.
LEMMA InvHandled ==
    ASSUME PublisherInv, current, Handle, request \in Requests, request' \in Requests, request'.handled = 1,
           main' \in {"idle", "free", "join", "cadence"}, main' # "cadence" \/ main' = main,
           leaving /\ main' = "idle" => main = "idle", current' = TRUE,
           UNCHANGED <<count, leaving, listed, late, calm>>
    PROVE  PublisherInv'
<1>1. MPTypeOK /\ RequestLife
    BY DEF PublisherInv
<1>2. /\ cadence' \in Cadences
      /\ snaps' \in Snaps
      /\ snaps'.attempted = snaps.attempted
      /\ cadence'.suspended =>
            snaps'.blocked # Nothing /\ (cadence'.dirty = "no" => snaps'.blocked = Snapshot)
      /\ cadence'.dirty = "no" /\ ~cadence'.suspended /\ ~leaving => snaps'.published = Snapshot
    BY HandleFact
<1>3. MPTypeOK'
    BY <1>1, <1>2 DEF MPTypeOK, Cadences, Snaps
<1>4. Snapshot' = Snapshot
    BY DEF Snapshot
<1>5. request' # NoRequest
    BY DEF Requests, NoRequest
<1>6. RequestLife'
    BY <1>1, <1>2, <1>5 DEF RequestLife
<1>7. ~Unhandled'
    BY DEF Unhandled
<1> QED
    BY <1>2, <1>3, <1>4, <1>6, <1>7
    DEF PublisherInv, SuspendedForCause, AttemptCurrent, PublishedCurrent

LEMMA InvServiceDone == ASSUME PublisherInv, ServiceDone PROVE PublisherInv'
<1>1. /\ current /\ Handle /\ request' = [request EXCEPT !.handled = Counted]
      /\ main' = "free" /\ current' = TRUE
      /\ UNCHANGED <<count, leaving, listed, late, calm>>
    BY DEF ServiceDone, Kept
<1>2. request \in Requests
    BY <1>1 DEF PublisherInv, RequestLife
<1>3. request' \in Requests /\ request'.handled = 1
    BY <1>1, <1>2, CountedFact DEF Requests
<1> QED
    BY <1>1, <1>2, <1>3, InvHandled

LEMMA InvCallback == ASSUME PublisherInv, Callback PROVE PublisherInv'
<1>1. /\ request.worker = "admitted" /\ Handle
      /\ request' = [request EXCEPT !.worker = "over", !.handled = Counted]
      /\ UNCHANGED <<count, main, leaving, current, listed, late, calm>>
    BY DEF Callback
<1>2. request # NoRequest
    BY <1>1 DEF NoRequest
<1>3. request \in Requests /\ current
    BY <1>2 DEF PublisherInv, RequestLife
<1>4. request' \in Requests /\ request'.handled = 1
  <2>1. PICK n \in 0..1 : n = 1 /\ n = Counted
      BY <1>3, CountedFact
  <2>2. request' = [request EXCEPT !.worker = "over", !.handled = n]
      BY <1>1, <2>1
  <2> QED
      BY <1>3, <2>1, <2>2 DEF Requests
<1>5. main \in {"idle", "free", "join", "cadence"} /\ current \in BOOLEAN
    BY DEF PublisherInv, MPTypeOK
<1>6. current' = TRUE
    BY <1>1, <1>3, <1>5
<1>7. main' = main /\ UNCHANGED <<count, leaving, listed, late, calm>>
    BY <1>1
<1> QED
    BY <1>1, <1>3, <1>4, <1>5, <1>6, <1>7, InvHandled

\* A step that leaves the cadence and the snapshots, and a request under way.
LEMMA InvUnderWay ==
    ASSUME PublisherInv, request \in Requests, request' \in Requests, request'.handled = request.handled,
           main' \in {"idle", "free", "join", "cadence"},
           main' = main \/ (main = "free" /\ main' = "join"),
           listed' \in Snapshots, late' \in Seq(Snapshots), Len(late') <= MaxLate,
           UNCHANGED <<count, leaving, current, cadence, snaps, calm>>
    PROVE  PublisherInv'
<1>1. MPTypeOK /\ RequestLife /\ SuspendedForCause /\ AttemptCurrent /\ PublishedCurrent
    BY DEF PublisherInv
<1>2. MPTypeOK'
    BY <1>1 DEF MPTypeOK
<1>3. request # NoRequest /\ request' # NoRequest
    BY DEF Requests, NoRequest
<1>4. RequestLife'
    BY <1>1, <1>3 DEF RequestLife
<1>5. Snapshot' = Snapshot
    BY DEF Snapshot
<1> QED
    BY <1>1, <1>2, <1>4, <1>5
    DEF PublisherInv, SuspendedForCause, AttemptCurrent, PublishedCurrent, Unhandled

LEMMA InvCancel == ASSUME PublisherInv, Cancel PROVE PublisherInv'
<1>1. /\ main = "free" /\ request' = [request EXCEPT !.cancelled = TRUE] /\ main' = "join"
      /\ UNCHANGED <<count, leaving, current, cadence, snaps, listed, late, calm>>
    BY DEF Cancel
<1>2. request \in Requests
    BY <1>1 DEF PublisherInv, RequestLife
<1>3. request' \in Requests /\ request'.handled = request.handled
    BY <1>1, <1>2 DEF Requests
<1>4. listed \in Snapshots /\ late \in Seq(Snapshots) /\ Len(late) <= MaxLate
    BY DEF PublisherInv, MPTypeOK
<1> QED
    BY <1>1, <1>2, <1>3, <1>4, InvUnderWay

\* A worker that has not ended has a request.
LEMMA WorkerFact ==
    ASSUME PublisherInv, request.worker \in {"flight", "ended"}
    PROVE  /\ request \in Requests
           /\ main \in {"idle", "free", "join", "cadence"}
           /\ listed \in Snapshots /\ late \in Seq(Snapshots) /\ Len(late) <= MaxLate
           /\ snaps.attempted \in Snapshots
<1>1. request # NoRequest
    BY DEF NoRequest
<1>2. request \in Requests
    BY <1>1 DEF PublisherInv, RequestLife
<1> QED
    BY <1>2 DEF PublisherInv, MPTypeOK

LEMMA InvApply == ASSUME PublisherInv, Apply PROVE PublisherInv'
<1>1. /\ request.worker = "flight" /\ request' = [request EXCEPT !.applied = TRUE]
      /\ listed' = snaps.attempted /\ late' = <<>>
      /\ UNCHANGED <<count, main, leaving, current, cadence, snaps, calm>>
    BY DEF Apply
<1>2. /\ request \in Requests /\ main \in {"idle", "free", "join", "cadence"}
      /\ snaps.attempted \in Snapshots
    BY <1>1, WorkerFact
<1>3. request' \in Requests /\ request'.handled = request.handled
    BY <1>1, <1>2 DEF Requests
<1>4. late' \in Seq(Snapshots) /\ Len(late') <= MaxLate
    BY <1>1, PublisherAssumption
<1>5. main' = main /\ listed' \in Snapshots /\ UNCHANGED <<count, leaving, current, cadence, snaps, calm>>
    BY <1>1, <1>2
<1> QED
    BY <1>2, <1>3, <1>4, <1>5, InvUnderWay

LEMMA InvRespond ==
    ASSUME PublisherInv, NEW outcome \in {"ok", "retry", "replay", "reject"}, Respond(outcome)
    PROVE  PublisherInv'
<1>1. /\ request.worker = "flight"
      /\ request' = [request EXCEPT !.worker = "ended", !.outcome = outcome]
      /\ late' \in IF outcome = "retry" /\ ~request.applied /\ Len(late) < MaxLate
                   THEN {late, Append(late, snaps.attempted)} ELSE {late}
      /\ UNCHANGED <<count, main, leaving, current, cadence, snaps, listed, calm>>
    BY DEF Respond
<1>2. /\ request \in Requests /\ main \in {"idle", "free", "join", "cadence"}
      /\ listed \in Snapshots /\ late \in Seq(Snapshots) /\ Len(late) <= MaxLate
      /\ snaps.attempted \in Snapshots
    BY <1>1, WorkerFact
<1>3. request' \in Requests /\ request'.handled = request.handled
    BY <1>1, <1>2 DEF Requests
<1>4. late' = late \/ (Len(late) < MaxLate /\ late' = Append(late, snaps.attempted))
    BY <1>1
<1>5. late' \in Seq(Snapshots) /\ Len(late') <= MaxLate
    BY <1>2, <1>4, PublisherAssumption
<1>6. main' = main /\ listed' \in Snapshots /\ UNCHANGED <<count, leaving, current, cadence, snaps, calm>>
    BY <1>1, <1>2
<1> QED
    BY <1>2, <1>3, <1>5, <1>6, InvUnderWay

LEMMA InvNotify == ASSUME PublisherInv, Notify PROVE PublisherInv'
<1>1. /\ request.worker = "ended"
      /\ request' = [request EXCEPT !.worker = IF request.cancelled THEN "over" ELSE "admitted"]
      /\ UNCHANGED <<count, main, leaving, current, cadence, snaps, listed, late, calm>>
    BY DEF Notify
<1>2. /\ request \in Requests /\ main \in {"idle", "free", "join", "cadence"}
      /\ listed \in Snapshots /\ late \in Seq(Snapshots) /\ Len(late) <= MaxLate
    BY <1>1, WorkerFact
<1>3. PICK w \in {"over", "admitted"} : request' = [request EXCEPT !.worker = w]
    BY <1>1
<1>4. request' \in Requests /\ request'.handled = request.handled
    BY <1>2, <1>3 DEF Requests
<1>5. /\ main' = main /\ listed' = listed /\ late' = late
      /\ UNCHANGED <<count, leaving, current, cadence, snaps, calm>>
    BY <1>1
<1> QED
    BY <1>2, <1>4, <1>5, InvUnderWay

\* metaserver_deinit() forgets what the request would have said.
LEMMA InvDeinit == ASSUME PublisherInv, Deinit PROVE PublisherInv'
<1>1. /\ main = "idle" /\ leaving' = TRUE /\ main' = IF current THEN "free" ELSE "idle"
      /\ UNCHANGED <<count, request, current, cadence, snaps, listed, late, calm>>
    BY DEF Deinit
<1>2. MPTypeOK /\ RequestLife /\ SuspendedForCause /\ AttemptCurrent
    BY DEF PublisherInv
<1>3. MPTypeOK'
    BY <1>1, <1>2 DEF MPTypeOK
<1>4. RequestLife'
    BY <1>1, <1>2 DEF RequestLife
<1>5. Snapshot' = Snapshot
    BY <1>1 DEF Snapshot
<1> QED
    BY <1>1, <1>2, <1>3, <1>4, <1>5
    DEF PublisherInv, SuspendedForCause, AttemptCurrent, PublishedCurrent, Unhandled

\* A request is freed with its result handled, unless the server leaves.
LEMMA InvJoin == ASSUME PublisherInv, Join PROVE PublisherInv'
<1>1. /\ main = "join" /\ request' = NoRequest /\ current' = FALSE
      /\ main' = IF leaving THEN "idle" ELSE "cadence"
      /\ UNCHANGED <<count, leaving, cadence, snaps, listed, late, calm>>
    BY DEF Join
<1>2. MPTypeOK /\ RequestLife /\ SuspendedForCause /\ PublishedCurrent
    BY DEF PublisherInv
<1>3. MPTypeOK'
    BY <1>1, <1>2 DEF MPTypeOK
<1>4. RequestLife'
    BY <1>1, <1>2 DEF RequestLife
<1>5. Snapshot' = Snapshot
    BY <1>1 DEF Snapshot
<1>6. ~leaving => request.handled = 1
    BY <1>1, <1>2 DEF RequestLife
<1>7. PublishedCurrent'
    BY <1>1, <1>2, <1>5, <1>6 DEF PublishedCurrent
<1> QED
    BY <1>1, <1>2, <1>3, <1>4, <1>5, <1>7
    DEF PublisherInv, SuspendedForCause, AttemptCurrent

\* metaserver_service() settles for what is published or rejected, or makes an
\* attempt with the snapshot of the moment.
LEMMA InvService == ASSUME PublisherInv, Service PROVE PublisherInv'
<1> DEFINE c == Settled(Reconsidered(cadence), Snapshot # snaps.published)
<1>1. /\ ~current /\ ~leaving /\ main' = "idle"
      /\ UNCHANGED <<count, leaving, listed, late, calm>>
    BY DEF Service
<1>2. MPTypeOK /\ RequestLife /\ SuspendedForCause /\ PublishedCurrent
    BY DEF PublisherInv
<1>3. cadence \in Cadences /\ snaps \in Snaps /\ request = NoRequest
    BY <1>1, <1>2 DEF MPTypeOK, RequestLife, Cadences, Snaps
<1>4. /\ c \in Cadences
      /\ c.suspended => cadence.suspended /\ Snapshot = snaps.blocked
      /\ c.dirty = "no" /\ ~c.suspended =>
            (cadence.dirty = "no" /\ ~cadence.suspended) \/ snaps.published = Snapshot
      /\ Due(c) => c.tokens > 0 /\ ~c.suspended
    BY <1>3, ServiceFact
<1>5. \/ UNCHANGED <<cadence, snaps, request, current>>
      \/ cadence' = c /\ UNCHANGED <<snaps, request, current>>
      \/ /\ Due(c) /\ snaps' = [snaps EXCEPT !.attempted = Snapshot]
         /\ \/ cadence' = Attempted(c) /\ request' = NewRequest /\ current' = TRUE
            \/ cadence' = Failed(Attempted(c)) /\ UNCHANGED <<request, current>>
    BY DEF Service
<1> HIDE DEF c
<1>6. Snapshot' = Snapshot
    BY <1>1 DEF Snapshot
<1>7. Snapshot \in Snapshots /\ Snapshot # Nothing
    BY <1>2, SnapshotType DEF MPTypeOK
<1>8. CASE UNCHANGED <<cadence, snaps, request, current>>
  <2>1. MPTypeOK'
      BY <1>1, <1>2, <1>8 DEF MPTypeOK
  <2>2. RequestLife'
      BY <1>1, <1>2, <1>8 DEF RequestLife
  <2> QED
      BY <1>1, <1>2, <1>6, <1>8, <2>1, <2>2
      DEF PublisherInv, SuspendedForCause, AttemptCurrent, PublishedCurrent
<1>9. CASE cadence' = c /\ UNCHANGED <<snaps, request, current>>
  <2>1. MPTypeOK'
      BY <1>1, <1>2, <1>4, <1>9 DEF MPTypeOK, Cadences
  <2>2. RequestLife'
      BY <1>1, <1>2, <1>9 DEF RequestLife
  <2>3. SuspendedForCause'
      BY <1>2, <1>4, <1>6, <1>9 DEF SuspendedForCause
  <2>4. PublishedCurrent'
      BY <1>1, <1>2, <1>4, <1>6, <1>9 DEF PublishedCurrent
  <2> QED
      BY <1>1, <1>9, <2>1, <2>2, <2>3, <2>4 DEF PublisherInv, AttemptCurrent
<1>10. CASE Due(c) /\ snaps' = [snaps EXCEPT !.attempted = Snapshot]
  <2>1. /\ snaps' \in Snaps /\ snaps'.attempted = Snapshot
        /\ snaps'.published = snaps.published /\ snaps'.blocked = snaps.blocked
      BY <1>3, <1>7, <1>10 DEF Snaps
  <2> DEFINE a == Attempted(c)
  <2>2. a \in Cadences /\ a.dirty = "no" /\ ~a.suspended
      BY <1>4, <1>10, AttemptedFact
  <2> HIDE DEF a
  <2>3. CASE cadence' = a /\ request' = NewRequest /\ current' = TRUE
    <3>1. request' \in Requests /\ request' # NoRequest /\ request'.handled = 0
        BY <2>3 DEF NewRequest, Requests, NoRequest
    <3>2. MPTypeOK'
        BY <1>1, <1>2, <2>1, <2>2, <2>3 DEF MPTypeOK, Cadences, Snaps
    <3>3. RequestLife'
        BY <1>1, <1>7, <2>1, <2>3, <3>1 DEF RequestLife, Nothing
    <3> QED
        BY <1>6, <2>1, <2>2, <2>3, <3>1, <3>2, <3>3
        DEF PublisherInv, SuspendedForCause, AttemptCurrent, PublishedCurrent
  <2>4. CASE cadence' = Failed(a) /\ UNCHANGED <<request, current>>
    <3>1. cadence' \in Cadences /\ cadence'.dirty = "due" /\ ~cadence'.suspended
        BY <2>2, <2>4, FailedFact
    <3>2. MPTypeOK'
        BY <1>1, <1>2, <2>1, <2>4, <3>1 DEF MPTypeOK, Cadences, Snaps
    <3>3. RequestLife'
        BY <1>1, <1>2, <2>4 DEF RequestLife
    <3> QED
        BY <3>1, <3>2, <3>3
        DEF PublisherInv, SuspendedForCause, AttemptCurrent, PublishedCurrent
  <2> QED
      BY <1>5, <1>8, <1>9, <1>10, <2>3, <2>4 DEF a
<1> QED
    BY <1>5, <1>8, <1>9, <1>10

\* A new process knows of nothing published, and has everything to tell.
LEMMA InvRestart == ASSUME PublisherInv, Restart PROVE PublisherInv'
<1>1. /\ ~current /\ count' = 0 /\ main' = "idle" /\ leaving' = FALSE /\ cadence' = InitCadence
      /\ snaps' = [published |-> Nothing, attempted |-> Nothing, blocked |-> Nothing]
      /\ UNCHANGED <<request, current, listed, late, calm>>
    BY DEF Restart
<1>2. MPTypeOK /\ RequestLife
    BY DEF PublisherInv
<1>3. cadence' \in Cadences /\ cadence'.dirty = "due" /\ ~cadence'.suspended
    BY <1>1, PublisherAssumption DEF InitCadence, Cadences, Times
<1>4. count' \in Counts /\ Nothing \in Snapshots
    BY <1>1, PublisherAssumption DEF Counts, Snapshots
<1>5. snaps' \in Snaps
    BY <1>1, <1>4 DEF Snaps
<1>6. MPTypeOK'
    BY <1>1, <1>2, <1>3, <1>4, <1>5 DEF MPTypeOK, Cadences, Snaps
<1>7. RequestLife'
    BY <1>1, <1>2 DEF RequestLife
<1> QED
    BY <1>1, <1>3, <1>6, <1>7 DEF PublisherInv, SuspendedForCause, AttemptCurrent, PublishedCurrent

\* Time: a deadline passes or a token comes back.
LEMMA InvCadence ==
    ASSUME PublisherInv, cadence' \in Cadences, cadence'.suspended = cadence.suspended,
           cadence'.dirty = "no" => cadence.dirty = "no",
           UNCHANGED <<count, main, leaving, request, current, snaps, listed, late, calm>>
    PROVE  PublisherInv'
<1>1. MPTypeOK /\ RequestLife /\ SuspendedForCause /\ AttemptCurrent /\ PublishedCurrent
    BY DEF PublisherInv
<1>2. MPTypeOK'
    BY <1>1 DEF MPTypeOK, Cadences
<1>3. RequestLife'
    BY <1>1 DEF RequestLife
<1>4. Snapshot' = Snapshot
    BY DEF Snapshot
<1> QED
    BY <1>1, <1>2, <1>3, <1>4
    DEF PublisherInv, SuspendedForCause, AttemptCurrent, PublishedCurrent, Unhandled

LEMMA InvElapse ==
    ASSUME PublisherInv, NEW which \in {"dirty", "retry", "beat"}, Elapse(which)
    PROVE  PublisherInv'
<1>1. /\ cadence[which] = "wait" /\ cadence' = [cadence EXCEPT ![which] = "due"]
      /\ UNCHANGED <<count, main, leaving, request, current, snaps, listed, late, calm>>
    BY DEF Elapse
<1>2. cadence \in Cadences
    BY DEF PublisherInv, MPTypeOK, Cadences
<1>3. /\ cadence' \in Cadences /\ cadence'.suspended = cadence.suspended
      /\ cadence'.dirty = "no" => cadence.dirty = "no"
  <2>1. CASE which = "dirty"
      BY <1>1, <1>2, <2>1 DEF Cadences, Times
  <2>2. CASE which = "retry"
      BY <1>1, <1>2, <2>2 DEF Cadences, Times
  <2>3. CASE which = "beat"
      BY <1>1, <1>2, <2>3 DEF Cadences, Times
  <2> QED
      BY <2>1, <2>2, <2>3
<1> QED
    BY <1>1, <1>3, InvCadence

LEMMA InvRefill == ASSUME PublisherInv, RefillPublisher PROVE PublisherInv'
<1>1. /\ cadence.tokens < PublishTokens /\ cadence' = [cadence EXCEPT !.tokens = @ + 1]
      /\ UNCHANGED <<count, main, leaving, request, current, snaps, listed, late, calm>>
    BY DEF RefillPublisher
<1>2. cadence \in Cadences
    BY DEF PublisherInv, MPTypeOK, Cadences
<1>3. cadence.tokens + 1 \in 0..PublishTokens
    BY <1>1, <1>2, PublisherAssumption DEF Cadences
<1>4. /\ cadence' \in Cadences /\ cadence'.suspended = cadence.suspended
      /\ cadence'.dirty = "no" => cadence.dirty = "no"
    BY <1>1, <1>2, <1>3 DEF Cadences, Times
<1> QED
    BY <1>1, <1>4, InvCadence

\* What the metaserver does on its own is no concern of the publisher.
LEMMA InvOutside ==
    ASSUME PublisherInv, UNCHANGED server, calm' \in BOOLEAN, listed' \in Snapshots,
           late' \in Seq(Snapshots), Len(late') <= MaxLate
    PROVE  PublisherInv'
<1>1. MPTypeOK /\ RequestLife /\ SuspendedForCause /\ AttemptCurrent /\ PublishedCurrent
    BY DEF PublisherInv
<1>2. MPTypeOK'
    BY <1>1 DEF MPTypeOK, server
<1>3. RequestLife'
    BY <1>1 DEF RequestLife, server
<1>4. Snapshot' = Snapshot
    BY DEF Snapshot, server
<1> QED
    BY <1>1, <1>2, <1>3, <1>4
    DEF PublisherInv, SuspendedForCause, AttemptCurrent, PublishedCurrent, Unhandled, server

LEMMA InvApplyLate ==
    ASSUME PublisherInv, NEW i \in DOMAIN late, ApplyLate(i)
    PROVE  PublisherInv'
<1>1. /\ listed' = late[i] /\ late' = SubSeq(late, i + 1, Len(late))
      /\ UNCHANGED server /\ calm' = calm
    BY DEF ApplyLate
<1>2. late \in Seq(Snapshots) /\ Len(late) <= MaxLate /\ calm \in BOOLEAN
    BY DEF PublisherInv, MPTypeOK
<1>3. i \in 1..Len(late) /\ Len(late) \in Nat
    BY <1>2
<1>4. listed' \in Snapshots
    BY <1>1, <1>2, <1>3
<1>5. late' \in Seq(Snapshots) /\ Len(late') <= Len(late)
    BY <1>1, <1>2, <1>3
<1>6. Len(late') <= MaxLate
    BY <1>2, <1>5, PublisherAssumption
<1> QED
    BY <1>1, <1>2, <1>4, <1>5, <1>6, InvOutside

LEMMA InvCalm == ASSUME PublisherInv, Calm PROVE PublisherInv'
<1>1. calm' = TRUE /\ UNCHANGED server /\ listed' = listed /\ late' = late
    BY DEF Calm
<1>2. listed \in Snapshots /\ late \in Seq(Snapshots) /\ Len(late) <= MaxLate
    BY DEF PublisherInv, MPTypeOK
<1> QED
    BY <1>1, <1>2, InvOutside

LEMMA InvNext == ASSUME PublisherInv, [Next]_vars PROVE PublisherInv'
<1>1. CASE Next
    BY <1>1, InvPlay, InvDeinit, InvRestart, InvServiceDone, InvCancel, InvJoin, InvService, InvRespond,
       InvNotify, InvCallback, InvApply, InvCalm, InvRefill, InvElapse, InvApplyLate
    DEF Next, Main, Worker
<1>2. CASE UNCHANGED vars
  <2>1. UNCHANGED server /\ listed' = listed /\ late' = late /\ calm' = calm
      BY <1>2 DEF vars
  <2>2. listed \in Snapshots /\ late \in Seq(Snapshots) /\ Len(late) <= MaxLate /\ calm \in BOOLEAN
      BY DEF PublisherInv, MPTypeOK
  <2> QED
      BY <2>1, <2>2, InvOutside
<1> QED
    BY <1>1, <1>2

-----------------------------------------------------------------------------
(* What the metaserver lists.  The publisher does not see it; that it is   *)
(* what was published follows from how an attempt is begun (with another   *)
(* state, or with the heartbeat due) and how a success is reported (of a   *)
(* request that was taken, and after which nothing older is).              *)

\* A request that was taken is listed, and only such a request succeeds; and
\* while ListedAsPublished says something, nothing is under way or late.
ListingInv ==
    /\ request # NoRequest /\ request.applied => listed = snaps.attempted /\ late = <<>>
    /\ request # NoRequest /\ request.outcome = "ok" => request.applied /\ request.worker # "flight"
    /\ cadence.published /\ cadence.beat # "due" /\ snaps.attempted = snaps.published =>
         /\ listed = snaps.published /\ late = <<>>
         /\ request # NoRequest => request.worker # "flight"

\* The request becomes no other, or is freed.
SameRequest ==
    \/ request' = NoRequest \/ request' = request
    \/ /\ request # NoRequest
       /\ request'.applied = request.applied /\ request'.outcome = request.outcome
       /\ request'.worker = "flight" => request.worker = "flight"

\* Steps that neither make an attempt nor end one well.
LEMMA ListingKept ==
    ASSUME ListingInv, SameRequest, cadence'.published = cadence.published,
           cadence'.beat \in {cadence.beat, "due"}, snaps'.attempted = snaps.attempted,
           snaps'.published = snaps.published, UNCHANGED <<listed, late>>
    PROVE  ListingInv'
BY DEF ListingInv, SameRequest

LEMMA ListingInitially == Init => ListingInv
BY DEF Init, InitServer, InitCadence, ListingInv

\* Joining, leaving and time leave what was published, and to whom.
LEMMA ListingPlain ==
    ASSUME PublisherInv, ListingInv,
           \/ Play \/ Deinit \/ Cancel \/ Join \/ Notify \/ RefillPublisher \/ Calm
           \/ \E which \in {"dirty", "retry", "beat"} : Elapse(which)
    PROVE  ListingInv'
<1>1. cadence \in Cadences
    BY DEF PublisherInv, MPTypeOK, Cadences
<1>2. UNCHANGED <<snaps, listed, late>>
    BY DEF Play, Deinit, Cancel, Join, Notify, RefillPublisher, Calm, Elapse, server
<1>3. cadence'.published = cadence.published /\ cadence'.beat \in {cadence.beat, "due"}
  <2>1. CASE Play
      BY <1>1, <2>1 DEF Play, Changed, Cadences
  <2>2. CASE RefillPublisher
      BY <1>1, <2>2 DEF RefillPublisher, Cadences
  <2>3. CASE \E which \in {"dirty", "retry", "beat"} : Elapse(which)
    <3>1. PICK which \in {"dirty", "retry", "beat"} : cadence' = [cadence EXCEPT ![which] = "due"]
        BY <2>3 DEF Elapse
    <3>2. cadence' \in {[cadence EXCEPT !.dirty = "due"], [cadence EXCEPT !.retry = "due"],
                        [cadence EXCEPT !.beat = "due"]}
        BY <3>1
    <3> QED
        BY <1>1, <3>2 DEF Cadences
  <2>4. CASE Deinit \/ Cancel \/ Join \/ Notify \/ Calm
      BY <2>4 DEF Deinit, Cancel, Join, Notify, Calm, server
  <2> QED
      BY <2>1, <2>2, <2>3, <2>4
<1>4. SameRequest
  <2>1. CASE Cancel
    <3>1. main = "free" /\ request' = [request EXCEPT !.cancelled = TRUE]
        BY <2>1 DEF Cancel
    <3>2. request # NoRequest /\ request \in Requests
        BY <3>1 DEF PublisherInv, RequestLife
    <3> QED
        BY <3>1, <3>2 DEF SameRequest, Requests
  <2>2. CASE Notify
    <3>1. PICK w \in {"over", "admitted"} :
            request.worker = "ended" /\ request' = [request EXCEPT !.worker = w]
        BY <2>2 DEF Notify
    <3>2. request \in Requests /\ request # NoRequest
        BY <3>1, WorkerFact DEF NoRequest
    <3> QED
        BY <3>1, <3>2 DEF SameRequest, Requests
  <2>3. CASE ~Cancel /\ ~Notify
      BY <2>3 DEF Play, Deinit, Join, RefillPublisher, Calm, Elapse, server, SameRequest
  <2> QED
      BY <2>1, <2>2, <2>3
<1> QED
    BY <1>2, <1>3, <1>4, ListingKept

\* A result: only a success changes what was published, to what is listed.
LEMMA ListingHandled ==
    ASSUME PublisherInv, ListingInv, Handle, SameRequest, request \in Requests, request' \in Requests,
           request.worker # "flight", request'.outcome = request.outcome, request'.applied = request.applied,
           request'.worker # "flight", UNCHANGED <<listed, late>>
    PROVE  ListingInv'
<1>1. cadence \in Cadences /\ snaps \in Snaps /\ snaps.attempted \in Snapshots /\ Nothing \in Snapshots
    BY DEF PublisherInv, MPTypeOK, Cadences, Snaps, Snapshots
<1>2. request # NoRequest /\ request' # NoRequest
    BY DEF Requests, NoRequest
<1>3. CASE /\ Unhandled /\ request.outcome = "ok"
           /\ snaps' = [snaps EXCEPT !.published = snaps.attempted, !.blocked = Nothing]
           /\ cadence' = Succeeded(cadence)
  <2>1. snaps'.attempted = snaps.attempted /\ snaps'.published = snaps.attempted
      BY <1>1, <1>3 DEF Snaps
  <2>2. listed = snaps.attempted /\ late = <<>> /\ request.applied
      BY <1>2, <1>3 DEF ListingInv
  <2> QED
      BY <1>2, <2>1, <2>2 DEF ListingInv
<1>4. CASE Unhandled /\ request.outcome \in {"replay", "reject"} /\ Suspends
  <2>1. snaps' = [snaps EXCEPT !.blocked = snaps.attempted]
      BY <1>4 DEF Suspends
  <2>2. snaps'.attempted = snaps.attempted /\ snaps'.published = snaps.published
      BY <1>1, <2>1 DEF Snaps
  <2>3. PICK r \in Replayed : cadence' = Suspended([cadence EXCEPT !.replayed = r])
      BY <1>4 DEF Suspends
  <2>4. cadence'.published = cadence.published /\ cadence'.beat = cadence.beat
      BY <1>1, <2>3 DEF Suspended, Cadences
  <2> QED
      BY <2>2, <2>4, ListingKept
<1>5. CASE UNCHANGED <<cadence, snaps>>
    BY <1>5, ListingKept
<1>6. CASE (cadence' = Failed(cadence) \/ cadence' = Failed([cadence EXCEPT !.replayed = TRUE])) /\ UNCHANGED snaps
  <2>1. cadence'.published = cadence.published /\ cadence'.beat = cadence.beat
      BY <1>1, <1>6 DEF Failed, Cadences
  <2> QED
      BY <1>6, <2>1, ListingKept
<1> QED
    BY <1>3, <1>4, <1>5, <1>6 DEF Handle

LEMMA ListingServiceDone == ASSUME PublisherInv, ListingInv, ServiceDone PROVE ListingInv'
<1>1. /\ current /\ Handle /\ request' = [request EXCEPT !.handled = Counted]
      /\ request.worker # "flight" /\ UNCHANGED <<listed, late>>
    BY DEF ServiceDone
<1>2. request \in Requests /\ request # NoRequest
    BY <1>1 DEF PublisherInv, RequestLife
<1>3. /\ request' \in Requests /\ request'.outcome = request.outcome
      /\ request'.applied = request.applied /\ request'.worker = request.worker
    BY <1>1, <1>2, CountedFact DEF Requests
<1>4. SameRequest
    BY <1>1, <1>2, <1>3 DEF SameRequest
<1> QED
    BY <1>1, <1>2, <1>3, <1>4, ListingHandled

LEMMA ListingCallback == ASSUME PublisherInv, ListingInv, Callback PROVE ListingInv'
<1>1. /\ request.worker = "admitted" /\ Handle
      /\ request' = [request EXCEPT !.worker = "over", !.handled = Counted]
      /\ UNCHANGED <<listed, late>>
    BY DEF Callback
<1>2. request # NoRequest /\ request \in Requests
    BY <1>1 DEF PublisherInv, RequestLife, NoRequest
<1>3. PICK n \in 0..1 : n = Counted
    BY <1>2, CountedFact
<1>4. request' = [request EXCEPT !.worker = "over", !.handled = n]
    BY <1>1, <1>3
<1>5. /\ request' \in Requests /\ request'.outcome = request.outcome
      /\ request'.applied = request.applied /\ request'.worker = "over"
    BY <1>2, <1>4 DEF Requests
<1>6. SameRequest
    BY <1>2, <1>5 DEF SameRequest
<1> QED
    BY <1>1, <1>2, <1>5, <1>6, ListingHandled

\* While a request is under way, what is published is not what is attempted, or
\* the heartbeat is due: a late or lost request breaks no promise.
LEMMA ListingUnderWay ==
    ASSUME PublisherInv, ListingInv, Apply \/ \E outcome \in {"ok", "retry", "replay", "reject"} : Respond(outcome)
    PROVE  ListingInv'
<1>1. request.worker = "flight" /\ UNCHANGED <<cadence, snaps>>
    BY DEF Apply, Respond
<1>2. request \in Requests /\ request # NoRequest
    BY <1>1, WorkerFact DEF NoRequest
<1>3. ~(cadence.published /\ cadence.beat # "due" /\ snaps.attempted = snaps.published)
    BY <1>1, <1>2 DEF ListingInv
<1>4. CASE Apply
  <2>1. request' = [request EXCEPT !.applied = TRUE] /\ listed' = snaps.attempted /\ late' = <<>>
      BY <1>4 DEF Apply
  <2>2. request'.outcome = request.outcome
      BY <1>2, <2>1 DEF Requests
  <2>3. request.outcome # "ok"
      BY <1>1, <1>2 DEF ListingInv
  <2> QED
      BY <1>1, <1>3, <2>1, <2>2, <2>3 DEF ListingInv
<1>5. ASSUME NEW outcome \in {"ok", "retry", "replay", "reject"}, Respond(outcome)
      PROVE  ListingInv'
  <2>1. /\ request' = [request EXCEPT !.worker = "ended", !.outcome = outcome]
        /\ outcome \in Outcomes \/ outcome = "retry"
        /\ request.applied => late' = late
        /\ listed' = listed
      BY <1>5 DEF Respond
  <2>2. outcome = "ok" => request.applied
      BY <2>1 DEF Outcomes
  <2>3. request'.applied = request.applied /\ request'.outcome = outcome /\ request'.worker = "ended"
      BY <1>2, <2>1 DEF Requests
  <2> QED
      BY <1>1, <1>2, <1>3, <2>1, <2>2, <2>3 DEF ListingInv
<1> QED
    BY <1>4, <1>5

\* metaserver_service() makes an attempt only with another state than the one
\* published, unless the heartbeat is due.
LEMMA ListingService == ASSUME PublisherInv, ListingInv, Service PROVE ListingInv'
<1> DEFINE r == Reconsidered(cadence)
           changed == Snapshot # snaps.published
           c == Settled(r, changed)
<1>1. ~current /\ UNCHANGED <<listed, late>>
    BY DEF Service
<1>2. cadence \in Cadences /\ snaps \in Snaps /\ request = NoRequest /\ Snapshot \in Snapshots
    BY <1>1, SnapshotType DEF PublisherInv, MPTypeOK, RequestLife, Cadences, Snaps
<1>3. r \in Cadences /\ r.published = cadence.published /\ r.beat = cadence.beat
    BY <1>2, ReconsideredFact DEF Reconsidered, Changed, Cadences
<1>4. changed \in BOOLEAN /\ (~changed => Snapshot = snaps.published)
    BY DEF changed
<1>5. \/ UNCHANGED <<cadence, snaps, request>>
      \/ cadence' = c /\ UNCHANGED <<snaps, request>>
      \/ /\ Due(c) /\ snaps' = [snaps EXCEPT !.attempted = Snapshot]
         /\ \/ cadence' = Attempted(c) /\ request' = NewRequest
            \/ cadence' = Failed(Attempted(c)) /\ UNCHANGED request
    BY DEF Service, c, r, changed
<1>6. snaps.published # Snapshot <=> changed
    BY DEF changed
<1> HIDE DEF r, changed
<1>7. c \in Cadences /\ c.published = r.published /\ c.beat = r.beat
    BY <1>3 DEF c, Settled, Cadences, Times
<1>8. Due(c) /\ cadence.published /\ cadence.beat # "due" => changed
  <2> SUFFICES ASSUME Due(c), cadence.published, cadence.beat # "due", ~changed PROVE FALSE
      OBVIOUS
  <2>1. Free(c) /\ c.dirty = "due"
      BY <1>3, <1>7 DEF Due
  <2>2. CASE Free(r) /\ r.dirty = "due" /\ r.published /\ ~changed
    <3>1. c = [r EXCEPT !.dirty = "no"]
        BY <2>2 DEF c, Settled
    <3> QED
        BY <1>3, <2>1, <3>1 DEF Cadences
  <2>3. CASE ~(Free(r) /\ r.dirty = "due" /\ r.published /\ ~changed)
    <3>1. c = r
        BY <2>3 DEF c, Settled
    <3> QED
        BY <1>3, <2>1, <2>3, <3>1
  <2> QED
      BY <2>2, <2>3
<1> HIDE DEF c
<1>9. CASE UNCHANGED <<cadence, snaps, request>> \/ (cadence' = c /\ UNCHANGED <<snaps, request>>)
  <2>1. cadence'.published = cadence.published /\ cadence'.beat = cadence.beat /\ SameRequest
      BY <1>3, <1>7, <1>9 DEF SameRequest
  <2> QED
      BY <1>1, <1>9, <2>1, ListingKept
<1>10. CASE /\ Due(c) /\ snaps' = [snaps EXCEPT !.attempted = Snapshot]
            /\ \/ cadence' = Attempted(c) /\ request' = NewRequest
               \/ cadence' = Failed(Attempted(c)) /\ UNCHANGED request
  <2>1. snaps'.attempted = Snapshot /\ snaps'.published = snaps.published
      BY <1>2, <1>10 DEF Snaps
  <2>2. cadence'.published = cadence.published /\ cadence'.beat = cadence.beat
      BY <1>3, <1>7, <1>10 DEF Attempted, Failed, Cadences
  <2>3. ~(cadence'.published /\ cadence'.beat # "due" /\ snaps'.attempted = snaps'.published)
      BY <1>6, <1>8, <1>10, <2>1, <2>2
  <2>4. request' # NoRequest => request'.applied = FALSE /\ request'.outcome = "none"
      BY <1>2, <1>10 DEF NewRequest
  <2> QED
      BY <2>3, <2>4 DEF ListingInv
<1> QED
    BY <1>5, <1>9, <1>10

LEMMA ListingNext == ASSUME PublisherInv, ListingInv, [Next]_vars PROVE ListingInv'
<1>1. CASE Restart
  <2>1. /\ ~current /\ request' = request /\ cadence' = InitCadence
      BY <1>1 DEF Restart
  <2>2. request' = NoRequest /\ ~cadence'.published
      BY <2>1 DEF InitCadence, PublisherInv, RequestLife
  <2> QED
      BY <2>2 DEF ListingInv
<1>2. CASE \E i \in DOMAIN late : ApplyLate(i)
  <2>1. late # <<>> /\ UNCHANGED <<request, cadence, snaps>>
      BY <1>2 DEF ApplyLate, server
  <2> QED
      BY <2>1 DEF ListingInv
<1>3. CASE UNCHANGED vars
    BY <1>3 DEF vars, server, ListingInv
<1> QED
    BY <1>1, <1>2, <1>3, ListingPlain, ListingServiceDone, ListingCallback, ListingUnderWay, ListingService
    DEF Next, Main, Worker

-----------------------------------------------------------------------------
\* What PublisherSound says of the publisher at rest, and of the listing.
LEMMA InvSound == PublisherInv /\ ListingInv => PublisherSound
<1> SUFFICES ASSUME PublisherInv, ListingInv PROVE PublisherSound
    OBVIOUS
<1>1. MPTypeOK /\ RequestLife /\ SuspendedForCause /\ PublishedCurrent
    BY DEF PublisherInv
<1>2. CallbackOwns
    BY <1>1 DEF CallbackOwns, RequestLife, NoRequest
<1>3. HandledOnce
    BY <1>1 DEF HandledOnce, RequestLife, Requests
<1>4. NothingForgotten
    BY <1>1 DEF NothingForgotten, PublishedCurrent
<1>5. ListedAsPublished
    BY DEF ListedAsPublished, ListingInv
<1> QED
    BY <1>1, <1>2, <1>3, <1>4, <1>5 DEF PublisherSound

\* At every interleaving of the poll in metaserver_service(), the callback of the
\* worker and what the metaserver does: a callback under way finds its request
\* still current, each result is handled once, a suspension lasts only for the
\* state that was rejected, no change of the players is forgotten, and the
\* metaserver lists what was published until the heartbeat is due or another
\* state has been attempted.
THEOREM PublisherIsSound == Spec => []PublisherSound
<1>1. Init => PublisherInv /\ ListingInv
    BY InvInit, ListingInitially
<1>2. PublisherInv /\ ListingInv /\ [Next]_vars => (PublisherInv /\ ListingInv)'
    BY InvNext, ListingNext
<1>3. PublisherInv /\ ListingInv => PublisherSound
    BY InvSound
<1> QED
    BY <1>1, <1>2, <1>3, PTL DEF Spec

-----------------------------------------------------------------------------
(* The attempt budget. *)

\* The attempts from a time until now that are not forgiven.
Since(from) == Made(from, now + 1)

\* Attempts are only added, and none lies ahead.
Histories ==
    /\ forgiven \in [Moments -> Nat]
    /\ \A s, t \in Moments : s <= t => Made(s, t) >= 0
    /\ \A t \in Moments : now < t => attempts[t] = attempts[now + 1] /\ forgiven[t] = forgiven[now + 1]

\* An attempt gives the bucket a deadline that is ahead of it.
NoneAfter == \A t \in 0..now : deadline <= t => Since(t) = 0

\* What the bucket has given and still holds beyond its capacity came one
\* refill after the other, and the deadline is another refill away.
Spaced ==
    \A t \in 0..now :
        LET given == Since(t) + bucket - Capacity
        IN  given > 0 => deadline > t + Refill * given

AttemptsInv == BudgetSound /\ Histories /\ NoneAfter /\ Spaced

LEMMA RefillsAdd == \A a, b \in Int : Refill * (a + b) = Refill * a + Refill * b
  BY BudgetAssumption

LEMMA MoreRefills == \A a, b \in Int : a <= b => Refill * a <= Refill * b
  BY BudgetAssumption

LEMMA OneRefill == Refill * 1 = Refill /\ Refill * 0 = 0 /\ \A a \in Int : Refill * a \in Int /\ a * Refill = Refill * a
  BY BudgetAssumption

\* Whole refills in a time.
LEMMA WholeRefills ==
    \A e \in Nat : e \div Refill \in Nat /\ Refill * (e \div Refill) <= e /\ e < Refill * (e \div Refill + 1)
  BY BudgetAssumption

LEMMA LeastOfTwo ==
  ASSUME NEW a \in Int, NEW b \in Int
  PROVE  Min({a, b}) = IF a < b THEN a ELSE b
<1>1. \E x \in {a, b} : \A y \in {a, b} : x <= y
  OBVIOUS
<1>2. Min({a, b}) \in {a, b} /\ \A y \in {a, b} : Min({a, b}) <= y
  BY <1>1 DEF Min
<1> QED
  BY <1>2

\* What attempts there are, as numbers.
LEMMA SinceIs ==
  ASSUME BTypeOK, Histories
  PROVE  /\ \A t \in 0..now : Since(t) \in Nat
         /\ \A s, t \in Moments : Made(s, t) \in Int
         /\ \A s, t \in 0..now : s <= t => Since(t) <= Since(s)
<1>0. now \in Nat /\ now + 1 \in Moments /\ 0..now \subseteq Moments
  BY BudgetAssumption DEF BTypeOK, Moments
<1>1. \A t \in Moments : attempts[t] \in Int /\ forgiven[t] \in Int
  BY DEF BTypeOK, Histories
<1>2. \A s, t \in Moments : Made(s, t) \in Int /\ Made(s, now + 1) = Made(s, t) + Made(t, now + 1)
  BY <1>0, <1>1 DEF Made
<1>3. \A s, t \in Moments : s <= t => Made(s, t) >= 0
  BY DEF Histories
<1>4. \A t \in 0..now : t \in Moments /\ t <= now + 1 /\ t \in Int
  BY <1>0
<1>5. \A t \in 0..now : Since(t) \in Nat
  BY <1>0, <1>2, <1>3, <1>4 DEF Since
<1>6. ASSUME NEW s \in 0..now, NEW t \in 0..now, s <= t PROVE Since(t) <= Since(s)
  BY <1>6, <1>2, <1>3, <1>4, <1>5 DEF Since
<1> QED
  BY <1>2, <1>5, <1>6

\* The bucket as an operation finds it: its deadline is ahead, and what it holds is
\* still spaced.
LEMMA RefilledIs ==
  ASSUME AttemptsInv
  PROVE  /\ Refilled.bucket \in 0..Capacity
         /\ Refilled.deadline \in Int /\ now < Refilled.deadline /\ Refilled.deadline <= now + Refill
         /\ \A t \in 0..now :
               LET given == Since(t) + Refilled.bucket - Capacity
               IN  given > 0 => Refilled.deadline > t + Refill * given
<1> USE BudgetAssumption DEF AttemptsInv, BudgetSound
<1>t. now \in Nat /\ bucket \in 0..Capacity /\ deadline \in Int /\ deadline - now <= Refill
      /\ Capacity \in Nat /\ Refill \in Nat \ {0} /\ \A t \in 0..now : Since(t) \in Nat
  BY SinceIs DEF BTypeOK, SoonAgain
<1>1. CASE now < deadline
  BY <1>1, <1>t DEF Refilled, Spaced
<1>2. CASE ~(now < deadline)
  <2> DEFINE i == Intervals
             overdue == now - deadline
  <2>1. overdue \in Nat /\ i \in Nat /\ i >= 1 /\ Refill * (i - 1) <= overdue /\ overdue < Refill * i
    <3>1. overdue \in Nat
      BY <1>2, <1>t
    <3>2. overdue \div Refill \in Nat /\ Refill * (overdue \div Refill) <= overdue /\ overdue < Refill * (overdue \div Refill + 1)
      BY <3>1, WholeRefills
    <3>3. i = overdue \div Refill + 1
      BY DEF Intervals
    <3> HIDE DEF i, overdue
    <3> QED
      BY <3>1, <3>2, <3>3
  <2>2. Refilled = [bucket |-> Given, deadline |-> NextDeadline]
    BY <1>2 DEF Refilled
  <2>3. Given = IF bucket + i < Capacity THEN bucket + i ELSE Capacity
    <3> HIDE DEF i
    <3>1. Given = Min({bucket + i, Capacity})
      BY DEF Given, i
    <3> QED
      BY <3>1, LeastOfTwo, <2>1, <1>t
  <2>4. NextDeadline = IF i >= Capacity - bucket THEN now + Refill ELSE deadline + Refill * i
    <3>1. Intervals * Refill = Refill * Intervals
      BY <2>1, OneRefill
    <3> QED
      BY <3>1 DEF NextDeadline
  <2>n. deadline <= now /\ \A t \in 0..now : deadline <= t => Since(t) = 0
    BY <1>2, <1>t DEF NoneAfter
  <2>s. \A t \in 0..now : Since(t) + bucket - Capacity > 0 => deadline > t + Refill * (Since(t) + bucket - Capacity)
    BY DEF Spaced
  <2>5. CASE i >= Capacity - bucket
    <3>1. Refilled.bucket = Capacity /\ Refilled.deadline = now + Refill
      <4> HIDE DEF i
      <4>1. Given = Capacity
        BY <2>3, <2>5, <2>1, <1>t
      <4>2. NextDeadline = now + Refill
        BY <2>4, <2>5
      <4> QED
        BY <4>1, <4>2, <2>2
    <3>2. now + Refill >= deadline + Refill * (Capacity - bucket)
      <4>1. Refill * (Capacity - bucket) <= Refill * i
        BY <2>5, <2>1, <1>t, MoreRefills
      <4>2. Refill * i = Refill * (i - 1) + Refill * 1
        BY <2>1, RefillsAdd
      <4>3. Refill * (Capacity - bucket) \in Int /\ Refill * i \in Int /\ Refill * (i - 1) \in Int
        BY <2>1, <1>t, OneRefill
      <4>4. overdue = now - deadline
        OBVIOUS
      <4> HIDE DEF i, overdue
      <4> QED
        BY <4>1, <4>2, <4>3, <4>4, <2>1, <1>t, OneRefill
    <3>3. ASSUME NEW t \in 0..now, Since(t) > 0 PROVE now + Refill > t + Refill * Since(t)
      <4> DEFINE u == Since(t)
      <4>1. u \in Nat /\ u > 0 /\ t < deadline /\ t \in Int
        BY <3>3, <1>t, <2>n
      <4>2. (u + bucket - Capacity > 0) => deadline > t + Refill * (u + bucket - Capacity)
        BY <2>s
      <4> HIDE DEF u
      <4>3. u = (u + bucket - Capacity) + (Capacity - bucket)
        BY <4>1, <1>t
      <4> DEFINE beyond == Refill * (u + bucket - Capacity)
                 missing == Refill * (Capacity - bucket)
                 whole == Refill * u
      <4>4. whole = beyond + missing
        BY <4>3, <4>1, <1>t, RefillsAdd
      <4>5. beyond \in Int /\ missing \in Int /\ whole \in Int
        BY <4>1, <1>t, OneRefill
      <4>6. u + bucket - Capacity > 0 \/ beyond <= 0
        <5>1. CASE ~(u + bucket - Capacity > 0)
          <6>1. Refill * (u + bucket - Capacity) <= Refill * 0
            BY <5>1, <4>1, <1>t, MoreRefills
          <6> QED
            BY <6>1, OneRefill
        <5> QED
          BY <5>1
      <4>7. deadline > t + beyond
        <5>1. CASE u + bucket - Capacity > 0
          BY <5>1, <4>2
        <5>2. CASE beyond <= 0
          <6> HIDE DEF beyond
          <6> QED
            BY <5>2, <4>5, <4>1, <1>t
        <5> QED
          BY <5>1, <5>2, <4>6
      <4>8. now + Refill >= deadline + missing
        BY <3>2
      <4>9. now + Refill > t + whole
        <5> HIDE DEF beyond, missing, whole
        <5> QED
          BY <4>4, <4>5, <4>7, <4>8, <4>1, <1>t
      <4> QED
        BY <4>9 DEF u
    <3>4. \A t \in 0..now : Since(t) + Capacity - Capacity > 0 => now + Refill > t + Refill * (Since(t) + Capacity - Capacity)
      <4>1. \A t \in 0..now : Since(t) + Capacity - Capacity = Since(t)
        BY <1>t
      <4> QED
        BY <4>1, <3>3
    <3> QED
      BY <3>1, <3>4, <1>t
  <2>6. CASE ~(i >= Capacity - bucket)
    <3>1. Refilled.bucket = bucket + i /\ Refilled.deadline = deadline + Refill * i
      <4> HIDE DEF i
      <4>1. Given = bucket + i
        BY <2>3, <2>6, <2>1, <1>t
      <4>2. NextDeadline = deadline + Refill * i
        BY <2>4, <2>6
      <4> QED
        BY <4>1, <4>2, <2>2
    <3>2. bucket + i \in 0..Capacity
      <4> HIDE DEF i
      <4> QED
        BY <2>6, <2>1, <1>t
    <3>3. Refill * i \in Int /\ now < deadline + Refill * i /\ deadline + Refill * i <= now + Refill
      <4>1. Refill * i = Refill * (i - 1) + Refill * 1
        BY <2>1, RefillsAdd
      <4>2. Refill * i \in Int /\ Refill * (i - 1) \in Int
        BY <2>1, OneRefill
      <4>3. overdue = now - deadline
        OBVIOUS
      <4> HIDE DEF i, overdue
      <4> QED
        BY <4>1, <4>2, <4>3, <2>1, <1>t, OneRefill
    <3>4. ASSUME NEW t \in 0..now, Since(t) + (bucket + i) - Capacity > 0
          PROVE  deadline + Refill * i > t + Refill * (Since(t) + (bucket + i) - Capacity)
      <4> DEFINE u == Since(t)
      <4>1. u \in Nat /\ t \in Int
        BY <1>t
      <4>2. u > 0 /\ t < deadline
        <5> HIDE DEF i
        <5>1. u > 0
          BY <3>4, <3>2, <1>t, <4>1, <2>1
        <5> QED
          BY <5>1, <2>n, <1>t
      <4>3. (u + bucket - Capacity > 0) => deadline > t + Refill * (u + bucket - Capacity)
        BY <2>s
      <4>4. u + (bucket + i) - Capacity > 0
        BY <3>4
      <4>5. i \in Nat
        BY <2>1
      <4>6. Refill * i \in Int
        BY <3>3
      <4> HIDE DEF u, i
      <4>7. u + (bucket + i) - Capacity = (u + bucket - Capacity) + i
        BY <4>1, <4>5, <1>t
      <4> DEFINE beyond == Refill * (u + bucket - Capacity)
                 given == Refill * i
                 whole == Refill * (u + (bucket + i) - Capacity)
      <4>8. whole = beyond + given
        BY <4>7, <4>1, <4>5, <1>t, RefillsAdd
      <4>9. beyond \in Int /\ given \in Int
        BY <4>1, <4>6, <1>t, OneRefill
      <4>10. u + bucket - Capacity > 0 \/ beyond <= 0
        <5>1. CASE ~(u + bucket - Capacity > 0)
          <6>1. Refill * (u + bucket - Capacity) <= Refill * 0
            BY <5>1, <4>1, <1>t, MoreRefills
          <6> QED
            BY <6>1, OneRefill
        <5> QED
          BY <5>1
      <4>11. deadline > t + beyond
        <5>1. CASE u + bucket - Capacity > 0
          BY <5>1, <4>3
        <5>2. CASE beyond <= 0
          <6> HIDE DEF beyond
          <6> QED
            BY <5>2, <4>9, <4>1, <4>2, <1>t
        <5> QED
          BY <5>1, <5>2, <4>10
      <4>12. deadline + given > t + whole
        <5> HIDE DEF beyond, given, whole
        <5> QED
          BY <4>8, <4>9, <4>11, <4>1, <1>t
      <4> QED
        BY <4>12 DEF u
    <3> HIDE DEF i
    <3> QED
      BY <3>1, <3>2, <3>3, <3>4, <1>t
  <2> HIDE DEF i
  <2> QED
    BY <2>5, <2>6
<1> QED
  BY <1>1, <1>2

\* Where a number of periods ends.
LEMMA PeriodsEndIs ==
  ASSUME NEW from \in Moments, NEW k \in Nat
  PROVE  /\ PeriodsEnd(from, k) = IF from + Refill * k < MaxTime + 1 THEN from + Refill * k ELSE MaxTime + 1
         /\ PeriodsEnd(from, k) \in Moments /\ from <= PeriodsEnd(from, k)
<1>1. k * Refill = Refill * k /\ Refill * k \in Int /\ Refill * k >= 0
  <2>1. Refill * 0 <= Refill * k
    BY MoreRefills
  <2> QED
    BY <2>1, OneRefill
<1> DEFINE length == Refill * k
<1>2. PeriodsEnd(from, k) = Min({from + length, MaxTime + 1})
  BY <1>1 DEF PeriodsEnd
<1>3. length \in Int /\ length >= 0
  BY <1>1
<1> HIDE DEF length
<1>4. from \in Int /\ from <= MaxTime + 1 /\ from >= 0 /\ MaxTime + 1 \in Int
  BY BudgetAssumption DEF Moments
<1>5. PeriodsEnd(from, k) = IF from + length < MaxTime + 1 THEN from + length ELSE MaxTime + 1
  BY <1>2, <1>3, <1>4, LeastOfTwo
<1>6. PeriodsEnd(from, k) \in Moments /\ from <= PeriodsEnd(from, k)
  BY <1>3, <1>4, <1>5 DEF Moments
<1> QED
  BY <1>5, <1>6 DEF length

\* The periods of the cap.
LEMMA CapPeriods == MaxTime \div Refill \in Nat /\ 0..(MaxTime \div Refill) \subseteq Nat
<1>1. MaxTime \in Nat
  BY BudgetAssumption
<1>2. MaxTime \div Refill \in Nat
  BY <1>1, WholeRefills
<1> QED
  BY <1>2

LEMMA AttemptsInitially == BudgetInit => AttemptsInv
<1> SUFFICES ASSUME BudgetInit PROVE AttemptsInv
  OBVIOUS
<1>1. /\ now = 0 /\ bucket = Capacity /\ deadline = Refill /\ since = NotConnected
      /\ \A t \in Moments : attempts[t] = 0 /\ forgiven[t] = 0
      /\ attempts \in [Moments -> Nat] /\ forgiven \in [Moments -> Nat]
  BY DEF BudgetInit
<1>2. {Capacity, Refill, Stable, MaxTime} \subseteq Nat /\ Refill > 0 /\ Capacity > 0
  BY BudgetAssumption
<1>3. BTypeOK
  BY <1>1, <1>2 DEF BTypeOK, NotConnected
<1>4. SoonAgain
  BY <1>1, <1>2 DEF SoonAgain
<1>5. \A s, t \in Moments : Made(s, t) = 0
  BY <1>1 DEF Made
<1>6. 0 \in Moments /\ now + 1 \in Moments
  BY <1>1, <1>2 DEF Moments
<1>7. CappedBetween
  <2> SUFFICES ASSUME NEW from \in 0..now, NEW k \in 0..(MaxTime \div Refill)
               PROVE  Made(from, PeriodsEnd(from, k)) <= Capacity + k
    BY DEF CappedBetween
  <2>1. from \in Moments /\ k \in Nat
    BY <1>1, <1>6, CapPeriods
  <2>2. Made(from, PeriodsEnd(from, k)) = 0
    BY <2>1, <1>5, PeriodsEndIs
  <2> QED
    BY <2>1, <2>2, <1>2
<1>8. Histories
  BY <1>1, <1>5, <1>6 DEF Histories
<1>9. \A t \in 0..now : Since(t) = 0
  BY <1>1, <1>5, <1>6 DEF Since
<1>10. NoneAfter
  BY <1>9 DEF NoneAfter
<1>11. Spaced
  BY <1>1, <1>2, <1>9 DEF Spaced
<1> QED
  BY <1>3, <1>4, <1>7, <1>8, <1>10, <1>11 DEF AttemptsInv, BudgetSound

\* What every state that the invariant allows has in it, as numbers.
LEMMA BudgetNumbers ==
  ASSUME AttemptsInv
  PROVE  /\ {Capacity, Refill, Stable, MaxTime} \subseteq Nat /\ Refill > 0
         /\ now \in Nat /\ now <= MaxTime /\ now + 1 \in Moments /\ 0..now \subseteq Moments
         /\ bucket \in 0..Capacity /\ deadline \in 0..MaxTime + Refill /\ since \in 0..NotConnected
         /\ attempts \in [Moments -> Nat] /\ forgiven \in [Moments -> Nat]
         /\ \A t \in 0..now : Since(t) \in Nat
<1>1. {Capacity, Refill, Stable, MaxTime} \subseteq Nat /\ Refill > 0
  BY BudgetAssumption
<1>2. BTypeOK /\ Histories
  BY DEF AttemptsInv, BudgetSound
<1>3. now \in Nat /\ now <= MaxTime
  BY <1>1, <1>2 DEF BTypeOK
<1> QED
  BY SMTT(30), <1>1, <1>2, <1>3, SinceIs DEF BTypeOK, Histories, Moments

\* A look gives the bucket its tokens and changes nothing else.
LEMMA LookKeepsBudget ==
  ASSUME AttemptsInv, Look PROVE AttemptsInv'
<1>1. /\ bucket' = Refilled.bucket /\ deadline' = Refilled.deadline
      /\ now' = now /\ since' = since /\ attempts' = attempts /\ forgiven' = forgiven
  BY DEF Look
<1>2. /\ bucket' \in 0..Capacity /\ deadline' \in Int /\ now < deadline' /\ deadline' <= now + Refill
      /\ \A t \in 0..now : LET given == Since(t) + bucket' - Capacity
                           IN  given > 0 => deadline' > t + Refill * given
  BY <1>1, RefilledIs
<1>3. BTypeOK'
  BY <1>1, <1>2, BudgetNumbers DEF BTypeOK
<1>4. SoonAgain'
  BY <1>1, <1>2, BudgetNumbers DEF SoonAgain
<1>5. \A s, t \in Moments : Made(s, t)' = Made(s, t)
  BY <1>1 DEF Made
<1>6. CappedBetween' /\ Histories'
  BY <1>1 DEF AttemptsInv, BudgetSound, CappedBetween, Histories, Made
<1>7. \A t \in 0..now : Since(t)' = Since(t)
  BY <1>1 DEF Since, Made
<1>8. NoneAfter'
  <2>1. \A t \in 0..now : ~(deadline' <= t)
    BY <1>2, BudgetNumbers
  <2> QED
    BY <2>1, <1>1 DEF NoneAfter
<1>9. Spaced'
  BY <1>1, <1>2, <1>7 DEF Spaced
<1> QED
  BY <1>3, <1>4, <1>6, <1>8, <1>9 DEF AttemptsInv, BudgetSound

\* An attempt is one more in every period that began and has not ended; the token it
\* took is not in the bucket any more.
LEMMA AttemptKeepsBudget ==
  ASSUME AttemptsInv,
         Refilled.bucket > 0, bucket' = Refilled.bucket - 1, deadline' = Refilled.deadline,
         attempts' = [t \in Moments |-> IF now < t THEN attempts[t] + 1 ELSE attempts[t]],
         since' \in {now, NotConnected}, now' = now, forgiven' = forgiven
  PROVE  AttemptsInv'
<1>0. /\ {Capacity, Refill, Stable, MaxTime} \subseteq Nat /\ Refill > 0
      /\ now \in Nat /\ now <= MaxTime /\ now + 1 \in Moments /\ 0..now \subseteq Moments
      /\ attempts \in [Moments -> Nat] /\ forgiven \in [Moments -> Nat]
      /\ \A t \in 0..now : Since(t) \in Nat
  BY BudgetNumbers
<1>1. /\ Refilled.bucket \in 0..Capacity /\ deadline' \in Int /\ now < deadline' /\ deadline' <= now + Refill
      /\ \A t \in 0..now : LET given == Since(t) + Refilled.bucket - Capacity
                           IN  given > 0 => deadline' > t + Refill * given
  BY RefilledIs
<1>2. bucket' \in 0..Capacity
  BY <1>0, <1>1
<1>3. BTypeOK'
  <2>1. attempts' \in [Moments -> Nat]
    BY <1>0
  <2>2. since' \in 0..NotConnected
    BY <1>0 DEF NotConnected
  <2>3. deadline' \in 0..MaxTime + Refill
    BY <1>0, <1>1
  <2>4. now' \in 0..MaxTime
    BY <1>0
  <2> QED
    BY <1>2, <2>1, <2>2, <2>3, <2>4 DEF BTypeOK
<1>4. SoonAgain'
  BY <1>0, <1>1 DEF SoonAgain
<1>5. ASSUME NEW s \in Moments, NEW t \in Moments
      PROVE  Made(s, t)' = Made(s, t) + (IF now < t THEN 1 ELSE 0) - (IF now < s THEN 1 ELSE 0)
  <2>1. /\ attempts[s] \in Int /\ attempts[t] \in Int /\ forgiven[s] \in Int /\ forgiven[t] \in Int
        /\ attempts'[s] = (IF now < s THEN attempts[s] + 1 ELSE attempts[s])
        /\ attempts'[t] = (IF now < t THEN attempts[t] + 1 ELSE attempts[t])
        /\ forgiven'[s] = forgiven[s] /\ forgiven'[t] = forgiven[t]
    BY <1>0
  <2> QED
    BY <2>1 DEF Made
<1>i. \A s, t \in Moments : Made(s, t) \in Int /\ (s <= t => Made(s, t) >= 0)
  BY SinceIs DEF AttemptsInv, BudgetSound, Histories
<1>6. Histories'
  <2>1. \A s, t \in Moments : s <= t => Made(s, t)' >= 0
    <3> TAKE s, t \in Moments
    <3>1. s \in Int /\ t \in Int
      BY <1>0 DEF Moments
    <3>2. Made(s, t)' = Made(s, t) + (IF now < t THEN 1 ELSE 0) - (IF now < s THEN 1 ELSE 0)
      BY <1>5
    <3>3. Made(s, t) \in Int /\ (s <= t => Made(s, t) >= 0)
      BY <1>i
    <3>4. s <= t /\ now < s => now < t
      BY <3>1, <1>0
    <3> QED
      BY <3>2, <3>3, <3>4
  <2>2. \A t \in Moments : now < t => attempts'[t] = attempts'[now + 1] /\ forgiven'[t] = forgiven'[now + 1]
    BY <1>0 DEF AttemptsInv, Histories
  <2> QED
    BY <2>1, <2>2, <1>0 DEF Histories
<1>7. \A t \in 0..now : Since(t)' = Since(t) + 1
  <2> TAKE t \in 0..now
  <2>1. t \in Moments /\ ~(now < t) /\ now < now + 1
    BY <1>0
  <2> QED
    BY <2>1, <1>0, <1>5, <1>i DEF Since
<1>8. NoneAfter'
  <2>1. \A t \in 0..now : ~(deadline' <= t)
    BY <1>0, <1>1
  <2> QED
    BY <2>1 DEF NoneAfter
<1>9. \A t \in 0..now : LET given == Since(t)' + bucket' - Capacity
                        IN  given > 0 => deadline' > t + Refill * given
  <2>1. \A t \in 0..now : Since(t)' + bucket' - Capacity = Since(t) + Refilled.bucket - Capacity
    BY <1>0, <1>1, <1>7
  <2> QED
    BY <2>1, <1>1
<1>10. Spaced'
  BY <1>9 DEF Spaced
<1>11. CappedBetween'
  <2> SUFFICES ASSUME NEW from \in 0..now, NEW k \in 0..(MaxTime \div Refill)
               PROVE  Made(from, PeriodsEnd(from, k))' <= Capacity + k
    BY DEF CappedBetween, PeriodsEnd
  <2> DEFINE end == PeriodsEnd(from, k)
  <2>1. /\ k \in Nat /\ from \in Moments /\ from \in Nat /\ from <= now /\ end \in Moments /\ from <= end
        /\ end = IF from + Refill * k < MaxTime + 1 THEN from + Refill * k ELSE MaxTime + 1
    <3>1. k \in Nat /\ from \in Moments
      BY <1>0, CapPeriods
    <3>2. from \in Nat /\ from <= now
      BY <1>0
    <3> QED
      BY <3>1, <3>2, PeriodsEndIs
  <2>2. end \in Int /\ Refill * k \in Int
    <3>1. end \in Int
      <4> HIDE DEF end
      <4> QED
        BY <2>1, <1>0 DEF Moments
    <3> QED
      BY <3>1, <2>1, OneRefill
  <2>3. CASE ~(now < end)
    <3>1. Made(from, end) <= Capacity + k
      BY DEF AttemptsInv, BudgetSound, CappedBetween
    <3>2. ~(now < from)
      BY <2>1, <1>0
    <3> HIDE DEF end
    <3>3. Made(from, end)' = Made(from, end) + 0 - 0
      BY <1>5, <2>1, <2>3, <3>2
    <3>4. Made(from, end)' = Made(from, end)
      BY <3>3, <2>1, <1>i
    <3> QED
      BY <3>1, <3>4 DEF end
  <2>4. CASE now < end
    <3>1. Made(from, end)' = Since(from)'
      <4> HIDE DEF end
      <4>1. attempts[end] = attempts[now + 1] /\ forgiven[end] = forgiven[now + 1]
        BY <2>1, <2>4 DEF AttemptsInv, Histories
      <4>2. Made(from, end) = Since(from)
        BY <4>1 DEF Made, Since
      <4>3. ~(now < from)
        BY <2>1, <1>0
      <4>4. Made(from, end)' = Made(from, end) + 1 - 0
        BY <1>5, <2>1, <2>4, <4>3
      <4> QED
        BY <4>2, <4>4, <1>7, <1>0
    <3> DEFINE given == Since(from)' + bucket' - Capacity
    <3>2. Since(from)' \in Nat /\ given \in Int
      BY <1>7, <1>0, <1>2
    <3>3. now < from + Refill * k
      <4> HIDE DEF end
      <4> QED
        BY <2>1, <2>2, <2>4, <1>0
    <3>4. ASSUME given > k PROVE FALSE
      <4>1. deadline' > from + Refill * given
        BY <1>9, <3>4, <2>1, <3>2
      <4>2. Refill * (k + 1) <= Refill * given
        <5> HIDE DEF given
        <5> QED
          BY <3>2, <3>4, <2>1, MoreRefills
      <4>3. Refill * (k + 1) = Refill * k + Refill
        BY <2>1, RefillsAdd, OneRefill
      <4> DEFINE reached == Refill * given
                 before == Refill * k
      <4>4. reached \in Int /\ before \in Int /\ before + Refill <= reached /\ deadline' > from + reached
            /\ now < from + before
        BY <3>2, <3>3, <4>1, <4>2, <4>3, <2>1, OneRefill
      <4> HIDE DEF reached, before
      <4> QED
        BY <4>4, <1>0, <1>1, <2>1
    <3>5. Since(from)' <= Capacity + k
      BY <3>2, <3>4, <1>0, <1>2, <2>1
    <3> QED
      BY <3>1, <3>5
  <2> QED
    BY <2>3, <2>4
<1> QED
  BY <1>3, <1>4, <1>6, <1>8, <1>10, <1>11 DEF AttemptsInv, BudgetSound

\* Without a token, an attempt is a look.
LEMMA ConsumeKeepsBudget ==
  ASSUME AttemptsInv, Consume PROVE AttemptsInv'
<1>1. CASE Refilled.bucket > 0 /\ bucket' = Refilled.bucket - 1
  <2>1. since' \in {now, NotConnected}
    BY <1>1, RefilledIs DEF Consume
  <2>2. attempts' = [t \in Moments |-> IF now < t THEN attempts[t] + 1 ELSE attempts[t]]
    BY <1>1, RefilledIs DEF Consume
  <2> QED
    BY <1>1, <2>1, <2>2, AttemptKeepsBudget DEF Consume
<1>2. CASE Refilled.bucket = 0 /\ bucket' = 0 /\ UNCHANGED <<attempts, since>>
  <2>1. Look
    BY <1>2 DEF Look, Consume
  <2> QED
    BY <2>1, LookKeepsBudget
<1> QED
  BY <1>1, <1>2 DEF Consume

\* A stable connection forgives what was attempted before it ended.
LEMMA DisconnectKeepsBudget ==
  ASSUME AttemptsInv, DisconnectControl PROVE AttemptsInv'
<1>0. /\ {Capacity, Refill, Stable, MaxTime} \subseteq Nat /\ Refill > 0
      /\ now \in Nat /\ now <= MaxTime /\ now + 1 \in Moments /\ 0..now \subseteq Moments
      /\ bucket \in 0..Capacity /\ deadline \in 0..MaxTime + Refill
      /\ attempts \in [Moments -> Nat] /\ forgiven \in [Moments -> Nat]
  BY BudgetNumbers
<1>1. now' = now /\ attempts' = attempts /\ since' = NotConnected
  BY DEF DisconnectControl
<1>2. since' \in 0..NotConnected
  BY <1>0, <1>1 DEF NotConnected
<1>3. CASE now - since >= Stable
  <2>1. bucket' = Capacity /\ deadline' = now + Refill /\ forgiven' = attempts
    BY <1>3 DEF DisconnectControl
  <2>2. BTypeOK'
    BY <1>0, <1>1, <1>2, <2>1 DEF BTypeOK
  <2>3. SoonAgain'
    BY <1>0, <1>1, <2>1 DEF SoonAgain
  <2>4. \A s, t \in Moments : Made(s, t)' = 0
    <3> TAKE s, t \in Moments
    <3>1. attempts[s] \in Int /\ attempts[t] \in Int
      BY <1>0
    <3> QED
      BY <3>1, <1>1, <2>1 DEF Made
  <2>5. Histories'
    BY <1>0, <1>1, <2>1, <2>4 DEF Histories, AttemptsInv
  <2>6. \A t \in 0..now : Since(t)' = 0
    BY <1>0, <1>1, <2>4 DEF Since
  <2>7. CappedBetween'
    <3> SUFFICES ASSUME NEW from \in 0..now, NEW k \in 0..(MaxTime \div Refill)
                 PROVE  Made(from, PeriodsEnd(from, k))' <= Capacity + k
      BY <1>1 DEF CappedBetween, PeriodsEnd
    <3>1. from \in Moments /\ k \in Nat /\ PeriodsEnd(from, k) \in Moments
      BY <1>0, CapPeriods, PeriodsEndIs
    <3>2. Made(from, PeriodsEnd(from, k))' = 0
      BY <3>1, <2>4
    <3> QED
      BY <3>1, <3>2, <1>0
  <2>8. NoneAfter'
    BY <1>1, <2>6 DEF NoneAfter
  <2>9. Spaced'
    BY <1>0, <1>1, <2>1, <2>6 DEF Spaced
  <2> QED
    BY <2>2, <2>3, <2>5, <2>7, <2>8, <2>9 DEF AttemptsInv, BudgetSound
<1>4. CASE ~(now - since >= Stable)
  <2>1. bucket' = bucket /\ deadline' = deadline /\ forgiven' = forgiven
    BY <1>4 DEF DisconnectControl
  <2>2. BTypeOK'
    BY <1>0, <1>1, <1>2, <2>1 DEF BTypeOK
  <2> QED
    BY <1>1, <2>1, <2>2
    DEF AttemptsInv, BudgetSound, SoonAgain, CappedBetween, Histories, NoneAfter, Spaced, Made, Since
<1> QED
  BY <1>3, <1>4

\* Time passes: nothing has been attempted in the time that begins.
LEMMA TickKeepsBudget ==
  ASSUME AttemptsInv, Tick PROVE AttemptsInv'
<1>0. /\ {Capacity, Refill, Stable, MaxTime} \subseteq Nat /\ Refill > 0
      /\ now \in Nat /\ now <= MaxTime /\ now + 1 \in Moments /\ 0..now \subseteq Moments
      /\ bucket \in 0..Capacity /\ deadline \in 0..MaxTime + Refill
      /\ attempts \in [Moments -> Nat] /\ forgiven \in [Moments -> Nat]
      /\ \A t \in 0..now : Since(t) \in Nat
  BY BudgetNumbers
<1>1. /\ now < MaxTime /\ now' = now + 1 /\ bucket' = bucket /\ deadline' = deadline /\ since' = since
      /\ attempts' = attempts /\ forgiven' = forgiven
  BY DEF Tick
<1>2. /\ now' \in Nat /\ now' + 1 \in Moments /\ 0..now' \subseteq Moments /\ 0..now' = (0..now) \cup {now'}
  BY <1>0, <1>1 DEF Moments
<1>3. BTypeOK'
  BY <1>0, <1>1 DEF BTypeOK, AttemptsInv, BudgetSound
<1>4. SoonAgain'
  BY <1>0, <1>1 DEF SoonAgain, AttemptsInv, BudgetSound
<1>5. \A s, t : Made(s, t)' = Made(s, t)
  BY <1>1 DEF Made
<1>6. \A t \in Moments : now < t => attempts[t] = attempts[now + 1] /\ forgiven[t] = forgiven[now + 1]
  BY DEF AttemptsInv, Histories
<1>7. Histories'
  <2>1. \A t \in Moments : now' < t => now < t
    BY <1>0, <1>1 DEF Moments
  <2>2. now < now' /\ now < now' + 1 /\ now' \in Moments
    BY <1>0, <1>1, <1>2
  <2>3. \A t \in Moments : now' < t => attempts'[t] = attempts'[now' + 1] /\ forgiven'[t] = forgiven'[now' + 1]
    BY <1>1, <1>2, <1>6, <2>1, <2>2
  <2> QED
    BY <1>1, <1>5, <2>3 DEF AttemptsInv, Histories
<1>8. ASSUME NEW s \in Moments, NEW t \in Moments, now < s, now < t PROVE Made(s, t) = 0
  <2>1. attempts[s] = attempts[now + 1] /\ attempts[t] = attempts[now + 1]
        /\ forgiven[s] = forgiven[now + 1] /\ forgiven[t] = forgiven[now + 1]
        /\ attempts[now + 1] \in Int /\ forgiven[now + 1] \in Int
    BY <1>0, <1>6, <1>8
  <2> QED
    BY <2>1 DEF Made
<1>9. \A t \in 0..now : Since(t)' = Since(t)
  <2>1. attempts[now' + 1] = attempts[now + 1] /\ forgiven[now' + 1] = forgiven[now + 1]
    <3>1. now < now' + 1
      BY <1>0, <1>1
    <3> QED
      BY <3>1, <1>2, <1>6
  <2> QED
    BY <2>1, <1>1 DEF Since, Made
<1>10. ASSUME NEW t, t = now + 1 PROVE Since(t)' = 0
  <2>1. t \in Moments /\ now' + 1 \in Moments /\ now < t /\ now < now' + 1
    BY <1>0, <1>1, <1>2, <1>10
  <2>2. Made(t, now' + 1) = 0
    BY <2>1, <1>8
  <2> QED
    BY <2>2, <1>1 DEF Since, Made
<1>11. CappedBetween'
  <2> SUFFICES ASSUME NEW from \in 0..now', NEW k \in 0..(MaxTime \div Refill)
               PROVE  Made(from, PeriodsEnd(from, k)) <= Capacity + k
    BY <1>5 DEF CappedBetween
  <2>1. CASE from \in 0..now
    BY <2>1 DEF AttemptsInv, BudgetSound, CappedBetween
  <2>2. CASE from = now'
    <3>1. k \in Nat /\ from \in Moments /\ now < from
      BY <2>2, <1>0, <1>1, <1>2, CapPeriods
    <3>2. PeriodsEnd(from, k) \in Moments /\ from <= PeriodsEnd(from, k)
      BY <3>1, PeriodsEndIs
    <3>3. now < PeriodsEnd(from, k)
      BY <3>1, <3>2, <1>0 DEF Moments
    <3>4. Made(from, PeriodsEnd(from, k)) = 0
      BY <3>1, <3>2, <3>3, <1>8
    <3> QED
      BY <3>1, <3>4, <1>0
  <2> QED
    BY <2>1, <2>2, <1>2
<1>12. NoneAfter'
  <2> SUFFICES ASSUME NEW t \in 0..now', deadline <= t PROVE Since(t)' = 0
    BY <1>1 DEF NoneAfter
  <2>1. CASE t \in 0..now
    BY <2>1, <1>9 DEF AttemptsInv, NoneAfter
  <2> QED
    BY <2>1, <1>1, <1>2, <1>10
<1>13. Spaced'
  <2> SUFFICES ASSUME NEW t \in 0..now', Since(t)' + bucket - Capacity > 0
               PROVE  deadline > t + Refill * (Since(t)' + bucket - Capacity)
    BY <1>1 DEF Spaced
  <2>1. CASE t \in 0..now
    BY <2>1, <1>9 DEF AttemptsInv, Spaced
  <2>2. CASE t = now'
    <3>1. Since(t)' = 0
      BY <2>2, <1>1, <1>10
    <3> QED
      BY <3>1, <1>0
  <2> QED
    BY <2>1, <2>2, <1>2
<1> QED
  BY <1>3, <1>4, <1>7, <1>11, <1>12, <1>13 DEF AttemptsInv, BudgetSound

LEMMA AttemptsAlways == BudgetSpec => []AttemptsInv
<1>1. ASSUME AttemptsInv, [BudgetNext]_budget_vars PROVE AttemptsInv'
  <2>1. CASE UNCHANGED budget_vars
    BY <1>1, <2>1
    DEF budget_vars, AttemptsInv, BudgetSound, BTypeOK, SoonAgain, CappedBetween, Histories, NoneAfter, Spaced,
        Made, Since
  <2> QED
    BY <1>1, <2>1, LookKeepsBudget, ConsumeKeepsBudget, DisconnectKeepsBudget, TickKeepsBudget DEF BudgetNext
<1> QED
  BY <1>1, AttemptsInitially, PTL DEF BudgetSpec

\* BudgetSound: for any capacity, refill and time that makes a connection
\* stable, whenever the bucket is looked at: no number of periods has more attempts
\* than the capacity and one for each of them unless a stable connection ended, and
\* the next token is never more than one refill away.
THEOREM BudgetIsSound == BudgetSpec => []BudgetSound
<1>1. AttemptsInv => BudgetSound
  BY DEF AttemptsInv
<1> QED
  BY <1>1, AttemptsAlways, PTL

=============================================================================
