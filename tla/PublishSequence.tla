--------------------------- MODULE PublishSequence ---------------------------
(***************************************************************************)
(* The publish sequence of a server identity, as in                        *)
(* libatrinik/metaserver_publisher_sequence.c: the highest number reserved *)
(* is kept in two files that take turns, so that a new number is on disk   *)
(* before the old one is removed.  An operation is one step per system     *)
(* call that changes the directory; the process may end between two of     *)
(* them, and a power failure keeps any of the entries since the last sync. *)
(***************************************************************************)
EXTENDS Naturals, FiniteSetsExt

CONSTANT MaxSeq     \* UINT64_MAX, where the space is exhausted

ASSUME MaxSeqAssumption == MaxSeq \in Nat \ {0}

Slots == {0, 1}
Absent == 0         \* numbers start at 1
Idle == [step |-> "idle"]

VARIABLES
    slot,       \* the two files, as the process sees them
    may,        \* what a power failure may leave of each
    op,         \* the operation between two of its system calls
    last,       \* history: the number reserved last
    relied      \* history: an entry that was never synchronised stood for a reserved number

sequence_vars == <<slot, may, op, last, relied>>

SequenceInit ==
    /\ slot = [i \in Slots |-> Absent] /\ may = [i \in Slots |-> {Absent}]
    /\ op = Idle /\ last = 0 /\ relied = FALSE

-----------------------------------------------------------------------------
Highwater == IF slot[0] < slot[1] THEN slot[1] ELSE slot[0]

\* metaserver_publish_sequence_read() accepts the files.
Readable == slot[0] = slot[1] => slot[0] = Absent

Replace(i, v) ==
    /\ slot' = [slot EXCEPT ![i] = v]
    /\ may' = [may EXCEPT ![i] = @ \cup {v}]

\* Mistake: the higher file is the one that is replaced.
Target_Higher == IF slot[0] = Absent THEN 0 ELSE IF slot[1] = Absent THEN 1 ELSE IF slot[0] < slot[1] THEN 1 ELSE 0

\* The file that is written: one that is not there, else the lower one.
Target == IF slot[0] = Absent THEN 0 ELSE IF slot[1] = Absent THEN 1 ELSE IF slot[0] < slot[1] THEN 0 ELSE 1

\* Nothing has to be written.
Reached(desired) == desired <= Highwater

Exhausted == Highwater = MaxSeq

Persist(kind, desired) ==
    /\ ~Reached(desired)
    /\ op' = [step   |-> IF slot[Target] = Absent THEN "create" ELSE "unlink",
              kind   |-> kind, desired |-> desired, target |-> Target]
    /\ UNCHANGED <<slot, may, last, relied>>

\* metaserver_publish_sequence_reserve()
Reserve ==
    /\ op = Idle /\ Readable /\ ~Exhausted
    /\ Persist("reserve", Highwater + 1)

\* metaserver_publish_sequence_recover() with what the metaserver asks for.
Recover(minimum) ==
    /\ op = Idle /\ Readable /\ ~Exhausted
    /\ Persist("recover", Max({Highwater, minimum - 1}))

\* The operation gives up; the files stay as they are.
Fail == op # Idle /\ op.step \in {"unlink", "create"} /\ op' = Idle /\ UNCHANGED <<slot, may, last, relied>>

Unlink ==
    /\ op.step = "unlink"
    /\ Replace(op.target, Absent)
    /\ op' = [op EXCEPT !.step = "create"]
    /\ relied' = (relied \/ may[1 - op.target] # {slot[1 - op.target]})
    /\ UNCHANGED last

\* path_secret_create_atomic() up to the link.
Create ==
    /\ op.step = "create"
    /\ Replace(op.target, op.desired)
    /\ op' = [op EXCEPT !.step = "sync"]
    /\ UNCHANGED <<last, relied>>

\* The directory is synchronised with both entries.
Synchronised == [i \in Slots |-> {slot[i]}]

\* The end of path_secret_create_atomic().  If it fails after the link the
\* files are read again, and what is found there counts.
Sync ==
    /\ op.step = "sync"
    /\ \/ may' = Synchronised /\ UNCHANGED relied
       \/ Readable /\ Highwater = op.desired /\ relied' = TRUE /\ UNCHANGED may
    /\ op' = [op EXCEPT !.step = "cleanup"]
    /\ UNCHANGED <<slot, last>>

\* The older file is removed, or stays if that fails.
Cleanup ==
    LET previous == 1 - op.target
    IN  /\ op.step = "cleanup"
        /\ \/ slot[previous] \in 1..op.desired - 1 /\ Replace(previous, Absent)
           \/ UNCHANGED <<slot, may>>
        /\ last' = IF op.kind = "reserve" THEN op.desired ELSE last
        /\ op' = Idle
        /\ UNCHANGED relied

-----------------------------------------------------------------------------
Crash == op # Idle /\ op' = Idle /\ UNCHANGED <<slot, may, last, relied>>

PowerFailure ==
    /\ \E left \in [Slots -> 0..MaxSeq] :
          /\ \A i \in Slots : left[i] \in may[i]
          /\ slot' = left /\ may' = [i \in Slots |-> {left[i]}]
    /\ op' = Idle
    /\ UNCHANGED <<last, relied>>

SequenceNext ==
    \/ Reserve \/ \E minimum \in 1..MaxSeq : Recover(minimum)
    \/ Fail \/ Unlink \/ Create \/ Sync \/ Cleanup
    \/ Crash \/ PowerFailure

SequenceSpec == SequenceInit /\ [][SequenceNext]_sequence_vars

-----------------------------------------------------------------------------
(* Properties. *)

Steps == {"unlink", "create", "sync", "cleanup"}

\* Types; what the process sees may also survive.
PSTypeOK ==
    /\ slot \in [Slots -> 0..MaxSeq]
    /\ may \in [Slots -> SUBSET (0..MaxSeq)]
    /\ \A i \in Slots : slot[i] \in may[i]
    /\ op = Idle \/ op \in [step : Steps, kind : {"reserve", "recover"}, desired : 1..MaxSeq, target : Slots]
    /\ last \in 0..MaxSeq /\ relied \in BOOLEAN

\* Neither crashes nor failing calls ever leave two files with one number,
\* which would stop publication for good (metaserver_publish_sequence_read).
Unambiguous == Readable /\ \A v \in may[0] \cap may[1] : v = Absent

\* Whatever a power failure leaves, the number reserved last is still known,
\* unless a file counted that was never synchronised: after a failing sync, or
\* after the process ended between the link and the sync.
ReservedIsDurable ==
    ~relied => \A v0 \in may[0], v1 \in may[1] : last <= v0 \/ last <= v1

\* The files say what was reserved, whatever fails, ends or loses power.
SequenceSound == PSTypeOK /\ Unambiguous /\ ReservedIsDurable

=============================================================================
