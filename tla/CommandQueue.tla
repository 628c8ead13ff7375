---------------------------- MODULE CommandQueue ----------------------------
(***************************************************************************)
(* The queue of received player commands of one connection, as in          *)
(* server/src/socket/server.c: frames are appended as they arrive, CLEAR   *)
(* overtakes them and tombstones the replaceable ones through an index of  *)
(* offsets, compaction removes the tombstones, and each pass of the server *)
(* executes a bounded number of commands from the front.                   *)
(*                                                                         *)
(* A frame is its number, type byte, movement epoch and length; offsets    *)
(* are kept in bytes as in the code, with sizes scaled down.  The cursor   *)
(* entries_start of an index is a representation detail: pruned entries    *)
(* are dropped from the sequence.                                          *)
(***************************************************************************)
EXTENDS Naturals, Sequences

CONSTANTS
    MaxSent,      \* commands a client sends; a bound of the model
    Batch,        \* frames that wait to be dispatched; a bound of the model
    Epochs,       \* movement epochs, without 0
    QueueMax,     \* SOCKET_COMMAND_QUEUE_MAX
    CompactMin,   \* SOCKET_COMMAND_QUEUE_COMPACT_MIN
    PassMax       \* SOCKET_SERVER_PLAYER_MAX_COMMANDS

ASSUME EpochsAssumption == 0 \notin Epochs /\ Epochs \subseteq Nat
ASSUME LimitsAssumption == {MaxSent, Batch, QueueMax, CompactMin, PassMax} \subseteq Nat \ {0}

StorageMax == 2 * QueueMax       \* SOCKET_COMMAND_QUEUE_STORAGE_MAX

\* Lengths of frames, scaled down: a MOVE is shorter than a FIRE.
SizeOf(type) == IF type = "FIRE" THEN 3 ELSE 2

Streams  == {"MOVE", "FIRE"}
Playing  == [type : Streams, epoch : Epochs \cup {0}] \cup [type : {"OTHER"}, epoch : {0}]
Clears   == [type : {"CLEAR"}, command : Streams, epoch : Epochs \cup {0}]
Commands == Playing \cup Clears \cup {[type |-> "CLEARALL"]}

VARIABLES
    state,      \* cs->state
    recv,       \* the complete frames in packet_recv
    sent,       \* number of commands sent so far
    q,          \* the frames of packet_recv_cmd
    base,       \* packet_recv_cmd_base
    epoch,      \* movement_stream_epoch
    idx,        \* the offsets of movement_stream_move and movement_stream_fire
    tomb,       \* movement_stream_tombstone_bytes
    pass,       \* commands executed in this pass, or None between passes
    executed,   \* history: number of the last command executed
    ended       \* history: why the connection is no longer served

socket  == <<state, recv, sent>>
queue == <<q, base, epoch, idx, tomb>>
vars  == <<state, recv, sent, q, base, epoch, idx, tomb, pass, executed, ended>>

Between == PassMax + 1           \* no pass is under way

NoIndex == [c \in Streams |-> <<>>]

Init ==
    /\ state = "PLAYING" /\ recv = <<>> /\ sent = 0
    /\ q = <<>> /\ base = 0 /\ epoch = 0 /\ idx = NoIndex /\ tomb = 0
    /\ pass = Between /\ executed = 0 /\ ended = "no"

-----------------------------------------------------------------------------
(* Helpers on the frames of a queue. *)

Bytes(frames) ==
    LET sum[i \in 0..Len(frames)] == IF i = 0 THEN 0 ELSE sum[i - 1] + frames[i].size
    IN  sum[Len(frames)]
Before(frames, i) == SubSeq(frames, 1, i - 1)
Offset(frames, i) == base + Bytes(Before(frames, i))
IsLive(f) == f.type # "TOMBSTONE"
At(o) == {i \in DOMAIN q : Offset(q, i) = o}

\* socket_server_command_queue_prune_index()
Pruned(entries, b) == SelectSeq(entries, LAMBDA o : o >= b)
PrunedAll(ix, b) == [c \in Streams |-> Pruned(ix[c], b)]

\* What socket_server_command_queue_compact() verifies before it changes
\* anything: the index points, in order, at frames of its type, and the
\* tombstones add up.
Consistent ==
    LET ix == PrunedAll(idx, base)
    IN  /\ \A c \in Streams :
              /\ \A k \in DOMAIN ix[c] : \E i \in At(ix[c][k]) : q[i].type = c
              /\ \A k, l \in DOMAIN ix[c] : k < l => ix[c][k] < ix[c][l]
        /\ tomb = Bytes(SelectSeq(q, LAMBDA f : ~IsLive(f)))

\* Mistake: the index keeps the old offsets.
Moved_Keep(o) == o

\* The offset of a frame once the tombstones before it are gone.
Moved(o) ==
    LET i == CHOOSE i \in At(o) : TRUE
    IN  base + Bytes(SelectSeq(Before(q, i), IsLive))

Compacted == [q    |-> SelectSeq(q, IsLive),
              idx  |-> [c \in Streams |->
                          LET e == Pruned(idx[c], base) IN [k \in DOMAIN e |-> Moved(e[k])]],
              tomb |-> 0]

\* socket_server_command_queue_reset()
Reset == q' = <<>> /\ base' = 0 /\ epoch' = 0 /\ idx' = NoIndex /\ tomb' = 0

-----------------------------------------------------------------------------
(* Appending. *)

TooMuch(size) == tomb > Bytes(q) \/ size > QueueMax \/ Bytes(q) - tomb > QueueMax - size

NeedsCompaction(size) == tomb >= CompactMin \/ Bytes(q) > StorageMax - size

\* Mistake: the index of the old epoch is kept.
Indexed_Keep(ix, b, e) == PrunedAll(ix, b)

\* The index before a command of epoch e is added to it.
Indexed(ix, b, e) == IF e # epoch THEN NoIndex ELSE PrunedAll(ix, b)

\* socket_server_command_queue_append() when the frame is accepted.
AppendFrame(n, cmd) ==
    LET f      == [n |-> n, type |-> cmd.type, epoch |-> cmd.epoch, size |-> SizeOf(cmd.type)]
        empty  == q = <<>>
        now    == IF ~empty /\ tomb # 0 /\ NeedsCompaction(f.size) THEN Compacted
                  ELSE IF empty THEN [q |-> <<>>, idx |-> NoIndex, tomb |-> 0]
                  ELSE [q |-> q, idx |-> idx, tomb |-> tomb]
        b      == IF empty THEN 0 ELSE base
        ix     == IF cmd.epoch = 0 THEN now.idx
                  ELSE [Indexed(now.idx, b, cmd.epoch) EXCEPT ![cmd.type] = Append(@, b + Bytes(now.q))]
    IN  /\ q' = Append(now.q, f) /\ tomb' = now.tomb /\ base' = b
        /\ idx' = ix
        /\ epoch' = IF cmd.epoch # 0 THEN cmd.epoch ELSE IF empty THEN 0 ELSE epoch

\* A command that does not fit ends the connection.
Dispatch_Playing(n, cmd) ==
    \/ /\ ~TooMuch(SizeOf(cmd.type)) /\ (tomb # 0 /\ NeedsCompaction(SizeOf(cmd.type)) => Consistent)
       /\ AppendFrame(n, cmd)
       /\ UNCHANGED <<state, ended>>
    \/ /\ TooMuch(SizeOf(cmd.type)) \/ (tomb # 0 /\ NeedsCompaction(SizeOf(cmd.type)) /\ ~Consistent)
       /\ state' = "DEAD" /\ ended' = "full"
       /\ UNCHANGED queue

-----------------------------------------------------------------------------
(* CLEAR *)

\* The entries a scoped CLEAR finds, if they all are what they should be.
Entries(c) == Pruned(idx[c], base)
Clearable(c) == \A k \in DOMAIN Entries(c) : \E i \in At(Entries(c)[k]) : q[i].type = c

TombBytes(c) == Len(Entries(c)) * SizeOf(c)

Cancels(c, i) == \E k \in DOMAIN Entries(c) : Entries(c)[k] = Offset(q, i)

\* socket_server_command_queue_clear_stream()
ClearStream(c, e) ==
    IF e = 0 \/ e # epoch \/ ~Clearable(c) THEN UNCHANGED queue
    ELSE /\ q' = [i \in DOMAIN q |-> IF Cancels(c, i) THEN [q[i] EXCEPT !.type = "TOMBSTONE"] ELSE q[i]]
         /\ tomb' = tomb + TombBytes(c)
         /\ idx' = [idx EXCEPT ![c] = <<>>]
         /\ UNCHANGED <<base, epoch>>

-----------------------------------------------------------------------------
(* The transport: one complete frame after the other. *)

Open == state = "PLAYING" /\ pass = Between

\* socket_read() brings complete frames, at most Batch of them before they
\* are dispatched.
Receive(cmd) ==
    /\ Open /\ Len(recv) < Batch /\ sent < MaxSent
    /\ recv' = Append(recv, [n |-> sent + 1, cmd |-> cmd])
    /\ sent' = sent + 1
    /\ UNCHANGED <<state, queue, pass, executed, ended>>

\* socket_server_process_received() with a session that is valid; while the
\* check is busy the frame stays where it is.
Dispatch ==
    /\ Open /\ recv # <<>>
    /\ LET n   == Head(recv).n
           cmd == Head(recv).cmd
       IN  \/ cmd.type \in {"MOVE", "FIRE", "OTHER"} /\ Dispatch_Playing(n, cmd)
           \/ cmd.type = "CLEAR" /\ ClearStream(cmd.command, cmd.epoch) /\ UNCHANGED <<state, ended>>
           \/ cmd.type = "CLEARALL" /\ Reset /\ UNCHANGED <<state, ended>>
    /\ recv' = IF state' = "DEAD" THEN recv ELSE Tail(recv)
    /\ UNCHANGED <<sent, pass, executed>>

\* The session is denied, or the transport fails.
Denied ==
    /\ state = "PLAYING"
    /\ state' = "DEAD" /\ ended' = "left"
    /\ UNCHANGED <<recv, sent, queue, pass, executed>>

-----------------------------------------------------------------------------
(* socket_server_handle_client() *)

PassStart ==
    /\ Open /\ q # <<>>
    /\ pass' = 0
    /\ IF tomb = 0 THEN UNCHANGED queue
       ELSE IF Consistent
       THEN q' = Compacted.q /\ idx' = Compacted.idx /\ tomb' = 0 /\ UNCHANGED <<base, epoch>>
       ELSE Reset
    /\ UNCHANGED <<socket, executed, ended>>

\* Mistake: the frame stays in the queue.
PassExecutes_Stays ==
    /\ state = "PLAYING" /\ pass < PassMax /\ q # <<>>
    /\ pass' = pass + 1
    /\ executed' = Head(q).n
    /\ UNCHANGED <<socket, queue, ended>>

\* The command at the front is executed, and what it leads to leaves the
\* queue alone.
PassExecutes ==
    /\ state = "PLAYING" /\ pass < PassMax /\ q # <<>>
    /\ pass' = pass + 1
    /\ executed' = Head(q).n
    /\ q' = Tail(q) /\ base' = base + Head(q).size
    /\ idx' = PrunedAll(idx, base')
    /\ UNCHANGED <<socket, epoch, tomb, ended>>

\* A guard stops the player, which resets the queue under the loop; then
\* packet_delete() finds nothing to delete, but the base moves on.
PassArrest ==
    /\ state = "PLAYING" /\ pass < PassMax /\ q # <<>>
    /\ pass' = pass + 1
    /\ executed' = Head(q).n
    /\ q' = <<>> /\ epoch' = 0 /\ idx' = NoIndex /\ tomb' = 0
    /\ base' = Head(q).size
    /\ UNCHANGED <<socket, ended>>

\* A guard stops the player on its own move.
Arrest == Open /\ q # <<>> /\ Reset /\ UNCHANGED <<socket, pass, executed, ended>>

\* The command logs the player out.
PassLogout ==
    /\ state = "PLAYING" /\ pass < PassMax /\ q # <<>>
    /\ executed' = Head(q).n
    /\ state' = "DEAD" /\ ended' = "left" /\ pass' = Between
    /\ UNCHANGED <<recv, sent, queue>>

\* The pass ends: nothing is left, the limit is reached, the player has no
\* speed left, or the session is busy or no longer valid.
PassEnd ==
    /\ pass # Between
    /\ pass' = Between
    /\ UNCHANGED <<socket, queue, executed, ended>>

Finished ==
    /\ pass = Between
    /\ state = "DEAD" \/ (sent = MaxSent /\ recv = <<>> /\ q = <<>>)
    /\ UNCHANGED vars

-----------------------------------------------------------------------------
Next ==
    \/ \E c \in Commands : Receive(c)
    \/ Dispatch \/ Denied
    \/ PassStart \/ PassExecutes \/ PassArrest \/ PassLogout \/ PassEnd \/ Arrest
    \/ Finished

Spec == Init /\ [][Next]_vars

\* The server keeps reading and making passes, and the player has speed and a
\* valid session again and again.
Fairness == /\ WF_vars(Dispatch) /\ SF_vars(PassStart) /\ WF_vars(PassEnd)
            /\ SF_vars(PassExecutes \/ PassArrest \/ PassLogout)

FairSpec == Spec /\ Fairness

-----------------------------------------------------------------------------
(* Properties. *)

Frame == [n : 1..MaxSent, type : Streams \cup {"OTHER", "TOMBSTONE"}, epoch : Epochs \cup {0}, size : 2..3]

CQTypeOK ==
    /\ state \in {"PLAYING", "DEAD"}
    /\ sent \in 0..MaxSent /\ executed \in 0..MaxSent
    /\ q \in Seq(Frame)
    /\ base \in Nat /\ tomb \in Nat /\ epoch \in Epochs \cup {0}
    /\ \A c \in Streams : idx[c] \in Seq(Nat)
    /\ pass \in 0..(PassMax + 1)
    /\ ended \in {"no", "full", "left"}

\* The server never has to discard "an inconsistent buffered player-command
\* queue" or refuse a CLEAR: offsets, types and counted bytes always agree.
NeverInconsistent == Consistent /\ \A c \in Streams : Clearable(c)

\* Memory is bounded: the wanted commands stay within the limit, and the
\* cancelled ones add less than the threshold for compaction, so that the
\* storage limit of the writer is never what ends a connection.
Bounded ==
    /\ Bytes(SelectSeq(q, IsLive)) <= QueueMax
    /\ Bytes(q) < QueueMax + CompactMin
    /\ Bytes(q) <= StorageMax

\* While a pass is under way there are no tombstones: none is ever dispatched
\* as a command of unknown type.
NoTombstoneExecuted == pass # Between => tomb = 0 /\ \A i \in DOMAIN q : IsLive(q[i])

\* Offsets, tombstones and counted bytes agree whatever was cancelled, compacted
\* or reset, within the limits.
QueueSound == CQTypeOK /\ NeverInconsistent /\ Bounded /\ NoTombstoneExecuted

\* The abstract queue: the live frames, with those in the index current.
LiveAt == SelectSeq([i \in DOMAIN q |-> i], LAMBDA i : IsLive(q[i]))
Waiting ==
    LET live == LiveAt IN
    [k \in DOMAIN live |->
        LET f == q[live[k]]
        IN  [n |-> f.n, type |-> f.type,
             current |-> f.type \in Streams
                         /\ \E j \in DOMAIN idx[f.type] : idx[f.type][j] = Offset(q, live[k])]]

Stream == INSTANCE CommandStream
    WITH Limit <- QueueMax, Size <- SizeOf, Numbers <- 1..MaxSent,
         Runs <- Epochs \cup {0}, waiting <- Waiting, run <- epoch

\* Tombstones, offsets, compaction and resets together implement the queue
\* the protocol describes.
ImplementsStream == Stream!Spec

\* Every accepted command is executed, cancelled or dropped with the rest.
CommandsEnd ==
    \A n \in 1..MaxSent : (\E i \in DOMAIN q : q[i].n = n) ~>
                          (state = "DEAD" \/ ~\E i \in DOMAIN q : q[i].n = n)

=============================================================================
