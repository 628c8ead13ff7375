--------------------------- MODULE AssetRequests ---------------------------
(***************************************************************************)
(* The asset requests of client/src/client/asset.c.  The main thread       *)
(* starts, shares, hands off and frees requests, the socket thread opens   *)
(* streams for them, one for a request or for a batch of faces, and drives *)
(* them.  The asset mutex is held for each step of the main thread and for *)
(* a whole pass of the socket thread ("open" and "serve").                 *)
(* Sizes and contents are left out: what is received is good or bad.       *)
(***************************************************************************)
EXTENDS Naturals, FiniteSets, SequencesExt

CONSTANTS
    Faces,      \* the paths of faces: these may be batched
    Generics,   \* the other paths
    ActiveMax,  \* ASSET_STREAM_ACTIVE_MAX
    BatchMax,   \* ASSET_FACE_BATCH_MAX
    PendingMax, \* ASSET_REQUEST_PENDING_MAX
    Users(_),   \* how many users may share the request of a path; a bound of the model
    None

Paths == Faces \cup Generics
Slots == 1..ActiveMax

ASSUME AssetAssumption ==
    /\ ActiveMax \in Nat \ {0} /\ BatchMax \in Nat \ {0} /\ PendingMax \in Nat \ {0}
    /\ Faces \cap Generics = {} /\ Paths \cap Slots = {}

\* asset_request_t and asset_batch_t
RequestType ==
    [refs : Nat, state : {"pending", "complete", "error", "preempted"},
     trans : {"queued", "send", "header", "body", "fin"}, stream : BOOLEAN, batch : Slots \cup {None},
     prio : BOOLEAN, isolated : BOOLEAN, preempt : BOOLEAN, cancelled : BOOLEAN, data : {"none", "good", "bad"}]
BatchType ==
    [members : Seq(Paths), current : Nat, trans : {"send", "header", "body", "fin"}, priority : BOOLEAN,
     preempt : BOOLEAN, final : BOOLEAN]

ASSUME NoneAssumption ==
    None \notin Paths /\ None \notin Slots /\ None \notin RequestType /\ None \notin BatchType

VARIABLES
    caps,   \* asset_transport_connected and _capabilities: "off", "none", "generic" or "batch"
    io,     \* the socket thread: "off", "idle" or in a pass
    todo,   \* the streams that are still to be served in this pass
    main,   \* the main thread: what it does with which path
    req,    \* asset_requests: the request of each path, or None
    order,  \* by sequence: the paths that have a request, the oldest first
    batch,  \* asset_batches: the batch of each slot, or None
    held    \* history: the users that hold a request

vars == <<caps, io, todo, main, req, order, batch, held>>

Idle == [pc |-> "idle", path |-> None, prio |-> FALSE]

Init ==
    /\ caps = "off" /\ io = "off" /\ todo = {} /\ main = Idle
    /\ req = [p \in Paths |-> None] /\ order = <<>> /\ batch = [b \in Slots |-> None]
    /\ held = [p \in Paths |-> 0]

-----------------------------------------------------------------------------
NewRequest(prio) ==
    [refs |-> 1, state |-> "pending", trans |-> "queued", stream |-> FALSE, batch |-> None,
     prio |-> prio, isolated |-> FALSE, preempt |-> FALSE, cancelled |-> FALSE, data |-> "none"]

Exists(p) == req[p] # None
Pending == {p \in Paths : Exists(p) /\ req[p].state = "pending" /\ ~req[p].cancelled}
Streams == {p \in Paths : Exists(p) /\ req[p].stream}
Batches == {b \in Slots : batch[b] # None}
Remaining(b) == {batch[b].members[i] : i \in batch[b].current..Len(batch[b].members)}

\* asset_active_stream_count()
Active == Cardinality(Streams) + Cardinality(Batches)

\* asset_request_is_queued()
Queued == {p \in Pending : req[p].trans = "queued" /\ ~req[p].stream /\ req[p].batch = None}

\* The paths of a set, by sequence.
Older(S) ==
    LET places  == {i \in DOMAIN order : order[i] \in S}
        rank(i) == Cardinality({j \in places : j <= i})
    IN  [k \in 1..Cardinality(places) |-> order[CHOOSE i \in places : rank(i) = k]]

Before(p, q) == \E i, j \in DOMAIN order : i < j /\ order[i] = p /\ order[j] = q

\* What is visible may jump other faces but no generic request that is older.
Preferred(generic, visible) ==
    IF generic # {} /\ Before(Older(generic)[1], Older(visible)[1]) THEN generic ELSE visible

\* asset_request_oldest_queued()
OldestQueued ==
    LET queued  == Queued
        visible == {p \in queued : req[p].prio}
    IN  IF visible = {} THEN Older(queued)[1]
        ELSE Older(Preferred(queued \cap Generics, visible))[1]

\* Whether no generic request is queued before it.
BelowBarrier(queued, p) == \A g \in queued \cap Generics : Before(p, g)

\* The faces that are batched with the first one.
BatchOf(first) ==
    IF req[first].isolated THEN <<first>>
    ELSE LET queued == Queued
             s == Older({p \in queued \cap Faces : /\ req[p].prio = req[first].prio
                                                   /\ ~req[p].isolated
                                                   /\ BelowBarrier(queued, p)})
         IN  SubSeq(s, 1, IF Len(s) < BatchMax THEN Len(s) ELSE BatchMax)

\* A request that has ended; what it was sent by is not used again.
Ended(r, state) ==
    [r EXCEPT !.state = state, !.trans = "queued", !.stream = FALSE, !.prio = FALSE, !.isolated = FALSE]

Destroyed(S) == [p \in Paths |-> IF p \in S THEN None ELSE req[p]]
Left(S) == Older(Paths \ S)

-----------------------------------------------------------------------------
(* The main thread. *)

Locked == io \in {"open", "serve"}

\* asset_requests_connect(), before the socket thread starts
Connect ==
    /\ main.pc = "idle" /\ io = "off"
    /\ io' = "idle" /\ caps' = "none"
    /\ UNCHANGED <<todo, main, req, order, batch, held>>

\* asset_requests_set_capabilities(), once for a connection
SetCapabilities(c) ==
    /\ main.pc = "idle" /\ caps = "none" /\ ~Locked
    /\ caps' = c
    /\ UNCHANGED <<io, todo, main, req, order, batch, held>>

Available == caps \in {"generic", "batch"}

Usable(p) == ~req[p].cancelled

\* What the main thread goes on with after it has the request: a visible face may be handed a stream.
Started(p, prio) == IF prio THEN [pc |-> "handoff", path |-> p, prio |-> FALSE] ELSE Idle

\* asset_request_start_internal(): the path has a request,
Share(p, prio) ==
    /\ main.pc = "idle" /\ ~Locked /\ Available /\ Exists(p) /\ Usable(p) /\ held[p] < Users(p)
    /\ req' = [req EXCEPT ![p].refs = @ + 1, ![p].prio = @ \/ (prio /\ req[p].state = "pending")]
    /\ held' = [held EXCEPT ![p] = @ + 1]
    /\ main' = Started(p, prio)
    /\ UNCHANGED <<caps, io, todo, order, batch>>

\* or it has none: then the cache is read without the lock,
Start(p, prio) ==
    /\ main.pc = "idle" /\ ~Locked /\ Available /\ ~Exists(p) /\ Cardinality(Pending) < PendingMax
    /\ main' = [pc |-> "load", path |-> p, prio |-> prio]
    /\ UNCHANGED <<caps, io, todo, req, order, batch, held>>

StillAvailable == Available

\* and everything is looked at again.
StartLoaded ==
    /\ main.pc = "load" /\ ~Locked
    /\ \/ /\ StillAvailable /\ Cardinality(Pending) < PendingMax
          /\ req' = [req EXCEPT ![main.path] = NewRequest(main.prio)]
          /\ order' = Append(order, main.path)
          /\ held' = [held EXCEPT ![main.path] = 1]
          /\ main' = Started(main.path, main.prio)
       \/ ~StillAvailable /\ main' = Idle /\ UNCHANGED <<req, order, held>>
    /\ UNCHANGED <<caps, io, todo, batch>>

\* Mistake: only a stream of its own keeps a request.
InUse_Stream(p) == req[p].stream

InUse(p) == req[p].stream \/ req[p].batch # None

\* asset_request_free()
Free(p) ==
    /\ ~Locked
    /\ held[p] > 0 /\ held' = [held EXCEPT ![p] = @ - 1]
    /\ IF req[p].refs > 1 THEN req' = [req EXCEPT ![p].refs = @ - 1] /\ UNCHANGED order
       ELSE IF InUse(p)
            THEN req' = [req EXCEPT ![p].refs = 0, ![p].cancelled = TRUE] /\ UNCHANGED order
            ELSE req' = Destroyed({p}) /\ order' = Left({p})
    /\ UNCHANGED <<caps, io, todo, batch>>

Release(p) == main.pc = "idle" /\ Free(p) /\ UNCHANGED main

\* Of a victim after its stream was handed off.
ReleaseVictim == main.pc = "release" /\ Free(main.path) /\ main' = Idle

\* Mistake: two handoffs may reclaim the same batch.
Reclaimed_Again(v) == req[v].preempt

\* Whether the victim's stream is not the replacement's to take.
Reclaimed(v) ==
    \/ req[v].batch # None /\ (batch[req[v].batch].priority \/ batch[req[v].batch].preempt)
    \/ req[v].preempt

\* asset_request_preempt() for the visible face r: it has a stream already,
HandoffNeedless(v) ==
    LET r == main.path
    IN  /\ main.pc = "handoff" /\ ~Locked /\ v # r /\ held[v] > 0 /\ req[v].state \in {"pending", "complete"}
        /\ req[r].state = "complete" \/ (req[r].state = "pending" /\ (req[r].stream \/ req[r].batch # None))
        /\ main' \in {Idle, [main EXCEPT !.pc = "release", !.path = v]}
        /\ UNCHANGED <<caps, io, todo, req, order, batch, held>>

\* the victim is complete,
HandoffComplete(v) ==
    LET r == main.path
    IN  /\ main.pc = "handoff" /\ ~Locked /\ v # r /\ held[v] > 0 /\ r \in Queued /\ req[v].state = "complete"
        /\ req' = [req EXCEPT ![r].prio = TRUE]
        /\ main' = [main EXCEPT !.pc = "release", !.path = v]
        /\ UNCHANGED <<caps, io, todo, order, batch, held>>

\* or its stream is reclaimed in the next pass.
Handoff(v) ==
    LET r == main.path
        b == req[v].batch
    IN  /\ main.pc = "handoff" /\ ~Locked /\ v # r /\ held[v] > 0 /\ r \in Queued /\ req[v].state = "pending"
        /\ ~req[r].isolated /\ ~Reclaimed(v) /\ (b # None \/ req[v].stream)
        /\ batch' = IF b # None THEN [batch EXCEPT ![b].preempt = TRUE] ELSE batch
        /\ req' = [req EXCEPT ![r].prio = TRUE, ![r].isolated = TRUE, ![v].preempt = @ \/ b = None]
        /\ main' = [main EXCEPT !.pc = "release", !.path = v]
        /\ UNCHANGED <<caps, io, todo, order, held>>

\* No victim is left: the face waits, or its request is given up.
NoHandoff ==
    /\ main.pc = "handoff"
    /\ main' \in {Idle, [main EXCEPT !.pc = "release"]}
    /\ UNCHANGED <<caps, io, todo, req, order, batch, held>>

-----------------------------------------------------------------------------
(* The socket thread: asset_requests_service() *)

Attached == {p \in Paths : Exists(p) /\ req[p].batch # None}
PreemptedBatches == {b \in Batches : batch[b].preempt}

\* asset_batch_preempt() and asset_request_mark_preempted(): it begins with the handoffs,
Begin ==
    LET stopped == {p \in Paths : Exists(p) /\ req[p].preempt} \cup UNION {Remaining(b) : b \in PreemptedBatches}
    IN  /\ io = "idle" /\ io' = "open"
        /\ req' = [p \in Paths |->
                      IF p \notin stopped THEN req[p]
                      ELSE LET r == [req[p] EXCEPT !.preempt = FALSE, !.stream = FALSE, !.batch = None]
                           IN  IF p \in Pending THEN [Ended(r, "preempted") EXCEPT !.data = "none"] ELSE r]
        /\ batch' = [b \in Slots |-> IF b \in PreemptedBatches THEN None ELSE batch[b]]
        /\ UNCHANGED <<caps, todo, main, order, held>>

Room == Active < ActiveMax

\* asset_request_open() and asset_batch_open()
Open ==
    /\ io = "open" /\ Room /\ Queued # {}
    /\ LET first == OldestQueued
           members == BatchOf(first)
           Opened(p) == [req[p] EXCEPT !.prio = FALSE, !.isolated = FALSE]
       IN  IF caps = "batch" /\ first \in Faces
           THEN \E b \in Slots \ Batches :
                   /\ \A c \in Slots \ Batches : b <= c
                   /\ batch' = [batch EXCEPT ![b] = [members |-> members, current |-> 1, trans |-> "send",
                                                     priority |-> req[first].prio, preempt |-> FALSE, final |-> FALSE]]
                   /\ req' = [p \in Paths |-> IF p \in ToSet(members) THEN [Opened(p) EXCEPT !.batch = b] ELSE req[p]]
           ELSE /\ req' = [req EXCEPT ![first] = [Opened(first) EXCEPT !.stream = TRUE, !.trans = "send"]]
                /\ UNCHANGED batch
    /\ UNCHANGED <<caps, io, todo, main, order, held>>

\* No more is opened, also when no stream could be opened.
Opened ==
    /\ io = "open" /\ io' = "serve" /\ todo' = Streams \cup Batches
    /\ UNCHANGED <<caps, main, req, order, batch, held>>

\* asset_request_service(): what a stream may have come to
Served(r) ==
    IF r.cancelled THEN {[r EXCEPT !.stream = FALSE]}
    ELSE {Ended(r, "error")} \cup
         CASE r.trans = "send"   -> {[r EXCEPT !.trans = "header"]}
           [] r.trans = "header" -> {[r EXCEPT !.trans = "body", !.data = "none"],
                                     [r EXCEPT !.trans = "fin", !.data = "good"]}
           [] r.trans = "body"   -> {[r EXCEPT !.trans = "fin", !.data = d] : d \in {"good", "bad"}}
           [] r.trans = "fin"    -> IF r.data = "good" THEN {Ended(r, "complete")} ELSE {}

\* The requests are served in their order, then the batches.
Turn == IF todo \cap Paths # {} THEN Older(todo)[1] ELSE CHOOSE b \in todo : \A c \in todo : b <= c

ServeStream(p) ==
    /\ io = "serve" /\ todo # {} /\ p = Turn /\ todo' = todo \ {p}
    /\ req' \in {[req EXCEPT ![p] = r] : r \in Served(req[p])}
    /\ UNCHANGED <<caps, io, main, order, batch, held>>

\* The members that are left are detached, and what becomes of each.
BatchGone(b, left) ==
    /\ req' = [p \in Paths |-> IF p \in Remaining(b) THEN [left[p] EXCEPT !.batch = None] ELSE req[p]]
    /\ batch' = [batch EXCEPT ![b] = None]

\* asset_batch_fail()
BatchFails(b) ==
    BatchGone(b, [p \in Remaining(b) |-> IF req[p].state = "pending" THEN Ended(req[p], "error") ELSE req[p]])

\* asset_batch_member_advance() with what became of the member
Advance(b, r) ==
    LET t == batch[b]
    IN  /\ req' = [req EXCEPT ![t.members[t.current]] = [r EXCEPT !.batch = None]]
        /\ batch' = [batch EXCEPT ![b].current = @ + 1,
                                  ![b].trans = IF t.current = Len(t.members) THEN "fin" ELSE "header"]

FinalMember(b) == batch[b].current = Len(batch[b].members)

\* asset_batch_member_finish(): the body of a member has been read.
MemberFinished(b, valid) ==
    LET p == batch[b].members[batch[b].current]
        r == req[p]
        settled == IF r.cancelled THEN r
                   ELSE IF ~valid THEN [r EXCEPT !.state = "error", !.data = "none"]
                   ELSE IF FinalMember(b) THEN [r EXCEPT !.data = "good"]
                   ELSE [r EXCEPT !.state = "complete", !.data = "good"]
    IN  IF batch[b].current = Len(batch[b].members)
        THEN /\ req' = [req EXCEPT ![p] = settled]
             /\ batch' = [batch EXCEPT ![b].trans = "fin", ![b].final = valid /\ ~r.cancelled]
        ELSE Advance(b, settled)

\* asset_batch_cancel_if_unobserved()
Unobserved(b) == Remaining(b) # {} /\ \A p \in Remaining(b) : req[p].cancelled

\* The final member is complete now that the batch ended with it.
BatchEnds(b) ==
    BatchGone(b, [p \in Remaining(b) |->
        IF ~req[p].cancelled /\ batch[b].final THEN [req[p] EXCEPT !.state = "complete"] ELSE req[p]])

\* The records of a batch go on.
BatchProceeds(b) ==
    LET t == batch[b]
        r == req[t.members[t.current]]
    IN  \/ t.trans = "send" /\ batch' = [batch EXCEPT ![b].trans = "header"] /\ UNCHANGED req
        \/ /\ t.trans = "header"
           /\ \/ batch' = [batch EXCEPT ![b].trans = "body"] /\ UNCHANGED req
              \/ Advance(b, IF r.cancelled THEN r ELSE [r EXCEPT !.state = "error"])
        \/ t.trans = "body" /\ \E valid \in BOOLEAN : MemberFinished(b, valid)
        \/ t.trans = "fin" /\ BatchEnds(b)

\* asset_batch_service()
ServeBatch(b) ==
    /\ io = "serve" /\ todo # {} /\ b = Turn /\ todo' = todo \ {b}
    /\ IF Unobserved(b) THEN BatchGone(b, req)
       ELSE BatchProceeds(b) \/ BatchFails(b)
    /\ UNCHANGED <<caps, io, main, order, held>>

\* Nothing has come on a stream that is neither cancelled nor unobserved.
Wait ==
    /\ io = "serve" /\ todo # {}
    /\ IF Turn \in Slots THEN ~Unobserved(Turn) ELSE ~req[Turn].cancelled
    /\ todo' = todo \ {Turn}
    /\ UNCHANGED <<caps, io, main, req, order, batch, held>>

Gone == {p \in Paths : Exists(p) /\ req[p].cancelled /\ ~req[p].stream /\ req[p].batch = None}

\* The requests that are cancelled and have no stream any more are destroyed.
Reap ==
    /\ io = "serve" /\ todo = {} /\ io' = "idle"
    /\ req' = Destroyed(Gone) /\ order' = Left(Gone)
    /\ UNCHANGED <<caps, todo, main, batch, held>>

\* asset_requests_disconnect(), when the thread ends
Disconnect ==
    LET unused == {p \in Paths : Exists(p) /\ req[p].refs = 0}
    IN  /\ io = "idle" /\ io' = "off" /\ caps' = "off"
        /\ batch' = [b \in Slots |-> None]
        /\ req' = [p \in Paths |->
                      IF ~Exists(p) \/ p \in unused THEN None
                      ELSE LET r == [req[p] EXCEPT !.batch = None]
                           IN  IF r.state = "pending" THEN Ended(r, "error") ELSE r]
        /\ order' = Left(unused)
        /\ UNCHANGED <<todo, main, held>>

-----------------------------------------------------------------------------
Next ==
    \/ Connect \/ (\E c \in {"generic", "batch"} : SetCapabilities(c))
    \/ \E p \in Paths : \/ \E prio \in BOOLEAN : (prio => p \in Faces) /\ (Share(p, prio) \/ Start(p, prio))
                        \/ Release(p)
    \/ StartLoaded \/ ReleaseVictim \/ NoHandoff
    \/ \E v \in Faces : HandoffNeedless(v) \/ HandoffComplete(v) \/ Handoff(v)
    \/ Begin \/ Open \/ Opened \/ Wait \/ Reap \/ Disconnect
    \/ (\E p \in Paths : ServeStream(p)) \/ (\E b \in Slots : ServeBatch(b))

Spec == Init /\ [][Next]_vars

-----------------------------------------------------------------------------
(* Properties. *)

\* Types and the limits on streams and pending requests.
AQTypeOK ==
    /\ caps \in {"off", "none", "generic", "batch"} /\ io \in {"off", "idle", "open", "serve"}
    /\ \A p \in Paths : Exists(p) => req[p] \in RequestType
    /\ \A b \in Batches : batch[b] \in BatchType /\ Len(batch[b].members) \in 1..BatchMax
    /\ Active <= ActiveMax /\ Cardinality(Pending) <= PendingMax

\* What a user holds is there, is not cancelled and counts its users: the socket
\* thread never destroys it, whatever ends, is handed off or disconnects.
HandlesLive ==
    \A p \in Paths : held[p] > 0 => Exists(p) /\ req[p].refs = held[p] /\ ~req[p].cancelled

\* The members of a batch that are left are requests that know it, and no others do:
\* no batch reaches a request that is destroyed or has another stream.
MembersLive ==
    /\ \A b \in Batches : \A i \in batch[b].current..Len(batch[b].members) :
          LET p == batch[b].members[i] IN Exists(p) /\ req[p].batch = b /\ ~req[p].stream
    /\ \A p \in Attached : req[p].batch \in Batches /\ p \in Remaining(req[p].batch)

\* A request that is complete has verified data, and no stream or batch can still fail it.
CompleteIsFinal ==
    \A p \in Paths : Exists(p) /\ req[p].state = "complete" =>
        req[p].data = "good" /\ ~req[p].stream /\ req[p].batch = None

\* HARD_ASSERT(members[0] == first): the batch for the oldest request begins with it.
BatchBeginsWithOldest ==
    Queued # {} =>
        LET first == OldestQueued
            s     == BatchOf(first)
        IN  first \in Faces => s # <<>> /\ s[1] = first

Intents == {p \in Paths : Exists(p) /\ req[p].preempt} \cup PreemptedBatches
Isolated == {p \in Paths : Exists(p) /\ req[p].isolated}

\* No face gets a stream before an older generic request,
ServedInOrder ==
    LET waiting == Queued
    IN  \A g \in waiting \cap Generics, p \in waiting \cap Faces :
           Before(g, p) => req'[p] = None \/ (~req'[p].stream /\ req'[p].batch = None)

\* and who may have the stream of a victim has one that no other may have.
HandoffsReclaim == Cardinality(Isolated') > Cardinality(Isolated) => Cardinality(Intents') > Cardinality(Intents)

\* A face gets no stream while an older generic request waits for one, and
\* "each successful handoff must reclaim a distinct physical stream".
StreamsByRight == [][ServedInOrder /\ HandoffsReclaim]_vars

\* Without a connection nothing is pending: nobody waits for it.
NoneStranded == io = "off" => Pending = {}

\* What users, batches and streams know of a request agrees at every
\* interleaving of the two threads.
RequestsKept ==
    AQTypeOK /\ HandlesLive /\ MembersLive /\ CompleteIsFinal /\ BatchBeginsWithOldest /\ NoneStranded

=============================================================================
