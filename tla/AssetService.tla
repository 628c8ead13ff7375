---------------------------- MODULE AssetService ----------------------------
(***************************************************************************)
(* The asset streams of the server: server/src/socket/assets.c.  In each   *)
(* iteration of the game loop socket_assets_service() visits connections   *)
(* in a rotation, within a budget of bytes and of work that all share, and *)
(* serves the streams of each.  What is sent is counted in units: a write  *)
(* sends one.                                                              *)
(***************************************************************************)
EXTENDS Naturals, FiniteSets, SequencesExt

CONSTANTS
    Connections,
    TickBytes, TickWork,  \* socket_assets_tick_byte_budget() and ASSET_GLOBAL_WORK_PER_TICK
    PassBytes, PassWork,  \* ASSET_CONNECTION_BYTES_PER_PASS and _WORK_PER_PASS
    Rounds,               \* ASSET_STREAM_SERVICE_ROUNDS
    StreamsMax,           \* ASSET_STREAM_ACTIVE_MAX
    AcceptMax,            \* ASSET_STREAM_ACCEPT_QUANTUM
    MaxUnits,             \* of a response
    Offers,               \* the kinds of streams that clients open
    MaxOffered,           \* the streams of a kind that a client has opened and that are not accepted
    NoConn

ASSUME ServiceAssumption ==
    /\ {TickBytes, TickWork, PassBytes, PassWork, Rounds, StreamsMax, AcceptMax, MaxUnits} \subseteq Nat \ {0}
    /\ PassBytes < TickBytes  \* at the normal speed: 400 kB of the 1 MB of a tick
    /\ Offers \subseteq {"asset", "batch"}
    /\ PassWork = 1 + AcceptMax + StreamsMax * Rounds /\ TickWork >= 2 * (PassWork + 1)
    /\ IsFiniteSet(Connections) /\ NoConn \notin Connections /\ MaxOffered \in Nat

VARIABLES
    conns,    \* asset_connections
    cursor,   \* asset_service_cursor
    zombies,  \* the connections in ST_ZOMBIE or ST_DEAD
    streams,  \* asset_streams: the units each is still to send, 0 while its request is read
    offered,  \* the streams that wait to be accepted, by kind
    next,     \* asset_accept_batch_next: the kind that is accepted first
    stage,       \* "idle", "visit", "round", "accept" or "leave"
    tick,     \* the budget and the pass of this tick
    visit,    \* the budget and the round of this visit
    waited    \* history: the ticks since a connection was visited

service_vars == <<conns, cursor, zombies, streams, offered, next, stage, tick, visit, waited>>

Kinds == {"asset", "batch"}
Other(k) == CHOOSE j \in Kinds : j # k
Registered == ToSet(conns)
Live == Registered \ zombies

NoTick == [bytes |-> 0, work |-> 0, before |-> 0, start |-> NoConn, at |-> NoConn, visited |-> 0, seen |-> {}]
NoVisit == [bytes |-> 0, work |-> 0, round |-> 0, accepted |-> FALSE, i |-> 1, progressed |-> FALSE]

ServiceInit ==
    /\ conns = <<>> /\ cursor = NoConn /\ zombies = {} /\ stage = "idle" /\ tick = NoTick /\ visit = NoVisit
    /\ streams = [c \in Connections |-> <<>>] /\ offered = [c \in Connections |-> [k \in Kinds |-> 0]]
    /\ next = [c \in Connections |-> "asset"]
    /\ waited = [c \in Connections |-> 0]

Least(a, b) == IF a < b THEN a ELSE b
IndexIn(c) == CHOOSE i \in DOMAIN conns : conns[i] = c

\* The connection after it, or the first.
After(c) == conns[IF IndexIn(c) = Len(conns) THEN 1 ELSE IndexIn(c) + 1]

-----------------------------------------------------------------------------
(* Connections and clients, between ticks. *)

\* socket_assets_connection_register()
Register(c) ==
    /\ stage = "idle" /\ c \notin Registered
    /\ conns' = Append(conns, c)
    /\ cursor' = IF cursor = NoConn THEN c ELSE cursor
    /\ next' = [next EXCEPT ![c] = "asset"] /\ waited' = [waited EXCEPT ![c] = 0]
    /\ UNCHANGED <<zombies, streams, offered, stage, tick, visit>>

\* Where the rotation goes on without the connection.
CursorWithout(c) == IF Len(conns) = 1 THEN NoConn ELSE IF cursor = c THEN After(c) ELSE cursor

\* socket_assets_connection_clear()
Clear(c) ==
    /\ stage = "idle" /\ c \in Registered
    /\ conns' = RemoveAt(conns, IndexIn(c))
    /\ cursor' = CursorWithout(c)
    /\ streams' = [streams EXCEPT ![c] = <<>>] /\ offered' = [offered EXCEPT ![c] = [k \in Kinds |-> 0]]
    /\ zombies' = zombies \ {c}
    /\ UNCHANGED <<next, stage, tick, visit, waited>>

\* A client opens a stream.
Offer(c, k) ==
    /\ stage = "idle" /\ c \in Live /\ offered[c][k] < MaxOffered
    /\ offered' = [offered EXCEPT ![c][k] = @ + 1]
    /\ UNCHANGED <<conns, cursor, zombies, streams, next, stage, tick, visit, waited>>

-----------------------------------------------------------------------------
(* A tick: socket_assets_service() *)

BeginTick ==
    /\ stage = "idle" /\ conns # <<>> /\ stage' = "visit"
    /\ tick' = [bytes |-> TickBytes, work |-> TickWork, before |-> TickBytes, start |-> cursor, at |-> cursor,
                visited |-> 0, seen |-> {}]
    /\ UNCHANGED <<conns, cursor, zombies, streams, offered, next, visit, waited>>

Spent == tick.bytes = 0 \/ tick.work = 0

\* socket_assets_connection_pass_byte_budget()
PassBudget(left) == Least(left, PassBytes)

\* The next connection of the pass: a zombie is passed over.
Visit ==
    LET c == tick.at
        work == Least(tick.work - 1, PassWork)
    IN  /\ stage = "visit" /\ tick.visited < Len(conns) /\ ~Spent
        /\ IF c \in zombies
           THEN /\ tick' = [tick EXCEPT !.work = @ - 1, !.visited = @ + 1, !.at = After(c), !.seen = @ \cup {c}]
                /\ UNCHANGED <<visit, stage>>
           ELSE /\ tick' = [tick EXCEPT !.work = @ - 1, !.seen = @ \cup {c}]
                /\ visit' = [NoVisit EXCEPT !.bytes = PassBudget(tick.bytes), !.work = IF work = 0 THEN 0 ELSE work - 1]
                /\ stage' = IF work = 0 THEN "leave" ELSE IF streams[c] # <<>> THEN "round" ELSE "accept"
        /\ UNCHANGED <<conns, cursor, zombies, streams, offered, next, waited>>

\* asset_stream_service_round() may not go on to the next stream.
RoundStops ==
    \/ visit.i > Len(streams[tick.at]) \/ visit.work = 0
    \/ visit.bytes = 0 /\ visit.i <= Len(streams[tick.at]) /\ streams[tick.at][visit.i] # 0

\* The stream of the round has come to s, or is freed.
Becomes(s) == streams' = [streams EXCEPT ![tick.at][visit.i] = s]
IsFreed == streams' = [streams EXCEPT ![tick.at] = RemoveAt(@, visit.i)]

\* asset_stream_read_request() and asset_stream_write(): a stream makes progress,
Progress ==
    LET c == tick.at
        s == streams[c][visit.i]
    IN  /\ stage = "round" /\ ~RoundStops
        /\ \/ /\ s = 0 /\ \E n \in 1..MaxUnits : Becomes(n)
              /\ visit' = [visit EXCEPT !.work = @ - 1, !.progressed = TRUE, !.i = @ + 1]
           \/ /\ s # 0
              /\ IF s = 1 THEN IsFreed ELSE Becomes(s - 1)
              /\ visit' = [visit EXCEPT !.work = @ - 1, !.bytes = @ - 1, !.progressed = TRUE,
                                        !.i = IF s = 1 THEN @ ELSE @ + 1]
        /\ UNCHANGED <<conns, cursor, zombies, offered, next, stage, tick, waited>>

\* it makes none, because it is blocked or paced, or reads a part of its request,
Blocked ==
    /\ stage = "round" /\ ~RoundStops
    /\ \E read \in {FALSE, streams[tick.at][visit.i] = 0} :
          visit' = [visit EXCEPT !.work = @ - 1, !.i = @ + 1, !.progressed = @ \/ read]
    /\ UNCHANGED <<conns, cursor, zombies, streams, offered, next, stage, tick, waited>>

\* or it is reset, for an error or a request that is refused; one that exceeds the rate ends the connection.
Reset ==
    /\ stage = "round" /\ ~RoundStops
    /\ IsFreed
    /\ \E refused \in {FALSE, streams[tick.at][visit.i] = 0} :
          /\ zombies' \in {zombies} \cup IF refused THEN {zombies \cup {tick.at}} ELSE {}
          /\ visit' = [visit EXCEPT !.work = @ - 1, !.progressed = @ \/ refused]
    /\ UNCHANGED <<conns, cursor, offered, next, stage, tick, waited>>

\* asset_stream_rotate()
Rotated(s) == IF Len(s) > 1 THEN Tail(s) \o <<s[1]>> ELSE s

\* The end of a round. The first one comes before streams are accepted.
RoundEnd ==
    LET c == tick.at
        complete == visit.i > Len(streams[c])
        more == visit.progressed /\ streams[c] # <<>> /\ visit.round + 1 < Rounds /\ visit.bytes > 0 /\ visit.work > 0
    IN  /\ stage = "round" /\ RoundStops
        /\ streams' = IF visit.progressed THEN [streams EXCEPT ![c] = Rotated(@)] ELSE streams
        /\ visit' = [visit EXCEPT !.round = @ + 1, !.i = 1, !.progressed = FALSE]
        /\ stage' = IF ~visit.accepted THEN IF complete /\ c \notin zombies THEN "accept" ELSE "leave"
                 ELSE IF more THEN "round" ELSE "leave"
        /\ UNCHANGED <<conns, cursor, zombies, offered, next, tick, waited>>

FirstKind(c) == next[c]

\* The kind that is accepted.
Accepted(c) == IF offered[c][FirstKind(c)] > 0 THEN FirstKind(c) ELSE Other(FirstKind(c))

\* asset_stream_accept() may try another one.
StreamRoom(c) == Len(streams[c]) < StreamsMax
Tries(c) == StreamRoom(c) /\ visit.work > 0 /\ visit.i <= AcceptMax
MayAccept(c) ==
    /\ Tries(c)
    /\ \E k \in Kinds : offered[c][k] > 0

\* asset_stream_accept()
Accept ==
    LET c == tick.at
        k == Accepted(c)
    IN  /\ stage = "accept" /\ MayAccept(c)
        /\ offered' = [offered EXCEPT ![c][k] = @ - 1] /\ next' = [next EXCEPT ![c] = Other(k)]
        /\ streams' = [streams EXCEPT ![c] = Append(@, 0)]
        /\ visit' = [visit EXCEPT !.work = @ - 1, !.i = @ + 1]
        /\ UNCHANGED <<conns, cursor, zombies, stage, tick, waited>>

\* The attempt that finds no stream costs work too.
AcceptEnd ==
    LET c == tick.at
        work == IF Tries(c) THEN visit.work - 1 ELSE visit.work
    IN  /\ stage = "accept" /\ ~MayAccept(c)
        /\ visit' = [visit EXCEPT !.work = work, !.i = 1, !.accepted = TRUE]
        /\ stage' = IF visit.round < Rounds /\ visit.bytes > 0 /\ work > 0 THEN "round" ELSE "leave"
        /\ UNCHANGED <<conns, cursor, zombies, streams, offered, next, tick, waited>>

\* What the visit used is taken from the tick.
Leave ==
    /\ stage = "leave" /\ stage' = "visit"
    /\ tick' = [tick EXCEPT !.bytes = @ - (PassBudget(@) - visit.bytes),
                            !.work = @ - (Least(@, PassWork) - visit.work),
                            !.visited = @ + 1, !.at = After(tick.at)]
    /\ visit' = NoVisit
    /\ UNCHANGED <<conns, cursor, zombies, streams, offered, next, waited>>

PassDone == tick.visited = Len(conns)
LastPass == Spent \/ tick.bytes = tick.before

\* Another pass begins one connection further.
NextPass ==
    /\ stage = "visit" /\ PassDone /\ ~LastPass
    /\ tick' = [tick EXCEPT !.start = After(@), !.at = After(tick.start), !.visited = 0, !.before = tick.bytes]
    /\ UNCHANGED <<conns, cursor, zombies, streams, offered, next, stage, visit, waited>>

\* Mistake: every tick begins with the same connection.
NextCursor_Same == cursor

\* The next tick begins with the connection that was not visited, or one further.
NextCursor == IF ~PassDone THEN tick.at ELSE After(tick.start)

End ==
    /\ stage = "visit" /\ (IF PassDone THEN LastPass ELSE Spent)
    /\ stage' = "idle" /\ cursor' = NextCursor /\ tick' = NoTick
    /\ waited' = [c \in Connections |-> IF c \in tick.seen \/ c \notin Registered THEN 0 ELSE waited[c] + 1]
    /\ UNCHANGED <<conns, zombies, streams, offered, next, visit>>

-----------------------------------------------------------------------------
ServiceNext ==
    \/ \E c \in Connections : Register(c) \/ Clear(c) \/ \E k \in Offers : Offer(c, k)
    \/ BeginTick \/ Visit \/ Progress \/ Blocked \/ Reset \/ RoundEnd \/ Accept \/ AcceptEnd \/ Leave \/ NextPass \/ End

ServiceSpec == ServiceInit /\ [][ServiceNext]_service_vars

-----------------------------------------------------------------------------
(* Properties. *)

\* Types and budgets: no more is sent or done in a tick than they allow.
SVTypeOK ==
    /\ tick.bytes \in 0..TickBytes /\ tick.work \in 0..TickWork
    /\ visit.bytes \in 0..PassBytes /\ visit.work \in 0..PassWork
    /\ \A c \in Connections : Len(streams[c]) <= StreamsMax /\ offered[c] \in [Kinds -> 0..MaxOffered]
    /\ \A c \in Connections \ Registered : streams[c] = <<>>

\* The rotation stands at a connection that is registered, if there is one, however they come and go.
CursorValid ==
    /\ cursor \in Registered \cup {NoConn} /\ (cursor = NoConn) = (conns = <<>>)
    /\ stage # "idle" => {tick.start, tick.at} \subseteq Registered

\* "One saturated connection ... cannot consume the entire aggregate allowance before peers run."
PeersRun ==
    stage = "visit" /\ (IF PassDone THEN LastPass ELSE Spent) => Cardinality(tick.seen) >= Least(2, Len(conns))

\* With PeersRun and the rotation: of three connections each is visited in one of two ticks.
NoneWaits == Cardinality(Connections) <= 3 => \A c \in Connections : waited[c] <= 1

\* The rotation is valid and fair however connections come, go and are cut off.
RotationFair == SVTypeOK /\ CursorValid /\ PeersRun /\ NoneWaits

=============================================================================
