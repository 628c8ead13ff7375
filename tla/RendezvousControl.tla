-------------------------- MODULE RendezvousControl --------------------------
(***************************************************************************)
(* The rendezvous control of server/src/socket/metaserver.c: a thread that *)
(* keeps a connection to the metaserver and tells clients with a ticket    *)
(* where the server is.  The publisher starts a control with the token of  *)
(* each accepted publication, stops it when publication is suspended, and  *)
(* ends it with the server; each of these advances the generation, and a   *)
(* thread of an older generation may disclose nothing any more.            *)
(*                                                                         *)
(* The calls of the publisher hold its request lock, so there is one at a  *)
(* time.  rendezvous_lock is only held for a step; the disclosure lock is  *)
(* held from the look at the generation to the end of the send.  Time is   *)
(* left out: what waits for a time may go on at any time.                  *)
(***************************************************************************)
EXTENDS Naturals, FiniteSets

CONSTANTS
    Tickets,
    JobsMax,        \* METASERVER_RENDEZVOUS_AUTH_JOBS_MAX
    PunchMax,       \* RENDEZVOUS_PUNCH_JOBS_MAX
    Addresses,      \* SOCKET_DIRECT_MAX_CANDIDATES
    ControlTokens,  \* METASERVER_ATTEMPT_RATE_CAPACITY
    MaxGen          \* generations; a bound of the model

ASSUME ControlAssumption == {JobsMax, PunchMax, Addresses, ControlTokens, MaxGen} \subseteq Nat \ {0}

Gens == 1..MaxGen
Nobody == 0
Caller == MaxGen + 1
NoCall == [kind |-> "none"]
NoSend == [kind |-> "none"]

VARIABLES
    generation, shutdown,
    state,      \* rendezvous_thread_state: "stopped", "running", "exited"
    newest,     \* rendezvous_thread: the thread it refers to
    lock,       \* the disclosure lock
    call,       \* the call of the publisher between two of its steps
    pc,         \* where each thread is
    send,       \* what each thread is about to send
    jobs,       \* tickets that were answered and have not expired
    punches,    \* tickets with a punch window
    tokens      \* the attempt budget

shared == <<generation, shutdown, state, newest>>
control_vars == <<shared, lock, call, pc, send, jobs, punches, tokens>>

ControlInit ==
    /\ generation = 0 /\ shutdown = FALSE /\ state = "stopped" /\ newest = Nobody
    /\ lock = Nobody /\ call = NoCall
    /\ pc = [g \in Gens |-> "none"] /\ send = [g \in Gens |-> NoSend]
    /\ jobs = {} /\ punches = {} /\ tokens = ControlTokens

\* metaserver_rendezvous_generation_allows()
Current(g) == ~shutdown /\ generation = g

-----------------------------------------------------------------------------
(* The publisher. *)

\* Mistake: the generation advances without the disclosure lock.
Exclusive_Not == TRUE

Exclusive == lock = Nobody

\* The disclosure lock is released before the old thread is joined.
Unlocked == lock

\* metaserver_rendezvous_start(), _stop() and the end in metaserver_deinit()
Call(kind) ==
    /\ call = NoCall /\ ~shutdown /\ generation < MaxGen
    /\ Exclusive
    /\ generation' = generation + 1
    /\ shutdown' = (kind = "deinit")
    /\ call' = [kind |-> kind, gen |-> generation', join |-> state # "stopped"]
    /\ lock' = Unlocked
    /\ UNCHANGED <<state, newest, pc, send, jobs, punches, tokens>>

\* pthread_join() returns.
Joined == call.join => pc[newest] = "gone"

Finish ==
    /\ call # NoCall /\ Joined
    /\ \/ /\ call.kind = "start" /\ Current(call.gen)
          /\ state' = "running" /\ newest' = call.gen
          /\ pc' = [pc EXCEPT ![call.gen] = "check"]
       \/ state' = "stopped" /\ UNCHANGED <<newest, pc>>
    /\ call' = NoCall
    /\ UNCHANGED <<generation, shutdown, lock, send, jobs, punches, tokens>>

-----------------------------------------------------------------------------
(* The thread of a generation. *)

Goto(g, from, to) == pc[g] = from /\ pc' = [pc EXCEPT ![g] = to]

\* The loop of the thread.
Check(g) ==
    /\ Goto(g, "check", IF Current(g) THEN "budget" ELSE "exit")
    /\ UNCHANGED <<shared, lock, call, send, jobs, punches, tokens>>

\* An attempt takes a token, even if the generation has just ended.
Budget(g) ==
    /\ \/ tokens > 0 /\ Goto(g, "budget", "connect") /\ tokens' = tokens - 1
       \/ tokens = 0 /\ Goto(g, "budget", "wait") /\ UNCHANGED tokens
    /\ UNCHANGED <<shared, lock, call, send, jobs, punches>>

\* metaserver_rendezvous_wait(): to the end of the time, or the end of the
\* generation.
Woken(g) == IF Current(g) THEN "check" ELSE "exit"

Wait(g) ==
    /\ Goto(g, "wait", Woken(g))
    /\ UNCHANGED <<shared, lock, call, send, jobs, punches, tokens>>

\* The upgrade succeeds, fails, or is rejected for good.
Connect(g) ==
    /\ \E to \in {"loop", "wait", "exit"} : Goto(g, "connect", to) /\ (to = "wait" => Current(g))
    /\ UNCHANGED <<shared, lock, call, send, jobs, punches, tokens>>

\* The connection ends; after a stable one the budget is full.
Disconnect(g) ==
    /\ Goto(g, "end", IF Current(g) THEN "wait" ELSE "exit")
    /\ tokens' \in IF Current(g) THEN {tokens, ControlTokens} ELSE {tokens}
    /\ send' = [send EXCEPT ![g] = NoSend] /\ jobs' = {} /\ punches' = {}
    /\ UNCHANGED <<shared, lock, call>>

Exit(g) ==
    /\ Goto(g, "exit", "gone")
    /\ state' = "exited"
    /\ UNCHANGED <<generation, shutdown, newest, lock, call, send, jobs, punches, tokens>>

RefillControl == tokens < ControlTokens /\ tokens' = tokens + 1 /\ UNCHANGED <<shared, lock, call, pc, send, jobs, punches>>

-----------------------------------------------------------------------------
(* One pass over the connection. *)

\* Something is to be sent.
Sends(g, from, kind, ticket) ==
    /\ Goto(g, from, "acquire")
    /\ send' = [send EXCEPT ![g] = [kind |-> kind, ticket |-> ticket]]

\* The generation is looked at before each pass.
Loop(g) ==
    /\ ~Current(g) /\ Goto(g, "loop", "end")
    /\ UNCHANGED <<shared, lock, call, send, jobs, punches, tokens>>

Heartbeat(g) ==
    /\ Sends(g, "loop", "ping", Nobody)
    /\ UNCHANGED <<shared, lock, call, jobs, punches, tokens>>

\* metaserver_rendezvous_auth_expire()
Expire(g, t) ==
    /\ pc[g] = "loop" /\ t \in jobs
    /\ jobs' = jobs \ {t}
    /\ UNCHANGED <<shared, lock, call, pc, send, punches, tokens>>

\* metaserver_rendezvous_punch_update(): another punch, or the end of the window.
Punch(g, t) ==
    /\ t \in punches
    /\ Sends(g, "loop", "punch", t)
    /\ UNCHANGED <<shared, lock, call, jobs, punches, tokens>>

PunchEnd(g, t) ==
    /\ t \in punches
    /\ Sends(g, "loop", "complete", t)
    /\ UNCHANGED <<shared, lock, call, jobs, punches, tokens>>

\* A candidate of a client: claimed if the ticket is neither known nor one
\* too many, else ignored.  The server has some addresses to tell it.
Candidate(g, t) ==
    /\ t \notin jobs /\ Cardinality(jobs) < JobsMax
    /\ Goto(g, "loop", "answer")
    /\ \E n \in 0..Addresses :
          send' = [send EXCEPT ![g] = [kind |-> "candidate", ticket |-> t, left |-> n]]
    /\ jobs' = jobs \cup {t}
    /\ UNCHANGED <<shared, lock, call, punches, tokens>>

\* metaserver_rendezvous_punch_schedule() finds a place.
Room(t) == t \in punches \/ Cardinality(punches) < PunchMax

\* The addresses of the server are sent one by one, and the window opens; if
\* there is no place for it, it ends at once.  An address that cannot be
\* rendered ends the connection.
Answer(g) ==
    LET t == send[g].ticket
    IN  /\ pc[g] = "answer"
        /\ \/ /\ send[g].left > 0 /\ Goto(g, "answer", "acquire")
              /\ send' = [send EXCEPT ![g].left = @ - 1] /\ UNCHANGED punches
           \/ send[g].left > 0 /\ Goto(g, "answer", "end") /\ UNCHANGED <<send, punches>>
           \/ /\ send[g].left = 0 /\ Room(t) /\ Goto(g, "answer", "loop")
              /\ punches' = punches \cup {t} /\ send' = [send EXCEPT ![g] = NoSend]
           \/ /\ send[g].left = 0 /\ ~Room(t)
              /\ Sends(g, "answer", "complete", t) /\ UNCHANGED punches
        /\ UNCHANGED <<shared, lock, call, jobs, tokens>>

\* The connection is closed, or sends something else.
Closed(g) ==
    /\ Goto(g, "loop", "end")
    /\ UNCHANGED <<shared, lock, call, send, jobs, punches, tokens>>

-----------------------------------------------------------------------------
(* A send: metaserver_rendezvous_send(), _ping() and the punches. *)

Acquire(g) ==
    /\ lock = Nobody
    /\ \/ Current(g) /\ Goto(g, "acquire", "send") /\ lock' = g
       \/ ~Current(g) /\ Goto(g, "acquire", "end") /\ UNCHANGED lock
    /\ UNCHANGED <<shared, call, send, jobs, punches, tokens>>

Over(g) == IF send[g].kind = "complete" THEN punches \ {send[g].ticket} ELSE punches

\* Sent, or the connection is broken.
Release(g) ==
    /\ \/ send[g].kind = "candidate" /\ Goto(g, "send", "answer") /\ UNCHANGED <<send, punches>>
       \/ /\ send[g].kind # "candidate" /\ Goto(g, "send", "loop")
          /\ punches' = Over(g) /\ send' = [send EXCEPT ![g] = NoSend]
       \/ send[g].kind # "punch" /\ Goto(g, "send", "end") /\ UNCHANGED <<send, punches>>
    /\ lock' = Nobody
    /\ UNCHANGED <<shared, call, jobs, tokens>>

-----------------------------------------------------------------------------
Thread(g) ==
    \/ Check(g) \/ Budget(g) \/ Wait(g) \/ Connect(g) \/ Disconnect(g) \/ Exit(g)
    \/ Loop(g) \/ Heartbeat(g) \/ Closed(g)
    \/ \E t \in Tickets : Expire(g, t) \/ Punch(g, t) \/ PunchEnd(g, t) \/ Candidate(g, t)
    \/ Answer(g) \/ Acquire(g) \/ Release(g)

ControlNext ==
    \/ \E kind \in {"start", "stop", "deinit"} : Call(kind)
    \/ Finish \/ RefillControl
    \/ \E g \in Gens : Thread(g)

ControlSpec == ControlInit /\ [][ControlNext]_control_vars

-----------------------------------------------------------------------------
(* Properties. *)

Places == {"none", "check", "budget", "wait", "connect", "loop", "answer", "acquire", "send", "end", "exit", "gone"}
Alive == {g \in Gens : pc[g] \notin {"none", "gone"}}

\* Types and limits.
RCTypeOK ==
    /\ generation \in 0..MaxGen /\ shutdown \in BOOLEAN
    /\ state \in {"stopped", "running", "exited"} /\ newest \in 0..MaxGen
    /\ lock \in 0..MaxGen /\ pc \in [Gens -> Places]
    /\ jobs \subseteq Tickets /\ Cardinality(jobs) <= JobsMax
    /\ punches \subseteq Tickets /\ Cardinality(punches) <= PunchMax
    /\ tokens \in 0..ControlTokens

\* Nothing is sent, and no punch made, for a generation that is over: not even
\* by a thread that looked at the generation before it ended.
NoStaleDisclosure == \A g \in Gens : pc[g] = "send" => lock = g /\ Current(g)

\* There is at most one thread, and none when a call has said that it stopped.
OneControl ==
    /\ Cardinality(Alive) <= 1
    /\ call = NoCall /\ (shutdown \/ state = "stopped") => Alive = {}

\* A disclosure is of the current generation, of one control, and no call waits
\* for a control with the disclosure lock held, which that control may need to
\* end.
ControlSound == RCTypeOK /\ NoStaleDisclosure /\ OneControl /\ (call # NoCall => lock # Caller)

=============================================================================
