----------------------------- MODULE AuthWorker -----------------------------
(***************************************************************************)
(* The password worker pool of the server, server/src/server/auth_worker.c.*)
(*                                                                         *)
(* The main thread submits value-only password work, takes finished        *)
(* results and cancels work it no longer wants; a fixed pool of threads    *)
(* executes it.  Every access to the shared slots is inside one mutex, so  *)
(* one critical section is one step here.  A worker leaves the mutex while *)
(* it runs the password function on its own copy: between Pick and Finish  *)
(* of a thread every other step may happen.                                *)
(***************************************************************************)
EXTENDS AuthWork, Naturals, FiniteSets

CONSTANTS
    NThreads,    \* AUTH_WORKER_THREADS
    Queue,       \* AUTH_WORKER_QUEUE
    Jobs,        \* the inputs the client may submit, without the two IDs
    MaxRequest   \* bound on the requests issued (UINT64_MAX in the code)

ASSUME NThreadsAssumption   == NThreads \in Nat \ {0}
ASSUME QueueAssumption      == Queue \in Nat
ASSUME MaxRequestAssumption == MaxRequest \in Nat

Threads  == 1..NThreads
Capacity == NThreads + Queue
Slots    == 1..Capacity

ASSUME JobsAssumption == Jobs \subseteq Job

States == {"FREE", "QUEUED", "RUNNING", "DONE"}

VARIABLES
    state,        \* slots[].state
    cancelled,    \* slots[].cancelled
    work,         \* slots[].work
    stopping,     \* stopping
    threadCount,  \* thread_count
    threads,      \* what each worker thread is doing
    index,        \* the slot a running thread works for
    local,        \* the running thread's own copy of the work
    main,         \* the main thread: in the API's client, in start or in stop
    issued,       \* the last request ID the client issued (auth_request)
    asked,        \* history: the work each accepted request was submitted with
    dropped,      \* history: the requests the client cancelled
    taken         \* history: the requests whose result was taken

slots == <<state, cancelled, work>>
vars == <<state, cancelled, work, stopping, threadCount, threads, index, local, main, issued, asked, dropped, taken>>

ThreadStates == {"none", "ready", "waiting", "running", "exited"}

Init ==
    /\ state = [i \in Slots |-> "FREE"]
    /\ cancelled = [i \in Slots |-> FALSE]
    /\ work = [i \in Slots |-> NoWork]
    /\ stopping = FALSE
    /\ threadCount = 0
    /\ threads = [t \in Threads |-> "none"]
    /\ index = [t \in Threads |-> 0]
    /\ local = [t \in Threads |-> NoWork]
    /\ main = "client"
    /\ issued = 0
    /\ asked = [r \in 1..MaxRequest |-> NoWork]
    /\ dropped = {}
    /\ taken = {}

-----------------------------------------------------------------------------
(* Helpers on the slots. *)

\* pthread_cond_broadcast(&wake): every waiting thread will retry its loop.
Broadcast(ts) == [t \in Threads |-> IF ts[t] = "waiting" THEN "ready" ELSE ts[t]]

SlotsIn(s) == {i \in Slots : state[i] = s}

\* The oldest queued request: request IDs are monotonic.
Oldest(i) ==
    /\ state[i] = "QUEUED"
    /\ \A j \in SlotsIn("QUEUED") : work[i].request <= work[j].request

\* OPENSSL_cleanse() of the slots of a set: zeroed slots are free.
Cleanse(S) ==
    /\ state' = [i \in Slots |-> IF i \in S THEN "FREE" ELSE state[i]]
    /\ cancelled' = [i \in Slots |-> IF i \in S THEN FALSE ELSE cancelled[i]]
    /\ work' = [i \in Slots |-> IF i \in S THEN NoWork ELSE work[i]]

\* Mistake: stop cleanses the slots of running workers too.
Stoppable_All == Slots

\* A stop cleanses everything but the slots of running workers.
Stoppable == Slots \ SlotsIn("RUNNING")

-----------------------------------------------------------------------------
(* run(): the worker threads. *)

\* What a running slot keeps of its work, for cancellation.
IdsOf(w) == [NoWork EXCEPT !.request = w.request]

\* Mistake: the shared slot is cleansed before the work is copied from it.
Pick_CleanseFirst(t, i) ==
    /\ threads[t] = "ready"
    /\ ~stopping
    /\ Oldest(i)
    /\ state' = [state EXCEPT ![i] = "RUNNING"]
    /\ work' = [work EXCEPT ![i] = IdsOf(work[i])]
    /\ threads' = Broadcast([threads EXCEPT ![t] = "running"])
    /\ index' = [index EXCEPT ![t] = i]
    /\ local' = [local EXCEPT ![t] = work'[i]]
    /\ UNCHANGED <<cancelled, stopping, threadCount, main, issued, asked, dropped, taken>>

\* Mistake: the shared slot keeps the plaintext while the work runs.
Pick_KeepSecrets(t, i) ==
    /\ threads[t] = "ready"
    /\ ~stopping
    /\ Oldest(i)
    /\ state' = [state EXCEPT ![i] = "RUNNING"]
    /\ threads' = Broadcast([threads EXCEPT ![t] = "running"])
    /\ index' = [index EXCEPT ![t] = i]
    /\ local' = [local EXCEPT ![t] = work[i]]
    /\ UNCHANGED <<cancelled, work, stopping, threadCount, main, issued, asked, dropped, taken>>

\* Under the mutex, a thread takes the oldest queued work.  The shared slot
\* keeps only the ID, for cancellation; the plaintext moves to the thread.
Pick(t, i) ==
    /\ threads[t] = "ready"
    /\ ~stopping
    /\ Oldest(i)
    /\ state' = [state EXCEPT ![i] = "RUNNING"]
    /\ work' = [work EXCEPT ![i] = IdsOf(work[i])]
    /\ threads' = Broadcast([threads EXCEPT ![t] = "running"])
    /\ index' = [index EXCEPT ![t] = i]
    /\ local' = [local EXCEPT ![t] = work[i]]
    /\ UNCHANGED <<cancelled, stopping, threadCount, main, issued, asked, dropped, taken>>

\* Nothing is queued: pthread_cond_wait().
Wait(t) ==
    /\ threads[t] = "ready"
    /\ ~stopping
    /\ SlotsIn("QUEUED") = {}
    /\ threads' = [threads EXCEPT ![t] = "waiting"]
    /\ UNCHANGED <<slots, stopping, threadCount, index, local, main, issued, asked, dropped, taken>>

\* pthread_cond_wait() may return without a broadcast.
SpuriousWake(t) ==
    /\ threads[t] = "waiting"
    /\ threads' = [threads EXCEPT ![t] = "ready"]
    /\ UNCHANGED <<slots, stopping, threadCount, index, local, main, issued, asked, dropped, taken>>

Exit(t) ==
    /\ threads[t] = "ready"
    /\ stopping
    /\ threads' = [threads EXCEPT ![t] = "exited"]
    /\ UNCHANGED <<slots, stopping, threadCount, index, local, main, issued, asked, dropped, taken>>

\* The slot is given the executed copy.
Done(i, w) ==
    /\ state' = [state EXCEPT ![i] = "DONE"]
    /\ work' = [work EXCEPT ![i] = w]
    /\ UNCHANGED cancelled

\* The work is executed and the mutex taken again; a result nobody wants is
\* cleansed with its slot.
Finish(t) ==
    /\ threads[t] = "running"
    /\ \E w \in Executed(local[t]) :
          LET i == index[t]
          IN  IF stopping \/ cancelled[i] THEN Cleanse({i}) ELSE Done(i, w)
    /\ threads' = Broadcast([threads EXCEPT ![t] = "ready"])
    /\ index' = [index EXCEPT ![t] = 0]
    /\ local' = [local EXCEPT ![t] = NoWork]
    /\ UNCHANGED <<stopping, threadCount, main, issued, asked, dropped, taken>>

-----------------------------------------------------------------------------
(* auth_worker_start(): threads run while the later ones are created.      *)

Start ==
    /\ main = "client"
    /\ threadCount = 0
    /\ stopping' = FALSE
    /\ main' = "start"
    /\ UNCHANGED <<slots, threadCount, threads, index, local, issued, asked, dropped, taken>>

CreateThread ==
    /\ main = "start"
    /\ threads' = [threads EXCEPT ![threadCount + 1] = "ready"]
    /\ threadCount' = threadCount + 1
    /\ main' = IF threadCount' = NThreads THEN "client" ELSE "start"
    /\ UNCHANGED <<slots, stopping, index, local, issued, asked, dropped, taken>>

(* auth_worker_stop(): called by the client, or by a start that failed.    *)

\* Mistake: the sleeping threads are not told.
Stop_Silent ==
    /\ main' = "stop"
    /\ stopping' = TRUE
    /\ Cleanse(Stoppable)
    /\ UNCHANGED <<threadCount, threads, index, local, issued, asked, dropped, taken>>

Stop ==
    /\ main' = "stop"
    /\ stopping' = TRUE
    /\ Cleanse(Stoppable)
    /\ threads' = Broadcast(threads)
    /\ UNCHANGED <<threadCount, index, local, issued, asked, dropped, taken>>

CreateThreadFails == main = "start" /\ Stop

ClientStops == main = "client" /\ Stop

\* pthread_join() of every created thread, then the final cleanse.
Join ==
    /\ main = "stop"
    /\ \A t \in 1..threadCount : threads[t] = "exited"
    /\ threadCount' = 0
    /\ threads' = [t \in Threads |-> "none"]
    /\ Cleanse(Slots)
    /\ main' = "client"
    /\ UNCHANGED <<stopping, index, local, issued, asked, dropped, taken>>

-----------------------------------------------------------------------------
(* The client's calls, all on the main thread. *)

MayAccept ==
    /\ threadCount = NThreads
    /\ ~stopping
    /\ Cardinality(SlotsIn("QUEUED")) < Queue
    /\ SlotsIn("FREE") # {}

\* The code keeps the last free slot it sees.
Available(i) == state[i] = "FREE" /\ \A j \in SlotsIn("FREE") : j <= i

\* The slots after an accepted submission.
Enqueue(i, w) ==
    /\ work' = [work EXCEPT ![i] = w]
    /\ state' = [state EXCEPT ![i] = "QUEUED"]
    /\ UNCHANGED cancelled

WorkOf(job, request) ==
    [NoWork EXCEPT !.request = request, !.verify = job.verify, !.create = job.create,
                   !.credential = job.credential, !.password = job.password,
                   !.replacement = job.replacement]

\* Mistake: no broadcast after the submission.
Submit_Silent(job) ==
    /\ main = "client"
    /\ issued < MaxRequest
    /\ issued' = issued + 1
    /\ MayAccept
    /\ \E i \in Slots : Available(i) /\ Enqueue(i, WorkOf(job, issued + 1))
    /\ asked' = [asked EXCEPT ![issued + 1] = WorkOf(job, issued + 1)]
    /\ UNCHANGED <<stopping, threadCount, threads, index, local, main, dropped, taken>>

Submit(job) ==
    /\ main = "client"
    /\ issued < MaxRequest
    /\ issued' = issued + 1
    /\ MayAccept
    /\ \E i \in Slots : Available(i) /\ Enqueue(i, WorkOf(job, issued + 1))
    /\ asked' = [asked EXCEPT ![issued + 1] = WorkOf(job, issued + 1)]
    /\ threads' = Broadcast(threads)
    /\ UNCHANGED <<stopping, threadCount, index, local, main, dropped, taken>>

\* A refused submission still consumed its request ID.
SubmitRefused ==
    /\ main = "client"
    /\ issued < MaxRequest
    /\ issued' = issued + 1
    /\ ~MayAccept
    /\ UNCHANGED <<slots, stopping, threadCount, threads, index, local, main, asked, dropped, taken>>

FirstDone(i) == state[i] = "DONE" /\ \A j \in SlotsIn("DONE") : i <= j

Take(i) ==
    /\ main = "client"
    /\ FirstDone(i)
    /\ taken' = taken \cup {work[i].request}
    /\ Cleanse({i})
    /\ UNCHANGED <<stopping, threadCount, threads, index, local, main, issued, asked, dropped>>

\* Mistake: running work is not cancelled.
CancelSlots_NotRunning(request) ==
    Cleanse({i \in Slots : state[i] \in {"QUEUED", "DONE"} /\ work[i].request = request})

\* auth_worker_cancel(): running work is only marked.
CancelSlots(request) ==
    LET mine == {i \in Slots : state[i] # "FREE" /\ work[i].request = request}
        gone == mine \ SlotsIn("RUNNING")
    IN  /\ state' = [i \in Slots |-> IF i \in gone THEN "FREE" ELSE state[i]]
        /\ work' = [i \in Slots |-> IF i \in gone THEN NoWork ELSE work[i]]
        /\ cancelled' = [i \in Slots |-> IF i \in gone THEN FALSE
                                         ELSE IF i \in mine THEN TRUE ELSE cancelled[i]]

Cancel(request) ==
    /\ main = "client"
    /\ CancelSlots(request)
    /\ dropped' = dropped \cup {request}
    /\ threads' = Broadcast(threads)
    /\ UNCHANGED <<stopping, threadCount, index, local, main, issued, asked, taken>>

-----------------------------------------------------------------------------
WorkerNext ==
    \E t \in Threads :
        \/ \E i \in Slots : Pick(t, i)
        \/ Wait(t)
        \/ SpuriousWake(t)
        \/ Exit(t)
        \/ Finish(t)

ClientNext ==
    \/ Start
    \/ CreateThread
    \/ CreateThreadFails
    \/ ClientStops
    \/ Join
    \/ \E job \in Jobs : Submit(job)
    \/ SubmitRefused
    \/ \E i \in Slots : Take(i)
    \/ \E request \in 1..issued : Cancel(request)

Next == WorkerNext \/ ClientNext

Spec == Init /\ [][Next]_vars

\* A thread that can run is eventually scheduled, and the main thread does
\* not stop inside start or stop.  Nothing is assumed of the client's calls
\* or of spurious wakeups.
Fairness ==
    /\ \A t \in Threads :
          /\ WF_vars(\E i \in Slots : Pick(t, i))
          /\ WF_vars(Exit(t))
          /\ WF_vars(Finish(t))
    /\ WF_vars(CreateThread \/ CreateThreadFails)
    /\ WF_vars(Join)

FairSpec == Spec /\ Fairness

-----------------------------------------------------------------------------
(* Properties. *)

\* Types: every slot, thread and copy holds a value of the code's types.
AWTypeOK ==
    /\ state \in [Slots -> States]
    /\ cancelled \in [Slots -> BOOLEAN]
    /\ work \in [Slots -> Work]
    /\ stopping \in BOOLEAN
    /\ threadCount \in 0..NThreads
    /\ threads \in [Threads -> ThreadStates]
    /\ index \in [Threads -> 0..Capacity]
    /\ local \in [Threads -> Work]
    /\ main \in {"client", "start", "stop"}
    /\ issued \in 0..MaxRequest
    /\ asked \in [1..MaxRequest -> Work]
    /\ dropped \subseteq 1..issued
    /\ taken \subseteq 1..issued

Running == {t \in Threads : threads[t] = "running"}

\* Between its two critical sections a worker of run() owns the slot it
\* picked: the slot stays RUNNING with its request, nobody else runs for it,
\* and every RUNNING slot has such a worker, so no cancel, stop or submit
\* reuses it under the worker's pointer.
SlotOwnership ==
    /\ \A t \in Running :
          /\ index[t] \in SlotsIn("RUNNING")
          /\ work[index[t]].request = local[t].request
    /\ \A t, u \in Running : index[t] = index[u] => t = u
    /\ \A i \in SlotsIn("RUNNING") : \E t \in Running : index[t] = i

\* auth_worker_cancel() names one piece of work: the slots in use carry
\* distinct requests, all of them issued and none of them taken before.
UniqueRequests ==
    /\ \A i \in Slots \ SlotsIn("FREE") :
          work[i].request \in (1..issued) \ taken
    /\ \A i, j \in Slots \ SlotsIn("FREE") :
          work[i].request = work[j].request => i = j

\* A result handed to auth_worker_take() answers the work its request was
\* submitted with: no worker ever answers with another request's data.
AnswersTheQuestion ==
    \A i \in SlotsIn("DONE") : work[i] \in Executed(asked[work[i].request])

Secret(w) == w.password # None \/ w.replacement # None

\* "Stop joins running work and clears all queued secrets/results before
\* returning" (auth_worker.h), and at any time a plaintext password is only
\* in a queued slot or in the copy of a thread that is running it.
SecretsContained ==
    /\ \A i \in Slots : Secret(work[i]) => state[i] = "QUEUED"
    /\ \A t \in Threads : Secret(local[t]) => t \in Running
    /\ threadCount = 0 => SlotsIn("FREE") = Slots /\ \A i \in Slots : work[i] = NoWork

\* No wakeup of the pool is lost: a thread sleeps in pthread_cond_wait() only
\* while there is nothing to do, so a broadcast after each change suffices.
NoLostWakeup ==
    \A t \in Threads : threads[t] = "waiting" => ~stopping /\ SlotsIn("QUEUED") = {}

\* Work starts in the order of submission: a step that starts a request
\* leaves no older request queued.
StartsInOrder ==
    [][\A i \in Slots :
          state[i] = "QUEUED" /\ state'[i] = "RUNNING" =>
              \A j \in Slots : state'[j] = "QUEUED" =>
                  work[i].request < work'[j].request]_vars

\* Under fair scheduling of the threads every queued request is started,
\* cancelled or dropped by a stop: none waits for ever.
QueuedIsServed ==
    \A r \in 1..MaxRequest :
        (\E i \in Slots : state[i] = "QUEUED" /\ work[i].request = r) ~>
        ~(\E i \in Slots : state[i] = "QUEUED" /\ work[i].request = r)

\* auth_worker_stop() returns: its joins do not wait on each other, on work
\* that was cancelled or on a thread asleep, even after a half-failed start.
StopReturns == main = "stop" ~> main = "client"

-----------------------------------------------------------------------------
(* The pool implements the abstract service.  A running request nobody     *)
(* wants any more is already gone for the client.                          *)

RequestsOf(S) == {work[i].request : i \in S}

Wanted   == {i \in SlotsIn("QUEUED") \cup SlotsIn("RUNNING") : ~cancelled[i]}
Pending  == IF stopping THEN {} ELSE RequestsOf(Wanted)
Answered == RequestsOf(SlotsIn("DONE"))

Service == INSTANCE AuthService WITH
    MaxRequest <- MaxRequest,
    issued     <- issued,
    pending    <- Pending,
    finished   <- Answered,
    dropped    <- dropped,
    delivered  <- taken

\* The pool implements AuthService: a request is answered at most once, only
\* after it was accepted, and never after its cancellation or a stop.
ImplementsService == Service!Spec

=============================================================================
