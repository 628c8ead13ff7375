-------------------------- MODULE AuthWorkerProofs --------------------------
(***************************************************************************)
(* Proofs about password work.  AuthWorker, for every number of threads,   *)
(* queue length, number of requests and set of jobs: IInv is the inductive *)
(* invariant, the safety invariants follow from it.  Then AuthBudget, which*)
(* shares no state with it, for every burst, refill period and clock, from *)
(* BudgetInv.                                                              *)
(***************************************************************************)
EXTENDS AuthWorker, AuthBudget, TLAPS

\* The shape of a slot in each state, and where its work comes from.
SlotShape ==
    \A i \in Slots :
        /\ state[i] = "FREE" => work[i] = NoWork
        /\ state[i] # "RUNNING" => cancelled[i] = FALSE
        /\ state[i] = "QUEUED" => work[i] = asked[work[i].request]
        /\ state[i] = "RUNNING" => ~Secret(work[i])
        /\ state[i] = "DONE" => work[i] \in Executed(asked[work[i].request])

\* What a worker thread holds, running or not.
ThreadShape ==
    \A t \in Threads :
        IF threads[t] = "running"
        THEN local[t] = asked[local[t].request] /\ local[t].request \in 1..MaxRequest
        ELSE local[t] = NoWork

\* The life of the pool: which threads exist, and what stopping means.
Lifecycle ==
    /\ \A t \in Threads : threads[t] = "none" <=> t > threadCount
    /\ main = "client" => threadCount \in {0, NThreads}
    /\ main = "start" => threadCount < NThreads /\ ~stopping
    /\ main = "stop" => stopping
    /\ stopping /\ main # "stop" => threadCount = 0
    /\ \A i \in Slots : stopping => state[i] \in {"FREE", "RUNNING"}
    /\ \A i \in Slots : threadCount = 0 => state[i] = "FREE"

IInv ==
    /\ AWTypeOK
    /\ SlotOwnership
    /\ UniqueRequests
    /\ SlotShape
    /\ ThreadShape
    /\ Lifecycle

-----------------------------------------------------------------------------
(* Lemmas about the operators. *)

\* The zeroed work has the type of what it stands for, and no secrets.
LEMMA ZeroTypes == NoWork \in Work /\ ~Secret(NoWork)
BY DEF NoWork, Work, Results, Secret

\* A running slot keeps the request and nothing secret.
LEMMA IdsOfFacts ==
    ASSUME NEW w \in Work
    PROVE  IdsOf(w) \in Work /\ IdsOf(w).request = w.request /\ ~Secret(IdsOf(w))
BY DEF IdsOf, NoWork, Work, Results, Secret

\* A verification returns one of the three results of the password library.
LEMMA VerifyResultsType ==
    ASSUME NEW w \in Work
    PROVE  VerifyResults(w) \subseteq Results
BY DEF VerifyResults, Results

\* execute() returns work of the same request with its secrets cleansed.
LEMMA ExecutedFacts ==
    ASSUME NEW w \in Work, NEW x \in Executed(w)
    PROVE  x \in Work /\ x.request = w.request /\ ~Secret(x)
<1>1. PICK result \in VerifyResults(w) :
          x \in IF result = "MATCH" /\ w.create
                THEN {Finished(w, "MATCH", RecordOf(w.replacement, w.request)),
                      Finished(w, "ERROR", NoCredential)}
                ELSE {Finished(w, result, w.record)}
  BY Zenon DEF Executed
<1>2. result \in Results
  BY VerifyResultsType
<1>3. RecordOf(w.replacement, w.request) \in Credential
  BY DEF RecordOf, Credential, Work, Forms
<1>4. \A res \in Results, rec \in Credential \cup {NoCredential} :
          /\ Finished(w, res, rec) \in Work
          /\ Finished(w, res, rec).request = w.request
          /\ ~Secret(Finished(w, res, rec))
  BY DEF Finished, Work, Secret
<1>5. /\ w.record \in Credential \cup {NoCredential}
      /\ "MATCH" \in Results
      /\ "ERROR" \in Results
  BY DEF Work, Results
<1>6. CASE result = "MATCH" /\ w.create
  BY <1>1, <1>3, <1>4, <1>5, <1>6
<1>7. CASE ~(result = "MATCH" /\ w.create)
  BY <1>1, <1>2, <1>4, <1>5, <1>7
<1> QED BY <1>6, <1>7

\* A broadcast only turns sleepers into threads that can run.
LEMMA BroadcastFacts ==
    ASSUME NEW ts \in [Threads -> ThreadStates]
    PROVE  /\ Broadcast(ts) \in [Threads -> ThreadStates]
           /\ \A t \in Threads : /\ Broadcast(ts)[t] = "running" <=> ts[t] = "running"
                                 /\ Broadcast(ts)[t] = "none" <=> ts[t] = "none"
BY DEF Broadcast, ThreadStates

\* A submitted job is work of the request's ID.
LEMMA WorkOfType ==
    ASSUME NEW job \in Jobs, NEW request \in Nat
    PROVE  WorkOf(job, request) \in Work /\ WorkOf(job, request).request = request
BY JobsAssumption, ZeroTypes DEF WorkOf, Work, Job, NoWork

\* Slot numbers are legal values of index, whose zero means no slot.
LEMMA CapacityFacts == Capacity \in Nat /\ Slots \subseteq 0..Capacity /\ 0 \notin Slots
BY NThreadsAssumption, QueueAssumption DEF Capacity, Slots

\* A request in use was issued, within the bound.
LEMMA RequestInRange ==
    ASSUME AWTypeOK, UniqueRequests, NEW i \in Slots, state[i] # "FREE"
    PROVE  work[i].request \in 1..MaxRequest /\ work[i].request \in 1..issued
BY MaxRequestAssumption DEF AWTypeOK, UniqueRequests, SlotsIn

-----------------------------------------------------------------------------
(* The invariant is inductive. *)

LEMMA InitIInv == Init => IInv
<1> SUFFICES ASSUME Init PROVE IInv
  OBVIOUS
<1> USE NThreadsAssumption, QueueAssumption, MaxRequestAssumption, ZeroTypes DEF Init
<1>1. AWTypeOK
  <2>1. state \in [Slots -> States] /\ cancelled \in [Slots -> BOOLEAN] /\ work \in [Slots -> Work]
    BY DEF States
  <2>2. threads \in [Threads -> ThreadStates] /\ local \in [Threads -> Work]
    BY DEF ThreadStates
  <2>3. index \in [Threads -> 0..Capacity]
    BY DEF Capacity
  <2>4. threadCount \in 0..NThreads /\ issued \in 0..MaxRequest /\ asked \in [1..MaxRequest -> Work]
    OBVIOUS
  <2> QED BY <2>1, <2>2, <2>3, <2>4 DEF AWTypeOK
<1>2. SlotOwnership /\ UniqueRequests
  BY DEF SlotOwnership, UniqueRequests, SlotsIn, Running
<1>3. SlotShape /\ ThreadShape /\ Lifecycle
  BY DEF SlotShape, ThreadShape, Lifecycle, Threads
<1> QED BY <1>1, <1>2, <1>3 DEF IInv

LEMMA PickIInv ==
    ASSUME IInv, NEW t \in Threads, NEW i \in Slots, Pick(t, i)
    PROVE  IInv'
<1> USE DEF IInv
<1>1. state[i] = "QUEUED" /\ threads[t] = "ready" /\ work[i] \in Work
  BY DEF Pick, Oldest, AWTypeOK
<1>2. IdsOf(work[i]) \in Work /\ IdsOf(work[i]).request = work[i].request /\ ~Secret(IdsOf(work[i]))
  BY <1>1, IdsOfFacts
<1>3. /\ threads' \in [Threads -> ThreadStates]
      /\ \A u \in Threads : /\ threads'[u] = "running" <=> (threads[u] = "running" \/ u = t)
                            /\ threads'[u] = "none" <=> threads[u] = "none"
  <2> DEFINE ts == [threads EXCEPT ![t] = "running"]
  <2>1. /\ ts \in [Threads -> ThreadStates]
        /\ \A u \in Threads : ts[u] = IF u = t THEN "running" ELSE threads[u]
    BY DEF AWTypeOK, ThreadStates
  <2>2. threads' = Broadcast(ts)
    BY DEF Pick
  <2> HIDE DEF ts
  <2> QED BY BroadcastFacts, <1>1, <2>1, <2>2
<1>4. AWTypeOK'
  <2>1. state' \in [Slots -> States] /\ work' \in [Slots -> Work] /\ local' \in [Threads -> Work]
    BY <1>1, <1>2 DEF AWTypeOK, Pick, States
  <2>2. index' \in [Threads -> 0..Capacity]
    BY CapacityFacts DEF AWTypeOK, Pick
  <2> QED BY <1>3, <2>1, <2>2 DEF AWTypeOK, Pick
<1>5. SlotOwnership'
  <2>1. /\ state' = [state EXCEPT ![i] = "RUNNING"]
        /\ work' = [work EXCEPT ![i] = IdsOf(work[i])]
        /\ index' = [index EXCEPT ![t] = i]
        /\ local' = [local EXCEPT ![t] = work[i]]
    BY DEF Pick
  <2>2. \A u \in Threads : threads[u] = "running" => index[u] # i /\ u # t
    BY <1>1 DEF SlotOwnership, Running, SlotsIn
  <2>3. \A u \in Running' : index'[u] \in SlotsIn("RUNNING")' /\ work'[index'[u]].request = local'[u].request
    BY <1>1, <1>2, <1>3, <2>1, <2>2 DEF SlotOwnership, Running, SlotsIn, AWTypeOK
  <2>4. \A u, v \in Running' : index'[u] = index'[v] => u = v
    BY <1>3, <2>1, <2>2 DEF SlotOwnership, Running, AWTypeOK
  <2>5. \A j \in SlotsIn("RUNNING")' : \E u \in Running' : index'[u] = j
    <3> SUFFICES ASSUME NEW j \in SlotsIn("RUNNING")' PROVE \E u \in Running' : index'[u] = j
      OBVIOUS
    <3>1. CASE j = i
      BY <3>1, <1>3, <2>1 DEF Running, AWTypeOK
    <3>2. CASE j # i
      <4>1. PICK u \in Running : index[u] = j
        BY <3>2, <2>1 DEF SlotOwnership, SlotsIn, AWTypeOK
      <4> QED BY <4>1, <1>1, <1>3, <2>1 DEF Running, AWTypeOK
    <3> QED BY <3>1, <3>2
  <2> QED BY <2>3, <2>4, <2>5 DEF SlotOwnership
<1>6. UniqueRequests'
  BY <1>1, <1>2 DEF UniqueRequests, Pick, SlotsIn, AWTypeOK
<1>7. SlotShape'
  BY <1>1, <1>2 DEF SlotShape, Pick, AWTypeOK
<1>8. ThreadShape'
  <2>1. work[i] = asked[work[i].request] /\ work[i].request \in 1..MaxRequest
    BY <1>1, RequestInRange DEF SlotShape
  <2> QED BY <1>1, <1>3, <2>1 DEF ThreadShape, Pick, AWTypeOK
<1>9. Lifecycle'
  BY <1>1, <1>3 DEF Lifecycle, Pick, AWTypeOK
<1> QED BY <1>4, <1>5, <1>6, <1>7, <1>8, <1>9

\* Freeing slots nobody runs, marking running ones and waking or ending idle
\* threads keeps what the slots and the threads hold.
LEMMA ReleaseKeeps ==
    ASSUME IInv,
           state' \in [Slots -> States], cancelled' \in [Slots -> BOOLEAN], work' \in [Slots -> Work],
           \A i \in Slots :
               \/ /\ state[i] # "RUNNING"
                  /\ state'[i] = "FREE" /\ work'[i] = NoWork /\ cancelled'[i] = FALSE
               \/ /\ state'[i] = state[i] /\ work'[i] = work[i]
                  /\ state[i] # "RUNNING" => cancelled'[i] = cancelled[i],
           \A t \in Threads : threads'[t] = "running" <=> threads[t] = "running",
           UNCHANGED <<index, local, issued, asked>>
    PROVE  /\ SlotOwnership' /\ SlotShape' /\ ThreadShape'
           /\ \A i \in Slots \ SlotsIn("FREE")' : work'[i].request \in (1..issued) \ taken
           /\ \A i, j \in Slots \ SlotsIn("FREE")' : work'[i].request = work'[j].request => i = j
<1> USE DEF IInv
<1>1. Running' = Running
  BY DEF Running
<1>2. \A i \in Slots : state'[i] = "RUNNING" <=> state[i] = "RUNNING"
  OBVIOUS
<1>3. SlotOwnership'
  BY <1>1, <1>2 DEF SlotOwnership, SlotsIn
<1>4. SlotShape'
  BY DEF SlotShape
<1>5. ThreadShape'
  BY DEF ThreadShape
<1>6. \A i \in Slots : state'[i] # "FREE" => state[i] # "FREE" /\ work'[i] = work[i]
  OBVIOUS
<1>7. /\ \A i \in Slots \ SlotsIn("FREE")' : work'[i].request \in (1..issued) \ taken
      /\ \A i, j \in Slots \ SlotsIn("FREE")' : work'[i].request = work'[j].request => i = j
  BY <1>6 DEF UniqueRequests, SlotsIn
<1> QED BY <1>3, <1>4, <1>5, <1>7

\* Cleansing slots that are not running is such a release.
LEMMA CleanseReleases ==
    ASSUME IInv, NEW S, S \cap SlotsIn("RUNNING") = {}, Cleanse(S)
    PROVE  /\ state' \in [Slots -> States] /\ cancelled' \in [Slots -> BOOLEAN]
           /\ work' \in [Slots -> Work]
           /\ \A i \in Slots :
               \/ /\ state[i] # "RUNNING"
                  /\ state'[i] = "FREE" /\ work'[i] = NoWork /\ cancelled'[i] = FALSE
               \/ /\ state'[i] = state[i] /\ work'[i] = work[i]
                  /\ state[i] # "RUNNING" => cancelled'[i] = cancelled[i]
           /\ \A i \in Slots : i \in S => state'[i] = "FREE"
           /\ \A i \in Slots : i \notin S => state'[i] = state[i] /\ work'[i] = work[i]
BY ZeroTypes DEF IInv, AWTypeOK, Cleanse, SlotsIn, States

\* The steps of an idle thread.
LEMMA IdleIInv ==
    ASSUME IInv, NEW t \in Threads, Wait(t) \/ SpuriousWake(t) \/ Exit(t)
    PROVE  IInv'
<1>1. /\ UNCHANGED <<state, cancelled, work, stopping, threadCount, index, local, main,
                     issued, asked, dropped, taken>>
      /\ \E s \in {"ready", "waiting", "exited"} : threads' = [threads EXCEPT ![t] = s]
      /\ threads[t] \in {"ready", "waiting"}
  BY DEF Wait, SpuriousWake, Exit, slots
<1>2. /\ threads' \in [Threads -> ThreadStates]
      /\ \A u \in Threads : /\ threads'[u] = "running" <=> threads[u] = "running"
                            /\ threads'[u] = "none" <=> threads[u] = "none"
  BY <1>1 DEF IInv, AWTypeOK, ThreadStates
<1>3. AWTypeOK'
  BY <1>1, <1>2 DEF IInv, AWTypeOK
<1>4. SlotOwnership' /\ SlotShape' /\ ThreadShape'
  BY <1>1, <1>2, ReleaseKeeps DEF IInv, AWTypeOK
<1>5. UniqueRequests'
  BY <1>1 DEF IInv, UniqueRequests, SlotsIn
<1>6. Lifecycle'
  BY <1>1, <1>2 DEF IInv, Lifecycle
<1> QED BY <1>3, <1>4, <1>5, <1>6 DEF IInv

LEMMA StopIInv ==
    ASSUME IInv, Stop
    PROVE  IInv'
<1>1. /\ threads' \in [Threads -> ThreadStates]
      /\ \A u \in Threads : /\ threads'[u] = "running" <=> threads[u] = "running"
                            /\ threads'[u] = "none" <=> threads[u] = "none"
  BY BroadcastFacts DEF IInv, AWTypeOK, Stop
<1>2. /\ Cleanse(Stoppable) /\ Stoppable \cap SlotsIn("RUNNING") = {}
      /\ \A i \in Slots : i \in Stoppable \/ state[i] = "RUNNING"
  BY DEF Stop, Stoppable, SlotsIn
<1>3. UNCHANGED <<threadCount, index, local, issued, asked, dropped, taken>> /\ stopping' = TRUE /\ main' = "stop"
  BY DEF Stop
<1>4. AWTypeOK'
  <2>1. state' \in [Slots -> States] /\ cancelled' \in [Slots -> BOOLEAN] /\ work' \in [Slots -> Work]
    BY <1>2, CleanseReleases
  <2> QED BY <1>1, <1>3, <2>1 DEF IInv, AWTypeOK
<1>5. SlotOwnership' /\ SlotShape' /\ ThreadShape' /\ UniqueRequests'
  BY <1>1, <1>2, <1>3, CleanseReleases, ReleaseKeeps DEF UniqueRequests
<1>6. Lifecycle'
  <2>1. \A i \in Slots : state'[i] \in {"FREE", "RUNNING"} /\ (state[i] = "FREE" => state'[i] = "FREE")
    BY <1>2, CleanseReleases
  <2> QED BY <1>1, <1>3, <2>1 DEF IInv, Lifecycle
<1> QED BY <1>4, <1>5, <1>6 DEF IInv

LEMMA JoinIInv ==
    ASSUME IInv, Join
    PROVE  IInv'
<1>1. \A t \in Threads : threads[t] # "running"
  <2>1. \A t \in Threads : t \in 1..threadCount \/ t > threadCount
    BY NThreadsAssumption DEF IInv, AWTypeOK, Threads
  <2> QED BY <2>1 DEF IInv, Lifecycle, Join
<1>2. Slots \cap SlotsIn("RUNNING") = {}
  BY <1>1 DEF IInv, SlotOwnership, Running
<1>3. /\ Cleanse(Slots)
      /\ threads' = [t \in Threads |-> "none"] /\ threadCount' = 0 /\ main' = "client"
      /\ UNCHANGED <<stopping, index, local, issued, asked, dropped, taken>>
  BY DEF Join
<1>4. /\ threads' \in [Threads -> ThreadStates]
      /\ \A t \in Threads : threads'[t] = "running" <=> threads[t] = "running"
  BY <1>1, <1>3 DEF ThreadStates
<1>5. AWTypeOK'
  <2>1. threadCount' \in 0..NThreads
    BY <1>3, NThreadsAssumption
  <2>2. state' \in [Slots -> States] /\ cancelled' \in [Slots -> BOOLEAN] /\ work' \in [Slots -> Work]
    BY <1>2, <1>3, CleanseReleases
  <2> QED BY <1>3, <1>4, <2>1, <2>2 DEF IInv, AWTypeOK
<1>6. SlotOwnership' /\ SlotShape' /\ ThreadShape' /\ UniqueRequests'
  BY <1>2, <1>3, <1>4, CleanseReleases, ReleaseKeeps DEF UniqueRequests
<1>7. \A i \in Slots : state'[i] = "FREE"
  BY <1>2, <1>3, CleanseReleases
<1>8. Lifecycle'
  BY <1>3, <1>7 DEF IInv, Lifecycle, Threads
<1> QED BY <1>5, <1>6, <1>8 DEF IInv

LEMMA StartIInv ==
    ASSUME IInv, Start \/ CreateThread
    PROVE  IInv'
<1> USE NThreadsAssumption DEF IInv
<1>1. CASE Start
  <2>1. UNCHANGED <<state, cancelled, work, threadCount, threads, index, local, issued, asked, dropped, taken>>
        /\ stopping' = FALSE /\ main' = "start" /\ threadCount = 0
    BY <1>1 DEF Start, slots
  <2>2. AWTypeOK' /\ UniqueRequests' /\ SlotOwnership' /\ SlotShape' /\ ThreadShape'
    <3>1. AWTypeOK' /\ UniqueRequests'
      BY <2>1 DEF AWTypeOK, UniqueRequests, SlotsIn
    <3> QED BY <2>1, <3>1, ReleaseKeeps DEF AWTypeOK
  <2>3. Lifecycle'
    BY <2>1 DEF Lifecycle
  <2> QED BY <2>2, <2>3
<1>2. CASE CreateThread
  <2>1. /\ UNCHANGED <<state, cancelled, work, stopping, index, local, issued, asked, dropped, taken>>
        /\ threads' = [threads EXCEPT ![threadCount + 1] = "ready"]
        /\ threadCount' = threadCount + 1 /\ threadCount < NThreads /\ ~stopping
        /\ main' = IF threadCount + 1 = NThreads THEN "client" ELSE "start"
        /\ threadCount + 1 \in Threads /\ threads[threadCount + 1] = "none"
    BY <1>2 DEF CreateThread, slots, Lifecycle, Threads, AWTypeOK
  <2>2. /\ threads' \in [Threads -> ThreadStates]
        /\ \A u \in Threads : /\ threads'[u] = "running" <=> threads[u] = "running"
                              /\ threads'[u] = "none" <=> u > threadCount'
    BY <2>1 DEF AWTypeOK, ThreadStates, Lifecycle, Threads
  <2>3. AWTypeOK'
    BY <2>1, <2>2 DEF AWTypeOK
  <2>4. SlotOwnership' /\ SlotShape' /\ ThreadShape' /\ UniqueRequests'
    BY <2>1, <2>2, ReleaseKeeps DEF AWTypeOK, UniqueRequests
  <2>5. Lifecycle'
    BY <2>1, <2>2 DEF Lifecycle, AWTypeOK
  <2> QED BY <2>3, <2>4, <2>5
<1> QED BY <1>1, <1>2

LEMMA TakeIInv ==
    ASSUME IInv, NEW i \in Slots, Take(i)
    PROVE  IInv'
<1> USE DEF IInv
<1>1. /\ Cleanse({i}) /\ {i} \cap SlotsIn("RUNNING") = {} /\ state[i] = "DONE"
      /\ UNCHANGED <<stopping, threadCount, threads, index, local, main, issued, asked, dropped>>
      /\ taken' = taken \cup {work[i].request}
  BY DEF Take, FirstDone, SlotsIn
<1>2. work[i].request \in 1..issued
  BY <1>1, RequestInRange
<1>3. AWTypeOK'
  <2>1. state' \in [Slots -> States] /\ cancelled' \in [Slots -> BOOLEAN] /\ work' \in [Slots -> Work]
    BY <1>1, CleanseReleases
  <2> QED BY <1>1, <1>2, <2>1 DEF AWTypeOK
<1>4. /\ SlotOwnership' /\ SlotShape' /\ ThreadShape'
      /\ \A j \in Slots \ SlotsIn("FREE")' : work'[j].request \in (1..issued) \ taken
      /\ \A j, k \in Slots \ SlotsIn("FREE")' : work'[j].request = work'[k].request => j = k
  BY <1>1, CleanseReleases, ReleaseKeeps
<1>5. UniqueRequests'
  <2>1. \A j \in Slots : state'[j] # "FREE" => work'[j].request # work[i].request
    <3>1. \A j \in Slots : state'[j] # "FREE" => j # i /\ state[j] # "FREE" /\ work'[j] = work[j]
      BY <1>1, CleanseReleases
    <3> QED BY <1>1, <3>1 DEF UniqueRequests, SlotsIn
  <2> QED BY <1>1, <1>4, <2>1 DEF UniqueRequests, SlotsIn
<1>6. Lifecycle'
  BY <1>1, CleanseReleases DEF Lifecycle
<1> QED BY <1>3, <1>4, <1>5, <1>6

LEMMA CancelIInv ==
    ASSUME IInv, NEW request \in 1..issued, Cancel(request)
    PROVE  IInv'
<1> USE DEF IInv
<1>1. /\ state' \in [Slots -> States] /\ cancelled' \in [Slots -> BOOLEAN] /\ work' \in [Slots -> Work]
      /\ \A i \in Slots :
            \/ /\ state[i] # "RUNNING"
               /\ state'[i] = "FREE" /\ work'[i] = NoWork /\ cancelled'[i] = FALSE
            \/ /\ state'[i] = state[i] /\ work'[i] = work[i]
               /\ state[i] # "RUNNING" => cancelled'[i] = cancelled[i]
  <2> DEFINE gone == {i \in Slots : state[i] # "FREE" /\ work[i].request = request} \ SlotsIn("RUNNING")
             mine == {i \in Slots : state[i] # "FREE" /\ work[i].request = request}
  <2>1. /\ state' = [i \in Slots |-> IF i \in gone THEN "FREE" ELSE state[i]]
        /\ work' = [i \in Slots |-> IF i \in gone THEN NoWork ELSE work[i]]
        /\ cancelled' = [i \in Slots |-> IF i \in gone THEN FALSE
                                          ELSE IF i \in mine THEN TRUE ELSE cancelled[i]]
    BY DEF Cancel, CancelSlots
  <2>2. \A i \in Slots : i \in gone <=> i \in mine /\ state[i] # "RUNNING"
    BY DEF SlotsIn
  <2>4. state' \in [Slots -> States] /\ work' \in [Slots -> Work]
    BY <2>1, ZeroTypes DEF AWTypeOK, States
  <2>5. cancelled' \in [Slots -> BOOLEAN]
    BY <2>1 DEF AWTypeOK
  <2> HIDE DEF gone, mine
  <2> QED BY <2>1, <2>2, <2>4, <2>5
<1>2. UNCHANGED <<stopping, threadCount, index, local, main, issued, asked, taken>>
      /\ dropped' = dropped \cup {request} /\ threads' = Broadcast(threads)
  BY DEF Cancel
<1>3. /\ threads' \in [Threads -> ThreadStates]
      /\ \A u \in Threads : /\ threads'[u] = "running" <=> threads[u] = "running"
                            /\ threads'[u] = "none" <=> threads[u] = "none"
  BY <1>2, BroadcastFacts DEF AWTypeOK
<1>4. AWTypeOK'
  BY <1>1, <1>2, <1>3 DEF AWTypeOK
<1>5. SlotOwnership' /\ SlotShape' /\ ThreadShape' /\ UniqueRequests'
  BY <1>1, <1>2, <1>3, ReleaseKeeps DEF UniqueRequests
<1>6. Lifecycle'
  BY <1>1, <1>2, <1>3 DEF Lifecycle
<1> QED BY <1>4, <1>5, <1>6

LEMMA SubmitIInv ==
    ASSUME IInv, NEW job \in Jobs, Submit(job)
    PROVE  IInv'
<1> USE MaxRequestAssumption DEF IInv
<1> DEFINE r == issued + 1
           w == WorkOf(job, r)
<1>1. r \in 1..MaxRequest /\ r \in Nat /\ issued \in 0..MaxRequest /\ issued' = r
  BY DEF Submit, AWTypeOK
<1>2. w \in Work /\ w.request = r
  BY <1>1, WorkOfType
<1>3. PICK i \in Slots : Available(i) /\ Enqueue(i, w)
  BY DEF Submit
<1>4. /\ state' = [state EXCEPT ![i] = "QUEUED"] /\ work' = [work EXCEPT ![i] = w]
      /\ state[i] = "FREE" /\ cancelled' = cancelled /\ asked' = [asked EXCEPT ![r] = w]
      /\ UNCHANGED <<stopping, threadCount, index, local, main, dropped, taken>>
      /\ threads' = Broadcast(threads) /\ threadCount = NThreads /\ ~stopping
  BY <1>3 DEF Submit, Available, Enqueue, MayAccept
<1> HIDE DEF w, r
<1>5. /\ threads' \in [Threads -> ThreadStates]
      /\ \A u \in Threads : /\ threads'[u] = "running" <=> threads[u] = "running"
                            /\ threads'[u] = "none" <=> threads[u] = "none"
  BY <1>4, BroadcastFacts DEF AWTypeOK
<1>6. AWTypeOK'
  <2>1. state' \in [Slots -> States] /\ work' \in [Slots -> Work] /\ asked' \in [1..MaxRequest -> Work]
    BY <1>1, <1>2, <1>4 DEF AWTypeOK, States
  <2>2. 1..issued \subseteq 1..r
    BY <1>1 DEF r
  <2>3. dropped \subseteq 1..r /\ taken \subseteq 1..r
    BY <2>2, Zenon DEF AWTypeOK
  <2>4. r \in 0..MaxRequest
    BY <1>1
  <2> QED BY <1>1, <1>4, <1>5, <2>1, <2>3, <2>4 DEF AWTypeOK
\* The request is new: no slot, thread or history names it.
<1>7. \A j \in Slots : state[j] # "FREE" =>
          work[j].request \in 1..MaxRequest /\ work[j].request \in 1..issued /\ work[j].request # r
  <2>1. r \notin 1..issued
    BY <1>1 DEF r
  <2> QED BY <2>1, RequestInRange
<1>8. SlotOwnership'
  BY <1>3, <1>4, <1>5 DEF SlotOwnership, SlotsIn, Running, AWTypeOK
<1>9. UniqueRequests'
  <2>1. r \in 1..r /\ 1..issued \subseteq 1..r /\ \A q \in 1..issued : q # r
    BY <1>1 DEF r
  <2>2. r \notin taken
    BY <1>1, <2>1 DEF AWTypeOK
  <2> QED BY <1>1, <1>2, <1>3, <1>4, <1>7, <2>1, <2>2 DEF UniqueRequests, SlotsIn, AWTypeOK
<1>10. SlotShape'
  BY <1>1, <1>2, <1>3, <1>4, <1>7 DEF SlotShape, AWTypeOK
<1>11. ThreadShape'
  <2>1. \A u \in Threads : threads[u] = "running" => local[u].request # r
    BY <1>7 DEF SlotOwnership, Running, SlotsIn
  <2> QED BY <1>1, <1>4, <1>5, <2>1 DEF ThreadShape, AWTypeOK
<1>12. Lifecycle'
  BY <1>4, <1>5, NThreadsAssumption DEF Lifecycle, AWTypeOK
<1> QED BY <1>6, <1>8, <1>9, <1>10, <1>11, <1>12

LEMMA RefusedIInv ==
    ASSUME IInv, SubmitRefused
    PROVE  IInv'
<1> USE MaxRequestAssumption DEF IInv
<1>1. /\ UNCHANGED <<state, cancelled, work, stopping, threadCount, threads, index, local, main,
                     asked, dropped, taken>>
      /\ issued' = issued + 1 /\ issued \in 0..MaxRequest /\ issued < MaxRequest
  BY DEF SubmitRefused, slots, AWTypeOK
<1>2. issued' \in 0..MaxRequest /\ 1..issued \subseteq 1..issued'
  BY <1>1
<1>3. AWTypeOK' /\ UniqueRequests'
  BY <1>1, <1>2 DEF AWTypeOK, UniqueRequests, SlotsIn
<1>4. SlotOwnership' /\ SlotShape' /\ ThreadShape' /\ Lifecycle'
  BY <1>1 DEF SlotOwnership, SlotShape, ThreadShape, Lifecycle, SlotsIn, Running
<1> QED BY <1>3, <1>4

LEMMA FinishIInv ==
    ASSUME IInv, NEW t \in Threads, Finish(t)
    PROVE  IInv'
<1> USE DEF IInv
<1> DEFINE i == index[t]
<1>1. /\ threads[t] = "running" /\ i \in Slots /\ state[i] = "RUNNING"
      /\ work[i].request = local[t].request /\ local[t] \in Work
      /\ local[t] = asked[local[t].request] /\ local[t].request \in 1..MaxRequest
  BY DEF Finish, SlotOwnership, SlotsIn, Running, ThreadShape, AWTypeOK
<1>2. \A u \in Threads : threads[u] = "running" /\ u # t => index[u] # i
  BY <1>1 DEF SlotOwnership, Running
<1>3. /\ threads' \in [Threads -> ThreadStates]
      /\ \A u \in Threads : /\ threads'[u] = "running" <=> threads[u] = "running" /\ u # t
                            /\ threads'[u] = "none" <=> threads[u] = "none"
  <2> DEFINE ts == [threads EXCEPT ![t] = "ready"]
  <2>1. /\ ts \in [Threads -> ThreadStates]
        /\ \A u \in Threads : ts[u] = IF u = t THEN "ready" ELSE threads[u]
    BY DEF AWTypeOK, ThreadStates
  <2>2. threads' = Broadcast(ts)
    BY DEF Finish
  <2> HIDE DEF ts
  <2> QED BY BroadcastFacts, <1>1, <2>1, <2>2
<1>4. /\ index' = [index EXCEPT ![t] = 0] /\ local' = [local EXCEPT ![t] = NoWork]
      /\ UNCHANGED <<stopping, threadCount, main, issued, asked, dropped, taken>>
  BY DEF Finish
\* The slot becomes free, or holds an answer to the request it ran for.
<1>5. /\ state' \in [Slots -> States] /\ cancelled' \in [Slots -> BOOLEAN] /\ work' \in [Slots -> Work]
      /\ \A j \in Slots : j # i => state'[j] = state[j] /\ cancelled'[j] = cancelled[j] /\ work'[j] = work[j]
      /\ cancelled'[i] = FALSE
      /\ \/ state'[i] = "FREE" /\ work'[i] = NoWork
         \/ /\ state'[i] = "DONE" /\ ~stopping
            /\ work'[i].request = work[i].request /\ work'[i] \in Executed(local[t])
  <2>1. PICK w \in Executed(local[t]) : IF stopping \/ cancelled[i] THEN Cleanse({i}) ELSE Done(i, w)
    BY DEF Finish
  <2>2. w \in Work /\ w.request = local[t].request
    BY <1>1, ExecutedFacts
  <2> HIDE DEF i
  <2>3. CASE stopping \/ cancelled[i]
    <3>1. Cleanse({i})
      BY <2>1, <2>3
    <3>2. state' \in [Slots -> States] /\ cancelled' \in [Slots -> BOOLEAN] /\ work' \in [Slots -> Work]
      BY <3>1, ZeroTypes DEF Cleanse, AWTypeOK, States
    <3>3. /\ \A j \in Slots : j # i => /\ state'[j] = state[j] /\ cancelled'[j] = cancelled[j]
                                     /\ work'[j] = work[j]
          /\ cancelled'[i] = FALSE /\ state'[i] = "FREE" /\ work'[i] = NoWork
      BY <1>1, <3>1 DEF Cleanse, AWTypeOK
    <3> QED BY <3>2, <3>3
  <2>4. CASE ~(stopping \/ cancelled[i])
    <3>1. Done(i, w)
      BY <2>1, <2>4
    <3> QED BY <1>1, <2>2, <2>4, <3>1, SMTT(30) DEF Done, AWTypeOK, States
  <2> QED BY <2>3, <2>4
<1> HIDE DEF i
<1>6. AWTypeOK'
  <2>1. index' \in [Threads -> 0..Capacity] /\ local' \in [Threads -> Work]
    BY <1>4, CapacityFacts, ZeroTypes DEF AWTypeOK
  <2> QED BY <1>3, <1>4, <1>5, <2>1 DEF AWTypeOK
<1>7. SlotOwnership'
  <2>1. \A u \in Running' : /\ u \in Running /\ u # t /\ index'[u] = index[u] /\ local'[u] = local[u]
                            /\ index[u] # i
    BY <1>2, <1>3, <1>4 DEF Running, AWTypeOK
  <2>2. \A u \in Running' : index'[u] \in SlotsIn("RUNNING")' /\ work'[index'[u]].request = local'[u].request
    BY <1>5, <2>1 DEF SlotOwnership, SlotsIn
  <2>3. \A u, v \in Running' : index'[u] = index'[v] => u = v
    BY <2>1 DEF SlotOwnership
  <2>4. \A j \in SlotsIn("RUNNING")' : \E u \in Running' : index'[u] = j
    <3> SUFFICES ASSUME NEW j \in SlotsIn("RUNNING")' PROVE \E u \in Running' : index'[u] = j
      OBVIOUS
    <3>1. j # i /\ j \in SlotsIn("RUNNING")
      BY <1>5 DEF SlotsIn
    <3>2. PICK u \in Running : index[u] = j
      BY <3>1 DEF SlotOwnership
    <3>3. u # t
      BY <3>1, <3>2 DEF i
    <3> QED BY <1>3, <1>4, <3>2, <3>3 DEF Running, AWTypeOK
  <2> QED BY <2>2, <2>3, <2>4 DEF SlotOwnership
<1>8. UniqueRequests'
  <2>1. \A j \in Slots : state'[j] # "FREE" => state[j] # "FREE" /\ work'[j].request = work[j].request
    BY <1>1, <1>5
  <2> QED BY <1>4, <2>1 DEF UniqueRequests, SlotsIn
<1>9. SlotShape'
  BY <1>1, <1>4, <1>5 DEF SlotShape
<1>10. ThreadShape'
  BY <1>3, <1>4 DEF ThreadShape, AWTypeOK
<1>11. Lifecycle'
  BY <1>1, <1>3, <1>4, <1>5 DEF Lifecycle
<1> QED BY <1>6, <1>7, <1>8, <1>9, <1>10, <1>11

THEOREM Inductive == IInv /\ [Next]_vars => IInv'
<1> SUFFICES ASSUME IInv, [Next]_vars PROVE IInv'
  OBVIOUS
<1>1. CASE WorkerNext
  BY <1>1, PickIInv, IdleIInv, FinishIInv DEF WorkerNext
<1>2. CASE ClientNext
  BY <1>2, StartIInv, StopIInv, JoinIInv, SubmitIInv, RefusedIInv, TakeIInv, CancelIInv
     DEF ClientNext, CreateThreadFails, ClientStops
<1>3. CASE UNCHANGED vars
  BY <1>3 DEF vars, IInv, AWTypeOK, SlotOwnership, UniqueRequests, SlotShape, ThreadShape,
              Lifecycle, SlotsIn, Running
<1> QED BY <1>1, <1>2, <1>3 DEF Next

LEMMA Invariance == Spec => []IInv
BY InitIInv, Inductive, PTL DEF Spec

\* Every variable keeps its type, whatever the pool is asked to do.
THEOREM TypeCorrect == Spec => []AWTypeOK
<1>1. IInv => AWTypeOK
  BY DEF IInv
<1> QED BY <1>1, Invariance, PTL

\* A worker owns the slot it runs for until it writes the result back.
THEOREM Ownership == Spec => []SlotOwnership
<1>1. IInv => SlotOwnership
  BY DEF IInv
<1> QED BY <1>1, Invariance, PTL

\* The slots in use carry distinct, issued, untaken requests.
THEOREM Uniqueness == Spec => []UniqueRequests
<1>1. IInv => UniqueRequests
  BY DEF IInv
<1> QED BY <1>1, Invariance, PTL

\* Every result waiting to be taken answers the work of its request.
THEOREM Answers == Spec => []AnswersTheQuestion
<1>1. IInv => AnswersTheQuestion
  BY DEF IInv, SlotShape, AnswersTheQuestion, SlotsIn
<1> QED BY <1>1, Invariance, PTL

\* Plaintext passwords are only in queued slots and running copies.
THEOREM Secrecy == Spec => []SecretsContained
<1>1. IInv => SecretsContained
  <2> SUFFICES ASSUME IInv PROVE SecretsContained
    OBVIOUS
  <2>1. \A i \in Slots : Secret(work[i]) => state[i] = "QUEUED"
    <3> SUFFICES ASSUME NEW i \in Slots, state[i] # "QUEUED" PROVE ~Secret(work[i])
      OBVIOUS
    <3>1. state[i] \in {"FREE", "RUNNING", "DONE"}
      BY DEF IInv, AWTypeOK, States
    <3>2. CASE state[i] = "FREE"
      BY <3>2, ZeroTypes DEF IInv, SlotShape
    <3>3. CASE state[i] = "RUNNING"
      BY <3>3 DEF IInv, SlotShape
    <3>4. CASE state[i] = "DONE"
      <4>1. asked[work[i].request] \in Work /\ work[i] \in Executed(asked[work[i].request])
        BY <3>4, RequestInRange DEF IInv, AWTypeOK, SlotShape
      <4> QED BY <4>1, ExecutedFacts
    <3> QED BY <3>1, <3>2, <3>3, <3>4
  <2>2. \A t \in Threads : Secret(local[t]) => t \in Running
    BY ZeroTypes DEF IInv, ThreadShape, Running
  <2>3. threadCount = 0 => SlotsIn("FREE") = Slots /\ \A i \in Slots : work[i] = NoWork
    BY DEF IInv, Lifecycle, SlotShape, SlotsIn
  <2> QED BY <2>1, <2>2, <2>3 DEF SecretsContained
<1> QED BY <1>1, Invariance, PTL

-----------------------------------------------------------------------------
(* Wakeups and order. *)

\* After a broadcast no thread sleeps.
LEMMA BroadcastWakes ==
    ASSUME NEW ts, NEW t \in Threads
    PROVE  Broadcast(ts)[t] # "waiting"
BY DEF Broadcast

LEMMA WakeupStep == IInv /\ NoLostWakeup /\ [Next]_vars => NoLostWakeup'
<1> SUFFICES ASSUME IInv, NoLostWakeup, [Next]_vars,
                    NEW t \in Threads, threads'[t] = "waiting"
             PROVE  ~stopping' /\ SlotsIn("QUEUED")' = {}
  BY DEF NoLostWakeup
<1>1. ASSUME NEW ts, threads' = Broadcast(ts) PROVE FALSE
  BY <1>1, BroadcastWakes
<1>2. CASE WorkerNext
  <2>1. PICK u \in Threads : (\E i \in Slots : Pick(u, i)) \/ Wait(u) \/ SpuriousWake(u) \/ Exit(u) \/ Finish(u)
    BY <1>2 DEF WorkerNext
  <2>2. CASE Wait(u)
    BY <2>2 DEF Wait, slots, SlotsIn
  <2>3. CASE SpuriousWake(u) \/ Exit(u)
    BY <2>3 DEF SpuriousWake, Exit, slots, SlotsIn, NoLostWakeup, IInv, AWTypeOK
  <2>4. ~(\E i \in Slots : Pick(u, i)) /\ ~Finish(u)
    BY <1>1 DEF Pick, Finish
  <2> QED BY <2>1, <2>2, <2>3, <2>4
<1>3. CASE ClientNext
  <2>1. CASE Start \/ Join
    <3>1. threads'[t] = "none"
      BY <2>1, NThreadsAssumption DEF Start, Join, IInv, Lifecycle, AWTypeOK, Threads
    <3> QED BY <3>1
  <2>2. CASE CreateThread
    BY <2>2, NThreadsAssumption DEF CreateThread, slots, SlotsIn, NoLostWakeup, IInv, AWTypeOK
  <2>3. CASE SubmitRefused
    BY <2>3 DEF SubmitRefused, slots, SlotsIn, NoLostWakeup
  <2>4. CASE \E i \in Slots : Take(i)
    <3>1. PICK i \in Slots : Take(i)
      BY <2>4
    <3>2. /\ \A j \in Slots : state'[j] = "QUEUED" => state[j] = "QUEUED"
          /\ stopping' = stopping /\ threads' = threads
      BY <3>1 DEF Take, Cleanse
    <3> QED BY <3>2 DEF NoLostWakeup, SlotsIn
  <2>5. ~CreateThreadFails /\ ~ClientStops
    BY <1>1 DEF CreateThreadFails, ClientStops, Stop
  <2>6. ~(\E job \in Jobs : Submit(job)) /\ ~(\E r \in 1..issued : Cancel(r))
    BY <1>1 DEF Submit, Cancel
  <2> QED BY <1>3, <2>1, <2>2, <2>3, <2>4, <2>5, <2>6 DEF ClientNext
<1>4. CASE UNCHANGED vars
  BY <1>4 DEF vars, NoLostWakeup, SlotsIn
<1> QED BY <1>2, <1>3, <1>4 DEF Next

\* No broadcast is missing: a thread never sleeps while there is work to do
\* or a stop to obey.
THEOREM Wakeups == Spec => []NoLostWakeup
<1>1. Init => NoLostWakeup
  BY DEF Init, NoLostWakeup
<1> QED BY <1>1, WakeupStep, Invariance, PTL DEF Spec

\* Only a worker starts work.
LEMMA OnlyPickStarts ==
    ASSUME IInv, [Next]_vars, NEW i \in Slots, state[i] = "QUEUED", state'[i] = "RUNNING"
    PROVE  \E t \in Threads : Pick(t, i)
<1>1. CASE WorkerNext
  <2>1. PICK u \in Threads : (\E k \in Slots : Pick(u, k)) \/ Wait(u) \/ SpuriousWake(u) \/ Exit(u) \/ Finish(u)
    BY <1>1 DEF WorkerNext
  <2>2. CASE \E k \in Slots : Pick(u, k)
    <3>1. PICK k \in Slots : Pick(u, k)
      BY <2>2
    <3>2. k = i
      BY <3>1 DEF Pick, IInv, AWTypeOK
    <3> QED BY <3>1, <3>2
  <2>3. ~(Wait(u) \/ SpuriousWake(u) \/ Exit(u))
    BY DEF Wait, SpuriousWake, Exit, slots
  <2>4. ~Finish(u)
    <3> SUFFICES ASSUME Finish(u) PROVE state'[i] # "RUNNING"
      OBVIOUS
    <3>1. CASE Cleanse({index[u]})
      BY <3>1 DEF Cleanse
    <3>2. CASE \E w \in Executed(local[u]) : Done(index[u], w)
      BY <3>2 DEF Done, IInv, AWTypeOK
    <3> QED BY <3>1, <3>2 DEF Finish
  <2> QED BY <2>1, <2>2, <2>3, <2>4
<1>2. CASE ClientNext
  <2>1. ~(Start \/ CreateThread \/ SubmitRefused)
    BY DEF Start, CreateThread, SubmitRefused, slots
  <2>2. ~(CreateThreadFails \/ ClientStops \/ Join)
    BY DEF CreateThreadFails, ClientStops, Stop, Join, Cleanse
  <2>3. ~(\E k \in Slots : Take(k))
    BY DEF Take, Cleanse
  <2>4. ~(\E job \in Jobs : Submit(job))
    BY DEF Submit, Enqueue, IInv, AWTypeOK
  <2>5. ~(\E r \in 1..issued : Cancel(r))
    <3> SUFFICES ASSUME NEW r, Cancel(r) PROVE state'[i] # "RUNNING"
      OBVIOUS
    <3> DEFINE gone == {k \in Slots : state[k] # "FREE" /\ work[k].request = r} \ SlotsIn("RUNNING")
    <3>1. state' = [k \in Slots |-> IF k \in gone THEN "FREE" ELSE state[k]]
      BY DEF Cancel, CancelSlots
    <3> HIDE DEF gone
    <3> QED BY <3>1
  <2> QED BY <1>2, <2>1, <2>2, <2>3, <2>4, <2>5 DEF ClientNext
<1>3. CASE UNCHANGED vars
  BY <1>3 DEF vars
<1> QED BY <1>1, <1>2, <1>3 DEF Next

\* The pool is first come, first served.
THEOREM Order == Spec => StartsInOrder
<1>1. IInv /\ [Next]_vars =>
        [\A i \in Slots :
            state[i] = "QUEUED" /\ state'[i] = "RUNNING" =>
                \A j \in Slots : state'[j] = "QUEUED" =>
                    work[i].request < work'[j].request]_vars
  <2> SUFFICES ASSUME IInv, [Next]_vars,
                      NEW i \in Slots, state[i] = "QUEUED", state'[i] = "RUNNING",
                      NEW j \in Slots, state'[j] = "QUEUED"
               PROVE  work[i].request < work'[j].request
    OBVIOUS
  <2>1. PICK t \in Threads : Pick(t, i)
    BY OnlyPickStarts
  <2>2. j # i /\ state[j] = "QUEUED" /\ work'[j] = work[j] /\ work[i].request <= work[j].request
    BY <2>1 DEF Pick, Oldest, SlotsIn, IInv, AWTypeOK
  <2>3. work[i].request # work[j].request
    BY <2>2 DEF IInv, UniqueRequests, SlotsIn
  <2>4. work[i].request \in 1..MaxRequest /\ work[j].request \in 1..MaxRequest
    BY <2>2, RequestInRange DEF IInv
  <2> QED BY <2>2, <2>3, <2>4, MaxRequestAssumption
<1> QED BY <1>1, Invariance, PTL DEF Spec, StartsInOrder

-----------------------------------------------------------------------------
(* Refinement: every step of the pool is a step of the abstract service.   *)

\* A step that leaves the abstract state alone is a stuttering step of it.
LEMMA Stutters ==
    ASSUME Pending' = Pending, Answered' = Answered,
           UNCHANGED <<issued, dropped, taken>>
    PROVE  [Service!Next]_Service!vars
BY DEF Service!vars, Pending, Answered, Wanted, RequestsOf, SlotsIn

LEMMA RefineInit == Init => Service!Init
<1> SUFFICES ASSUME Init PROVE Service!Init
  OBVIOUS
<1>1. SlotsIn("QUEUED") = {} /\ SlotsIn("RUNNING") = {} /\ SlotsIn("DONE") = {}
  BY DEF Init, SlotsIn
<1>2. Pending = {} /\ Answered = {}
  BY <1>1 DEF Pending, Wanted, Answered, RequestsOf
<1> QED BY <1>2 DEF Init, Service!Init

\* When no slot changes in what the client wants, nothing changes for it.
LEMMA SameSlots ==
    ASSUME stopping' = stopping,
           \A i \in Slots : /\ i \in Wanted' <=> i \in Wanted
                            /\ state'[i] = "DONE" <=> state[i] = "DONE"
                            /\ i \in Wanted \/ state[i] = "DONE" => work'[i].request = work[i].request
    PROVE  Pending' = Pending /\ Answered' = Answered
<1>1. Wanted \subseteq Slots /\ Wanted' \subseteq Slots
  BY DEF Wanted, SlotsIn
<1>2. Wanted' = Wanted
  BY <1>1
<1>3. RequestsOf(Wanted)' = RequestsOf(Wanted)
  BY <1>1, <1>2 DEF RequestsOf
<1>4. Answered' = Answered
  BY DEF Answered, RequestsOf, SlotsIn
<1> QED BY <1>3, <1>4 DEF Pending

LEMMA RefineWorker ==
    ASSUME IInv, NEW t \in Threads,
           (\E i \in Slots : Pick(t, i)) \/ Wait(t) \/ SpuriousWake(t) \/ Exit(t) \/ Finish(t)
    PROVE  [Service!Next]_Service!vars
<1> USE DEF IInv
<1>1. CASE Wait(t) \/ SpuriousWake(t) \/ Exit(t)
  <2>1. UNCHANGED <<state, cancelled, work, stopping, issued, dropped, taken>>
    BY <1>1 DEF Wait, SpuriousWake, Exit, slots
  <2>2. Pending' = Pending /\ Answered' = Answered
    BY <2>1 DEF Pending, Answered, Wanted, RequestsOf, SlotsIn
  <2> QED BY <2>1, <2>2, Stutters
<1>2. CASE \E i \in Slots : Pick(t, i)
  <2>1. PICK i \in Slots : Pick(t, i)
    BY <1>2
  <2>2. /\ state[i] = "QUEUED" /\ work[i] \in Work
        /\ state' = [state EXCEPT ![i] = "RUNNING"] /\ work' = [work EXCEPT ![i] = IdsOf(work[i])]
        /\ UNCHANGED <<cancelled, stopping, issued, dropped, taken>>
    BY <2>1 DEF Pick, Oldest, AWTypeOK
  <2>3. \A j \in Slots : work'[j].request = work[j].request
    BY <2>2, IdsOfFacts DEF AWTypeOK
  <2>4. \A j \in Slots : (j \in Wanted' <=> j \in Wanted) /\ (state'[j] = "DONE" <=> state[j] = "DONE")
    BY <2>2 DEF AWTypeOK, Wanted, SlotsIn
  <2>5. Pending' = Pending /\ Answered' = Answered
    BY <2>2, <2>3, <2>4, SameSlots
  <2> QED BY <2>2, <2>5, Stutters
<1>3. CASE Finish(t)
  <2> DEFINE i == index[t]
  <2>1. /\ i \in Slots /\ state[i] = "RUNNING" /\ work[i].request = local[t].request
        /\ local[t] \in Work
    BY <1>3 DEF Finish, SlotOwnership, SlotsIn, Running, AWTypeOK
  <2>2. UNCHANGED <<stopping, issued, dropped, taken>>
    BY <1>3 DEF Finish
  <2>3. CASE stopping \/ cancelled[i]
    <3>1. Cleanse({i})
      BY <1>3, <2>3 DEF Finish
    <3> HIDE DEF i
    <3>2. CASE stopping
      <4>1. \A j \in Slots : state'[j] # "DONE" /\ state[j] # "DONE"
        BY <3>1, <3>2 DEF Lifecycle, Cleanse
      <4>2. Answered' = Answered
        BY <4>1 DEF Answered, RequestsOf, SlotsIn
      <4>3. Pending' = Pending
        BY <3>2, <2>2 DEF Pending
      <4> QED BY <2>2, <4>2, <4>3, Stutters
    <3>3. CASE cancelled[i]
      <4>1. \A j \in Slots : /\ j \in Wanted' <=> j \in Wanted
                             /\ state'[j] = "DONE" <=> state[j] = "DONE"
                             /\ j \in Wanted \/ state[j] = "DONE" => work'[j].request = work[j].request
        BY <2>1, <3>1, <3>3 DEF Cleanse, Wanted, SlotsIn, AWTypeOK
      <4> QED BY <2>2, <4>1, SameSlots, Stutters
    <3> QED BY <2>3, <3>2, <3>3
  <2>4. CASE ~stopping /\ ~cancelled[i]
    <3>1. PICK w \in Executed(local[t]) : Done(i, w)
      BY <1>3, <2>4 DEF Finish
    <3>2. w.request = work[i].request
      BY <2>1, ExecutedFacts
    <3> DEFINE r == work[i].request
    <3> HIDE DEF i
    <3>3. /\ state' = [state EXCEPT ![i] = "DONE"] /\ work' = [work EXCEPT ![i] = w]
          /\ cancelled' = cancelled
      BY <3>1 DEF Done
    <3>4. \A j \in Slots : work'[j].request = work[j].request
      BY <2>1, <3>2, <3>3 DEF AWTypeOK
    <3>5. /\ Wanted \subseteq Slots /\ i \in Wanted
          /\ Wanted' = Wanted \ {i} /\ SlotsIn("DONE")' = SlotsIn("DONE") \cup {i}
      BY <2>1, <2>4, <3>3 DEF Wanted, SlotsIn, AWTypeOK
    <3>6. \A j \in Slots : state[j] # "FREE" /\ j # i => work[j].request # r
      BY <2>1 DEF UniqueRequests, SlotsIn
    <3>7. \A j \in Wanted : state[j] # "FREE"
      BY DEF Wanted, SlotsIn
    <3>8. RequestsOf(Wanted)' = RequestsOf(Wanted) \ {r} /\ r \in RequestsOf(Wanted)
      BY <3>4, <3>5, <3>6, <3>7 DEF RequestsOf
    <3>9. Answered' = Answered \cup {r}
      BY <2>1, <3>4, <3>5 DEF Answered, RequestsOf, SlotsIn
    <3>10. r \in 1..MaxRequest
      BY <2>1, RequestInRange
    <3>11. Service!Answer(r)
      BY <2>2, <2>4, <3>8, <3>9 DEF Service!Answer, Pending
    <3> QED BY <3>10, <3>11 DEF Service!Next
  <2> QED BY <2>3, <2>4
<1> QED BY <1>1, <1>2, <1>3

LEMMA RefineLifecycle ==
    ASSUME IInv, Start \/ CreateThread \/ CreateThreadFails \/ ClientStops \/ Join
    PROVE  [Service!Next]_Service!vars
<1> USE DEF IInv
<1>1. CASE Start
  <2>1. UNCHANGED <<state, cancelled, work, issued, dropped, taken>> /\ threadCount = 0
    BY <1>1 DEF Start, slots
  <2>2. Wanted = {} /\ Wanted' = {}
    BY <2>1 DEF Lifecycle, Wanted, SlotsIn
  <2>3. Pending = {} /\ Pending' = {} /\ Answered' = Answered
    BY <2>1, <2>2 DEF Pending, Answered, RequestsOf, SlotsIn
  <2> QED BY <2>1, <2>3, Stutters
<1>2. CASE CreateThread
  <2>1. UNCHANGED <<state, cancelled, work, stopping, issued, dropped, taken>>
    BY <1>2 DEF CreateThread, slots
  <2>2. Pending' = Pending /\ Answered' = Answered
    BY <2>1 DEF Pending, Answered, Wanted, RequestsOf, SlotsIn
  <2> QED BY <2>1, <2>2, Stutters
<1>3. CASE CreateThreadFails \/ ClientStops
  <2>1. stopping' = TRUE /\ Cleanse(Stoppable) /\ UNCHANGED <<issued, dropped, taken>>
    BY <1>3 DEF CreateThreadFails, ClientStops, Stop
  <2>2. SlotsIn("DONE")' = {}
    BY <2>1 DEF Cleanse, Stoppable, SlotsIn
  <2>3. Pending' = {} /\ Answered' = {}
    BY <2>1, <2>2 DEF Pending, Answered, RequestsOf
  <2>4. Service!Shutdown
    BY <2>1, <2>3 DEF Service!Shutdown
  <2> QED BY <2>4 DEF Service!Next
<1>4. CASE Join
  <2>1. stopping /\ stopping' = TRUE /\ Cleanse(Slots) /\ UNCHANGED <<issued, dropped, taken>>
    BY <1>4 DEF Join, Lifecycle, AWTypeOK
  <2>2. SlotsIn("DONE") = {} /\ SlotsIn("DONE")' = {}
    BY <2>1 DEF Lifecycle, Cleanse, SlotsIn
  <2>3. Pending' = Pending /\ Answered' = Answered
    BY <2>1, <2>2 DEF Pending, Answered, RequestsOf
  <2> QED BY <2>1, <2>3, Stutters
<1> QED BY <1>1, <1>2, <1>3, <1>4

LEMMA RefineSubmit ==
    ASSUME IInv, NEW job \in Jobs, Submit(job)
    PROVE  [Service!Next]_Service!vars
<1> USE DEF IInv
<1> DEFINE w == WorkOf(job, issued + 1)
<1>1. w \in Work /\ w.request = issued + 1
  BY WorkOfType, MaxRequestAssumption DEF AWTypeOK
<1>2. PICK i \in Slots : Available(i) /\ Enqueue(i, w)
  BY DEF Submit
<1>3. /\ state' = [state EXCEPT ![i] = "QUEUED"] /\ work' = [work EXCEPT ![i] = w]
      /\ state[i] = "FREE" /\ UNCHANGED <<cancelled, stopping, dropped, taken>> /\ ~stopping
      /\ issued' = issued + 1 /\ issued < MaxRequest
  BY <1>2 DEF Submit, Available, Enqueue, MayAccept
<1> HIDE DEF w
<1>4. /\ Wanted \subseteq Slots \ {i} /\ Wanted' = Wanted \cup {i}
      /\ SlotsIn("DONE")' = SlotsIn("DONE") /\ SlotsIn("DONE") \subseteq Slots \ {i}
  BY <1>3 DEF Wanted, SlotsIn, AWTypeOK, SlotShape
<1>5. \A j \in Slots : work'[j] = IF j = i THEN w ELSE work[j]
  BY <1>3 DEF AWTypeOK
<1>6. RequestsOf(Wanted)' = RequestsOf(Wanted) \cup {issued + 1}
  BY <1>1, <1>4, <1>5 DEF RequestsOf
<1>7. Answered' = Answered
  BY <1>4, <1>5 DEF Answered, RequestsOf
<1>8. Service!Accept
  BY <1>3, <1>6, <1>7 DEF Service!Accept, Pending
<1> QED BY <1>8 DEF Service!Next

LEMMA RefineTake ==
    ASSUME IInv, NEW i \in Slots, Take(i)
    PROVE  [Service!Next]_Service!vars
<1> USE DEF IInv
<1> DEFINE r == work[i].request
<1>1. /\ Cleanse({i}) /\ state[i] = "DONE" /\ taken' = taken \cup {r}
      /\ UNCHANGED <<stopping, issued, dropped>>
  BY DEF Take, FirstDone
<1>2. \A j \in Slots : j # i => state'[j] = state[j] /\ cancelled'[j] = cancelled[j] /\ work'[j] = work[j]
  BY <1>1 DEF Cleanse
<1>3. /\ SlotsIn("DONE")' = SlotsIn("DONE") \ {i} /\ i \in SlotsIn("DONE")
      /\ Wanted' = Wanted /\ Wanted \subseteq Slots \ {i}
  BY <1>1 DEF Cleanse, SlotsIn, Wanted
<1>4. RequestsOf(Wanted)' = RequestsOf(Wanted)
  BY <1>2, <1>3 DEF RequestsOf
<1>5. \A j \in SlotsIn("DONE") \ {i} : j \in Slots /\ work[j].request # r
  BY <1>1 DEF UniqueRequests, SlotsIn
<1>6. Answered' = Answered \ {r} /\ r \in Answered
  BY <1>2, <1>3, <1>5 DEF Answered, RequestsOf
<1>7. r \in 1..MaxRequest
  BY <1>1, RequestInRange
<1>8. Service!Deliver(r)
  BY <1>1, <1>4, <1>6 DEF Service!Deliver, Pending
<1> QED BY <1>7, <1>8 DEF Service!Next

LEMMA RefineCancel ==
    ASSUME IInv, NEW r \in 1..issued, Cancel(r)
    PROVE  [Service!Next]_Service!vars
<1> USE DEF IInv
<1> DEFINE mine == {i \in Slots : state[i] # "FREE" /\ work[i].request = r}
           gone == mine \ SlotsIn("RUNNING")
<1>1. /\ state' = [i \in Slots |-> IF i \in gone THEN "FREE" ELSE state[i]]
      /\ work' = [i \in Slots |-> IF i \in gone THEN NoWork ELSE work[i]]
      /\ cancelled' = [i \in Slots |-> IF i \in gone THEN FALSE
                                       ELSE IF i \in mine THEN TRUE ELSE cancelled[i]]
      /\ UNCHANGED <<stopping, issued, taken>> /\ dropped' = dropped \cup {r}
  BY DEF Cancel, CancelSlots
<1>2. \A i \in Slots : /\ i \in gone <=> i \in mine /\ state[i] # "RUNNING"
                       /\ i \in mine <=> state[i] # "FREE" /\ work[i].request = r
  BY DEF SlotsIn
<1> HIDE DEF mine, gone
<1>3. \A i \in Slots : /\ i \in Wanted' <=> i \in Wanted /\ work[i].request # r
                       /\ state'[i] = "DONE" <=> state[i] = "DONE" /\ work[i].request # r
                       /\ i \in Wanted' \/ state'[i] = "DONE" => work'[i] = work[i]
  BY <1>1, <1>2 DEF Wanted, SlotsIn
<1>4. Wanted \subseteq Slots /\ Wanted' \subseteq Slots
  BY DEF Wanted, SlotsIn
<1>5. RequestsOf(Wanted)' = RequestsOf(Wanted) \ {r}
  BY <1>3, <1>4 DEF RequestsOf
<1>6. Answered' = Answered \ {r}
  BY <1>3 DEF Answered, RequestsOf, SlotsIn
<1>7. r \in 1..MaxRequest
  BY MaxRequestAssumption DEF AWTypeOK
<1>8. Service!Cancel(r)
  BY <1>1, <1>5, <1>6 DEF Service!Cancel, Pending
<1> QED BY <1>7, <1>8 DEF Service!Next

LEMMA RefineRefused ==
    ASSUME IInv, SubmitRefused
    PROVE  [Service!Next]_Service!vars
<1>1. /\ UNCHANGED <<state, cancelled, work, stopping, dropped, taken>>
      /\ issued' = issued + 1 /\ issued < MaxRequest
  BY DEF SubmitRefused, slots
<1>2. Pending' = Pending /\ Answered' = Answered
  BY <1>1 DEF Pending, Answered, Wanted, RequestsOf, SlotsIn
<1>3. Service!Refuse
  BY <1>1, <1>2 DEF Service!Refuse
<1> QED BY <1>3 DEF Service!Next

\* The pool implements the abstract authentication service: an accepted
\* request is answered at most once and never after its cancellation.
THEOREM Refinement == Spec => ImplementsService
<1>1. IInv /\ [Next]_vars => [Service!Next]_Service!vars
  <2> SUFFICES ASSUME IInv, [Next]_vars PROVE [Service!Next]_Service!vars
    OBVIOUS
  <2>1. CASE WorkerNext
    BY <2>1, RefineWorker DEF WorkerNext
  <2>2. CASE ClientNext
    BY <2>2, RefineLifecycle, RefineSubmit, RefineTake, RefineCancel, RefineRefused DEF ClientNext
  <2>3. CASE UNCHANGED vars
    BY <2>3 DEF vars, Service!vars, Pending, Answered, Wanted, RequestsOf, SlotsIn
  <2> QED BY <2>1, <2>2, <2>3 DEF Next
<1> QED BY <1>1, RefineInit, Invariance, PTL DEF Spec, ImplementsService, Service!Spec

-----------------------------------------------------------------------------
(* The budget of password work. *)

\* The rate, counting the tokens still in the bucket.  The seconds since
\* refill_time are not paid out yet; a clock behind refill_time owes a burst.
Balance ==
    /\ refill_time = 0 => total = 0 /\ tokens = Burst
    /\ refill_time # 0 /\ now >= refill_time =>
          Refill * (tokens + total) + (now - refill_time) <= Refill * (Burst * (1 + backs)) + forward
    /\ refill_time # 0 /\ now < refill_time =>
          Refill * (tokens + total) <= Refill * (Burst * backs) + forward

BudgetInv == ABTypeOK /\ Balance /\ ExactRefill

-----------------------------------------------------------------------------
(* Arithmetic with the refill period. *)

\* A sum times the refill period.
LEMMA Distribute == \A a, b \in Int : Refill * (a + b) = Refill * a + Refill * b
  BY BudgetAssumption

\* More tokens are worth more seconds.
LEMMA Monotone == \A a, b \in Int : a <= b => Refill * a <= Refill * b
  BY BudgetAssumption

\* One burst more.
LEMMA OneMore == \A n \in Nat : /\ Refill * (Burst * (1 + n)) = Refill * Burst + Refill * (Burst * n)
                                /\ Refill * (Burst * n) \in Nat
  BY BudgetAssumption

\* The whole periods of an elapsed time fit into it.
LEMMA Periods == \A e \in Nat : e \div Refill \in Nat /\ Refill * (e \div Refill) <= e
  BY BudgetAssumption

-----------------------------------------------------------------------------
(* What a question finds in the bucket. *)

\* The bucket stays within the burst and its time within the clock.
LEMMA RefilledType ==
  ASSUME ABTypeOK
  PROVE  /\ Refilled.tokens \in 0..Burst
         /\ Refilled.time \in 1..now
         /\ Refilled.fill \in BOOLEAN
<1> DEFINE refill == (now - refill_time) \div Refill
<1>1. CASE refill_time = 0 \/ now < refill_time \/ refill >= Burst
  BY <1>1, BudgetAssumption, TimeAssumption DEF ABTypeOK, Refilled
<1>2. CASE ~(refill_time = 0 \/ now < refill_time \/ refill >= Burst)
  <2>1. now - refill_time \in Nat
    BY <1>2, TimeAssumption DEF ABTypeOK
  <2>2. refill \in Nat /\ refill * Refill <= now - refill_time /\ refill * Refill \in Nat
    BY <2>1, Periods, BudgetAssumption
  <2>3. refill_time + refill * Refill \in 1..now
    BY <1>2, <2>2, TimeAssumption DEF ABTypeOK
  <2> QED
    BY <1>2, <2>2, <2>3, BudgetAssumption DEF ABTypeOK, Refilled
<1> QED
  BY <1>1, <1>2

\* A question never pays more than the seconds since the last one are worth.
LEMMA RefilledBalance ==
  ASSUME ABTypeOK, Balance
  PROVE  Refill * (Refilled.tokens + total) + (now - Refilled.time)
            <= Refill * (Burst * (1 + backs)) + forward
<1> DEFINE refill == (now - refill_time) \div Refill
<1> DEFINE limit == Refill * (Burst * (1 + backs))
<1>1. /\ Refill * (tokens + total) = Refill * tokens + Refill * total
      /\ Refill * (Burst + total) = Refill * Burst + Refill * total
      /\ Refill * tokens \in Nat /\ Refill * total \in Nat /\ Refill * Burst \in Nat
  BY Distribute, BudgetAssumption DEF ABTypeOK
<1>2. /\ limit = Refill * Burst + Refill * (Burst * backs)
      /\ Refill * (Burst * backs) \in Nat
  BY OneMore, TimeAssumption DEF ABTypeOK
<1>3. CASE refill_time = 0
  <2>1. Refilled = [tokens |-> Burst, time |-> now, fill |-> TRUE] /\ total = 0
    BY <1>3 DEF Refilled, Balance
  <2> QED
    BY <2>1, <1>2, BudgetAssumption, TimeAssumption DEF ABTypeOK
<1>4. CASE refill_time # 0 /\ now < refill_time
  <2>1. Refilled = [tokens |-> Burst, time |-> now, fill |-> TRUE]
    BY <1>4 DEF Refilled
  <2>2. Refill * (tokens + total) <= Refill * (Burst * backs) + forward
    BY <1>4 DEF Balance
  <2> QED
    BY <2>1, <2>2, <1>1, <1>2, TimeAssumption DEF ABTypeOK
<1>5. CASE refill_time # 0 /\ now >= refill_time
  <2>1. Refill * (tokens + total) + (now - refill_time) <= limit + forward
    BY <1>5 DEF Balance
  <2>2. now - refill_time \in Nat
    BY <1>5, TimeAssumption DEF ABTypeOK
  <2>3. refill \in Nat /\ Refill * refill <= now - refill_time /\ Refill * refill \in Nat
    BY <2>2, Periods, BudgetAssumption
  <2>4. CASE refill >= Burst
    <3>1. Refilled = [tokens |-> Burst, time |-> now, fill |-> TRUE]
      BY <2>4 DEF Refilled
    <3>2. Refill * Burst <= Refill * refill
      BY <2>3, <2>4, Monotone, BudgetAssumption
    <3> QED
      BY <3>1, <3>2, <2>1, <2>2, <2>3, <1>1, <1>2, TimeAssumption DEF ABTypeOK
  <2>5. CASE refill < Burst
    <3>1. /\ Refilled.time = refill_time + Refill * refill
          /\ Refilled.tokens \in Nat /\ Refilled.tokens <= tokens + refill
      BY <2>3, <2>5, <1>5, BudgetAssumption DEF ABTypeOK, Refilled
    <3>2. Refill * (Refilled.tokens + total) <= Refill * ((tokens + total) + refill)
      BY <3>1, <2>3, Monotone DEF ABTypeOK
    <3>3. Refill * ((tokens + total) + refill) = Refill * (tokens + total) + Refill * refill
      <4> DEFINE held == tokens + total
      <4>1. held \in Int
        BY DEF ABTypeOK
      <4> HIDE DEF held, refill
      <4>2. Refill * (held + refill) = Refill * held + Refill * refill
        BY <4>1, <2>3, Distribute
      <4> QED
        BY <4>2 DEF held
    <3>4. Refill * (Refilled.tokens + total) \in Int /\ Refill * (tokens + total) \in Int
      BY <3>1, BudgetAssumption DEF ABTypeOK
    <3> QED
      BY <3>1, <3>2, <3>3, <3>4, <2>1, <2>2, <2>3, <1>2, BudgetAssumption, TimeAssumption DEF ABTypeOK
  <2> QED
    BY <2>4, <2>5, <2>3, BudgetAssumption
<1> QED
  BY <1>3, <1>4, <1>5, TimeAssumption DEF ABTypeOK

\* A bucket that is not filled up gains what its periods are worth.
LEMMA RefilledExact ==
  ASSUME ABTypeOK, ExactRefill
  PROVE  Refilled.fill \/ /\ refill_time # 0
                          /\ Refill * (Refilled.tokens + spent)
                                = Refill * Burst + (Refilled.time - full)
<1> DEFINE refill == (now - refill_time) \div Refill
<1> DEFINE held == tokens + spent
<1> SUFFICES ASSUME ~Refilled.fill
             PROVE  /\ refill_time # 0
                    /\ Refill * (Refilled.tokens + spent) = Refill * Burst + (Refilled.time - full)
  OBVIOUS
<1>1. refill_time # 0 /\ now >= refill_time
  BY TimeAssumption DEF Refilled, ABTypeOK
<1>2. Refill * held = Refill * Burst + (refill_time - full)
  BY <1>1 DEF ExactRefill
<1>3. refill \in Nat
  BY <1>1, Periods, TimeAssumption DEF ABTypeOK
<1>4. Refilled.tokens = tokens + refill /\ Refilled.time = refill_time + Refill * refill
  BY <1>3, BudgetAssumption DEF Refilled, ABTypeOK
<1>5. held \in Int /\ Refill * Burst \in Int /\ Refill * refill \in Int
  BY <1>3, BudgetAssumption DEF ABTypeOK
<1>6. Refilled.tokens + spent = held + refill
  BY <1>3, <1>4 DEF ABTypeOK
<1> HIDE DEF held, refill
<1>7. Refill * (held + refill) = Refill * held + Refill * refill
  BY <1>3, <1>5, Distribute
<1> QED
  BY <1>1, <1>2, <1>4, <1>5, <1>6, <1>7, TimeAssumption DEF ABTypeOK

-----------------------------------------------------------------------------
(* The invariant. *)

\* The first state.
LEMMA InitHolds == BudgetInit => BudgetInv
  BY BudgetAssumption, TimeAssumption DEF BudgetInit, BudgetInv, ABTypeOK, Balance, ExactRefill

\* A question keeps the rate, whether it is granted or not.
LEMMA AskKeeps ==
  ASSUME BudgetInv, NEW cost \in Costs, Ask(cost)
  PROVE  BudgetInv'
<1> USE DEF BudgetInv
<1> DEFINE b == Refilled
<1> DEFINE granted == IF cost > b.tokens THEN 0 ELSE cost
<1>1. b.tokens \in 0..Burst /\ b.time \in 1..now /\ b.fill \in BOOLEAN
  BY RefilledType
<1>2. granted \in 0..b.tokens
  BY <1>1, BudgetAssumption
<1>3. /\ tokens' = b.tokens - granted
      /\ refill_time' = b.time
      /\ full' = IF b.fill THEN b.time ELSE full
      /\ spent' = (IF b.fill THEN 0 ELSE spent) + granted
      /\ total' = total + granted
      /\ UNCHANGED <<now, backs, forward>>
  BY DEF Ask
<1>4. Refill * (b.tokens + total) + (now - b.time) <= Refill * (Burst * (1 + backs)) + forward
  BY RefilledBalance
<1>5. b.fill \/ Refill * (b.tokens + spent) = Refill * Burst + (b.time - full)
  BY RefilledExact
<1> HIDE DEF b, granted
<1>6. ABTypeOK'
  BY <1>1, <1>2, <1>3, TimeAssumption, BudgetAssumption DEF ABTypeOK
<1>7. Balance'
  <2>1. tokens' + total' = b.tokens + total
    BY <1>1, <1>2, <1>3 DEF ABTypeOK
  <2>2. refill_time' # 0 /\ now' >= refill_time'
    BY <1>1, <1>3, TimeAssumption DEF ABTypeOK
  <2> QED
    BY <2>1, <2>2, <1>1, <1>3, <1>4, TimeAssumption DEF Balance, ABTypeOK
<1>8. ExactRefill'
  <2>1. CASE b.fill
    <3>1. tokens' + spent' = b.tokens /\ refill_time' - full' = 0
      BY <2>1, <1>1, <1>2, <1>3, TimeAssumption DEF ABTypeOK
    <3>2. b.tokens = Burst
      BY <2>1, BudgetAssumption DEF b, Refilled
    <3> QED
      BY <3>1, <3>2, BudgetAssumption DEF ExactRefill
  <2>2. CASE ~b.fill
    <3>1. tokens' + spent' = b.tokens + spent /\ refill_time' - full' = b.time - full
      BY <2>2, <1>1, <1>2, <1>3, TimeAssumption DEF ABTypeOK
    <3> QED
      BY <3>1, <2>2, <1>5 DEF ExactRefill
  <2> QED
    BY <2>1, <2>2
<1> QED
  BY <1>6, <1>7, <1>8

\* The clock moves.
LEMMA ClockKeeps ==
  ASSUME BudgetInv, NEW d \in 1..MaxTime, Forward(d) \/ Back(d)
  PROVE  BudgetInv'
<1> USE DEF BudgetInv
<1> DEFINE worth == Refill * (tokens + total)
<1> DEFINE limit(n) == Refill * (Burst * n)
<1>1. ABTypeOK'
  BY TimeAssumption DEF ABTypeOK, Forward, Back
<1>2. ExactRefill'
  BY DEF ExactRefill, Forward, Back
<1>3. /\ worth \in Int /\ \A n \in Nat : limit(n) \in Nat /\ limit(n + 1) >= limit(n)
      /\ worth' = worth /\ limit(backs + 1) = Refill * (Burst * (1 + backs))
  <2>1. /\ worth \in Int /\ worth' = worth /\ limit(backs + 1) = Refill * (Burst * (1 + backs))
    BY BudgetAssumption DEF ABTypeOK, Forward, Back
  <2>2. ASSUME NEW n \in Nat
        PROVE  limit(n) \in Nat /\ limit(n + 1) >= limit(n)
    BY OneMore, BudgetAssumption
  <2> QED
    BY <2>1, <2>2
<1>4. /\ refill_time # 0 /\ now >= refill_time =>
            worth + (now - refill_time) <= limit(backs + 1) + forward
      /\ refill_time # 0 /\ now < refill_time => worth <= limit(backs) + forward
  BY <1>3 DEF Balance
<1>5. /\ Refill * (tokens' + total') = worth
      /\ Refill * (Burst * (1 + backs')) = limit(backs' + 1)
      /\ Refill * (Burst * backs') = limit(backs')
  BY <1>1, <1>3 DEF ABTypeOK
<1>6. refill_time' = refill_time /\ tokens' = tokens /\ total' = total
  BY DEF Forward, Back
<1> HIDE DEF worth, limit
<1>7. refill_time # 0 /\ now' >= refill_time =>
            worth + (now' - refill_time) <= limit(backs' + 1) + forward'
  BY <1>1, <1>3, <1>4, TimeAssumption DEF Forward, Back, ABTypeOK
<1>8. refill_time # 0 /\ now' < refill_time => worth <= limit(backs') + forward'
  BY <1>1, <1>3, <1>4, TimeAssumption DEF Forward, Back, ABTypeOK
<1>9. Balance'
  BY <1>5, <1>6, <1>7, <1>8 DEF Balance
<1> QED
  BY <1>1, <1>2, <1>9

\* BudgetInv is an invariant of the budget.
THEOREM BudgetInvariance == BudgetSpec => []BudgetInv
<1>1. ASSUME BudgetInv, [BudgetNext]_budget_vars
      PROVE  BudgetInv'
  <2>1. CASE UNCHANGED budget_vars
    BY <2>1, <1>1 DEF BudgetInv, budget_vars, ABTypeOK, Balance, ExactRefill
  <2> QED
    BY <2>1, <1>1, AskKeeps, ClockKeeps DEF BudgetNext
<1> QED
  BY InitHolds, <1>1, PTL DEF BudgetSpec

\* The bucket never holds more than the burst.
THEOREM BudgetTypeCorrect == BudgetSpec => []ABTypeOK
  BY BudgetInvariance, PTL DEF BudgetInv

\* The password work granted is limited by the burst, the seconds that passed
\* and the number of times the clock was set back.
THEOREM BudgetRate == BudgetSpec => []RateLimited
<1>1. BudgetInv => RateLimited
  <2> SUFFICES ASSUME BudgetInv PROVE RateLimited
    OBVIOUS
  <2> USE DEF BudgetInv
  <2>1. /\ Refill * (Burst * (1 + backs)) = Refill * Burst + Refill * (Burst * backs)
        /\ Refill * (Burst * backs) \in Nat /\ Refill * Burst \in Nat
    BY OneMore, BudgetAssumption, TimeAssumption DEF ABTypeOK
  <2>2. /\ Refill * (tokens + total) = Refill * tokens + Refill * total
        /\ Refill * tokens \in Nat /\ Refill * total \in Nat
    BY Distribute, BudgetAssumption DEF ABTypeOK
  <2>3. refill_time = 0 => Refill * total = 0
    BY BudgetAssumption DEF Balance
  <2> QED
    BY <2>1, <2>2, <2>3, TimeAssumption DEF Balance, RateLimited, ABTypeOK
<1> QED
  BY BudgetInvariance, <1>1, PTL

\* The bucket gains exactly one token a refill period until it is full.
THEOREM BudgetExact == BudgetSpec => []ExactRefill
  BY BudgetInvariance, PTL DEF BudgetInv

=============================================================================
