----------------------------- MODULE FaceLoader -----------------------------
(***************************************************************************)
(* The face loader of client/src/client/face_loader.c: the main thread     *)
(* submits, promotes and cancels loads and pops their results; a worker    *)
(* reads and decodes one face at a time.  The mutex is held for each step  *)
(* except the load itself.  What a load reads and yields is left out.      *)
(***************************************************************************)
EXTENDS Naturals, FiniteSets, SequencesExt

CONSTANTS
    Tokens,         \* the tokens of loads; used again only when gone
    OutstandingMax, \* FACE_LOADER_OUTSTANDING_MAX
    BackgroundMax,  \* FACE_LOADER_BACKGROUND_OUTSTANDING_MAX
    NoToken

ASSUME LoaderAssumption ==
    /\ OutstandingMax \in Nat /\ BackgroundMax \in Nat /\ BackgroundMax < OutstandingMax
    /\ NoToken \notin Tokens

VARIABLES
    caller,     \* "stopped", "idle" or "join", in face_loader_stop()
    worker,     \* "none", "lock", "wait", "work" or "exited"
    stopping,
    loads,      \* by sequence: the loads there are, the oldest first
    jobs,       \* the foreground jobs and the background jobs
    active,     \* face_loader_active_job
    results,    \* the foreground results and the background results
    foreground, urgent, cancelled,  \* the flags of the loads
    outstanding, background,        \* face_loader_outstanding and _background_outstanding
    jobStreak, resultStreak,
    jobPassed, resultPassed         \* history: how often the oldest foreground job or result was passed over

queues == <<loads, jobs, active, results>>
flags == <<foreground, urgent, cancelled>>
counters == <<outstanding, background>>
streaks == <<jobStreak, resultStreak>>
passed == <<jobPassed, resultPassed>>
loader_vars == <<caller, worker, stopping, queues, flags, counters, streaks, passed>>

NoQueues == [fg |-> <<>>, bg |-> <<>>]

LoaderInit ==
    /\ caller = "stopped" /\ worker = "none" /\ stopping = FALSE
    /\ loads = <<>> /\ jobs = NoQueues /\ active = NoToken /\ results = NoQueues
    /\ foreground = {} /\ urgent = {} /\ cancelled = {}
    /\ outstanding = 0 /\ background = 0 /\ jobStreak = 0 /\ resultStreak = 0
    /\ jobPassed = 0 /\ resultPassed = 0

-----------------------------------------------------------------------------
Members(q) == ToSet(q.fg) \cup ToSet(q.bg)

\* The first of a sequence that is in the set, and its place.
Place(s, S) == CHOOSE i \in DOMAIN s : s[i] \in S /\ \A j \in 1..(i - 1) : s[j] \notin S
First(s, S) == s[Place(s, S)]

\* face_loader_job_remove() and face_loader_result_remove()
Without(s, t) == IF t \in ToSet(s) THEN RemoveAt(s, Place(s, {t})) ELSE s
Dropped(q, t) == [fg |-> Without(q.fg, t), bg |-> Without(q.bg, t)]

\* face_loader_job_remove_oldest() and face_loader_result_remove_oldest()
Oldest(s) == IF s = <<>> THEN NoToken ELSE First(loads, ToSet(s))

HasUrgent(s) == ToSet(s) \cap urgent # {}

\* After two urgent ones it is the oldest one's turn.
OldestTurn(s, streak) == streak >= 2

\* The one that is taken of a foreground queue, and the streak after that.
Chosen(s, streak) ==
    IF OldestTurn(s, streak) THEN Oldest(s)
    ELSE IF HasUrgent(s) THEN First(s, urgent) ELSE Head(s)
StreakAfter(s, streak) == IF ~OldestTurn(s, streak) /\ HasUrgent(s) THEN streak + 1 ELSE 0

\* History: the oldest is passed over by what is taken.
PassedAfter(s, t, n) == IF Oldest(s) \in {NoToken, t} THEN 0 ELSE n + 1
\* It is another one if older ones come or it goes.
PassedKept(s, s2, o2, n) == IF s2 # <<>> /\ Oldest(s) = First(o2, ToSet(s2)) THEN n ELSE 0

\* SDL_SignalCondition()
Signalled == IF worker = "wait" THEN "lock" ELSE worker

-----------------------------------------------------------------------------
(* The main thread. *)

\* face_loader_start()
StartLoader ==
    /\ caller = "stopped" /\ caller' = "idle" /\ worker' = "lock"
    /\ UNCHANGED <<stopping, queues, flags, counters, streaks, passed>>

\* face_loader_can_submit()
MaySubmit(fg) == outstanding < OutstandingMax /\ (fg \/ background < BackgroundMax)

Told == Signalled

\* face_loader_submit()
Submit(t, fg, urg) ==
    /\ caller = "idle" /\ t \notin ToSet(loads) /\ MaySubmit(fg)
    /\ loads' = Append(loads, t)
    /\ jobs' = IF fg THEN [jobs EXCEPT !.fg = Append(@, t)] ELSE [jobs EXCEPT !.bg = Append(@, t)]
    /\ foreground' = IF fg THEN foreground \cup {t} ELSE foreground
    /\ urgent' = IF urg THEN urgent \cup {t} ELSE urgent
    /\ outstanding' = outstanding + 1
    /\ background' = IF fg THEN background ELSE background + 1
    /\ worker' = Told
    /\ UNCHANGED <<caller, stopping, active, results, cancelled, streaks, passed>>

\* Mistake: a background load that is under way stays counted as one.
Promoted_Active(t) == IF t \in foreground \cup {active} THEN background ELSE background - 1

\* A background load becomes a foreground load.
Promoted(t) == IF t \in foreground THEN background ELSE background - 1

ToFront(q, t) == [fg |-> <<t>> \o Without(q.fg, t), bg |-> Without(q.bg, t)]

\* face_loader_promote(): the face is seen now.
Promote(t) ==
    /\ caller = "idle" /\ t \in ToSet(loads)
    /\ background' = Promoted(t)
    /\ foreground' = foreground \cup {t} /\ urgent' = urgent \cup {t}
    /\ jobs' = IF t \in Members(jobs) THEN ToFront(jobs, t) ELSE jobs
    /\ results' = IF t \in Members(results) THEN ToFront(results, t) ELSE results
    /\ worker' = IF t \in Members(jobs) THEN Signalled ELSE worker
    /\ jobPassed' = PassedKept(jobs.fg, jobs'.fg, loads, jobPassed)
    /\ resultPassed' = PassedKept(results.fg, results'.fg, loads, resultPassed)
    /\ UNCHANGED <<caller, stopping, loads, active, cancelled, outstanding, streaks>>

\* What is left of the flags when a load is gone.
Forget(t) ==
    /\ loads' = Without(loads, t)
    /\ foreground' = foreground \ {t} /\ urgent' = urgent \ {t} /\ cancelled' = cancelled \ {t}
    /\ outstanding' = outstanding - 1
    /\ background' = IF t \in foreground THEN background ELSE background - 1

\* face_loader_cancel() of a job or of a result
Cancel(t) ==
    /\ caller = "idle" /\ t \in ToSet(loads) \ {active}
    /\ jobs' = Dropped(jobs, t) /\ results' = Dropped(results, t)
    /\ Forget(t)
    /\ jobPassed' = PassedKept(jobs.fg, jobs'.fg, loads', jobPassed)
    /\ resultPassed' = PassedKept(results.fg, results'.fg, loads', resultPassed)
    /\ UNCHANGED <<caller, worker, stopping, active, streaks>>

\* and of the load that is under way
CancelActive ==
    /\ caller = "idle" /\ active # NoToken
    /\ cancelled' = cancelled \cup {active}
    /\ UNCHANGED <<caller, worker, stopping, queues, foreground, urgent, counters, streaks, passed>>

\* face_loader_result_pop()
PopForeground ==
    LET t == Chosen(results.fg, resultStreak)
    IN  /\ caller = "idle" /\ results.fg # <<>>
        /\ resultStreak' = StreakAfter(results.fg, resultStreak)
        /\ results' = Dropped(results, t)
        /\ Forget(t)
        /\ resultPassed' = PassedAfter(results.fg, t, resultPassed)
        /\ UNCHANGED <<caller, worker, stopping, jobs, active, jobStreak, jobPassed>>

PopBackground ==
    LET t == Head(results.bg)
    IN  /\ caller = "idle" /\ results.fg = <<>> /\ results.bg # <<>>
        /\ resultStreak' = 0
        /\ results' = Dropped(results, t)
        /\ Forget(t)
        /\ UNCHANGED <<caller, worker, stopping, jobs, active, jobStreak, passed>>

StopTold == Signalled

\* face_loader_stop()
Stop ==
    /\ caller = "idle" /\ caller' = "join"
    /\ stopping' = TRUE /\ worker' = StopTold
    /\ UNCHANGED <<queues, flags, counters, streaks, passed>>

\* The worker has ended and everything is freed.
Stopped ==
    /\ caller = "join" /\ worker = "exited"
    /\ outstanding' = outstanding - Cardinality(Members(jobs)) - Cardinality(Members(results))
    /\ background' = background - Len(jobs.bg) - Len(results.bg)
    /\ loads' = <<>> /\ jobs' = NoQueues /\ results' = NoQueues
    /\ foreground' = {} /\ urgent' = {} /\ cancelled' = {}
    /\ jobStreak' = 0 /\ resultStreak' = 0 /\ jobPassed' = 0 /\ resultPassed' = 0
    /\ caller' = "stopped" /\ worker' = "none" /\ stopping' = FALSE
    /\ UNCHANGED active

-----------------------------------------------------------------------------
(* The worker: face_loader_worker() *)

\* It looks for a job,
Look ==
    /\ worker = "lock"
    /\ \/ stopping /\ worker' = "exited" /\ UNCHANGED <<jobs, active, jobStreak, jobPassed>>
       \/ /\ ~stopping /\ jobs = NoQueues /\ worker' = "wait"
          /\ UNCHANGED <<jobs, active, jobStreak, jobPassed>>
       \/ /\ ~stopping /\ jobs.fg # <<>> /\ worker' = "work"
          /\ active' = Chosen(jobs.fg, jobStreak)
          /\ jobStreak' = StreakAfter(jobs.fg, jobStreak)
          /\ jobs' = Dropped(jobs, active')
          /\ jobPassed' = PassedAfter(jobs.fg, active', jobPassed)
       \/ /\ ~stopping /\ jobs.fg = <<>> /\ jobs.bg # <<>> /\ worker' = "work"
          /\ active' = Head(jobs.bg)
          /\ jobs' = Dropped(jobs, active')
          /\ UNCHANGED <<jobStreak, jobPassed>>
    /\ UNCHANGED <<caller, stopping, loads, results, flags, counters, resultStreak, resultPassed>>

\* SDL_WaitCondition() may return without a signal.
WakeUp ==
    /\ worker = "wait" /\ worker' = "lock"
    /\ UNCHANGED <<caller, stopping, queues, flags, counters, streaks, passed>>

Discarded == stopping \/ active \in cancelled

\* and has loaded it.
Loaded ==
    /\ worker = "work" /\ worker' = "lock" /\ active' = NoToken
    /\ \/ /\ Discarded
          /\ Forget(active) /\ UNCHANGED <<results, resultPassed>>
       \/ /\ ~Discarded
          /\ results' = IF active \in foreground THEN [results EXCEPT !.fg = Append(@, active)]
                        ELSE [results EXCEPT !.bg = Append(@, active)]
          /\ resultPassed' = PassedKept(results.fg, results'.fg, loads, resultPassed)
          /\ UNCHANGED <<loads, flags, counters>>
    /\ UNCHANGED <<caller, stopping, jobs, streaks, jobPassed>>

-----------------------------------------------------------------------------
LoaderNext ==
    \/ StartLoader \/ Stop \/ Stopped
    \/ \E t \in Tokens : \/ \E fg, urg \in BOOLEAN : (urg => fg) /\ Submit(t, fg, urg)
                         \/ Promote(t) \/ Cancel(t)
    \/ CancelActive \/ PopForeground \/ PopBackground
    \/ Look \/ WakeUp \/ Loaded

LoaderSpec == LoaderInit /\ [][LoaderNext]_loader_vars

-----------------------------------------------------------------------------
(* Properties. *)

\* Types and limits.
FLTypeOK ==
    /\ caller \in {"stopped", "idle", "join"} /\ worker \in {"none", "lock", "wait", "work", "exited"}
    /\ stopping \in BOOLEAN /\ active \in Tokens \cup {NoToken}
    /\ foreground \subseteq Tokens /\ urgent \subseteq foreground /\ cancelled \subseteq Tokens
    /\ outstanding \in 0..OutstandingMax /\ background \in 0..BackgroundMax
    /\ jobStreak \in 0..2 /\ resultStreak \in 0..2

\* The counters, which decide whether a load may be submitted and are asserted
\* not to underflow and to be 0 in the end, count what there is, although a load
\* may be promoted or cancelled as a job, under way or as a result.
CountsAreTrue ==
    /\ outstanding = Len(loads)
    /\ background = Cardinality({t \in ToSet(loads) : t \notin foreground})

\* Each load is in just one place, of its kind.
OnePlace ==
    LET places == jobs.fg \o jobs.bg \o results.fg \o results.bg \o (IF active = NoToken THEN <<>> ELSE <<active>>)
    IN  /\ Len(places) = Len(loads) /\ ToSet(places) = ToSet(loads)
        /\ ToSet(jobs.fg \o results.fg) \subseteq foreground
        /\ ToSet(jobs.bg \o results.bg) \cap foreground = {}

\* A load that was cancelled has no result.
NoCancelledResult == Members(results) \cap cancelled = {}

\* Promoted loads do not hold back the oldest for more than two others.
PassedTwice == jobPassed <= 2 /\ resultPassed <= 2

\* The worker never waits while there is something to do: a signal that came
\* before the wait is not needed.
NoMissedSignal == worker = "wait" => jobs = NoQueues /\ ~stopping

\* Loads, counters, turns and signals agree at every interleaving of the two
\* threads.
LoadsKept == FLTypeOK /\ CountsAreTrue /\ OnePlace /\ NoCancelledResult /\ PassedTwice /\ NoMissedSignal

=============================================================================
