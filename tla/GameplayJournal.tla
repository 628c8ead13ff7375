--------------------------- MODULE GameplayJournal ---------------------------
(***************************************************************************)
(* The private gameplay journal, server/src/server/gameplay_journal.c,     *)
(* with the producers of its transactions and the checkpoints of players   *)
(* and maps that it defers: intents, domains and terminals are appended    *)
(* and synced one by one, every write may fail or be cut off by the end of *)
(* the process, and an operator later compares the watermarks of the saved *)
(* files with the terminals in the journal.                                *)
(*                                                                         *)
(* The game is one thread; transactions interleave because callbacks and   *)
(* scripts run, save and begin transactions of their own while one is      *)
(* open.  One player and one map with its two files stand for the domains; *)
(* the map is an ordinary one, whose runtime file is temporary.            *)
(* The contents of a domain are the transactions applied to it.  A record  *)
(* has size one; its hash is stood for by its sequence number, unique as   *)
(* JournalValidates shows.  What was written survives the process, the     *)
(* crash model of server/doc/GAMEPLAY_JOURNAL.md.                          *)
(***************************************************************************)
EXTENDS Naturals, FiniteSets, FiniteSetsExt, SequencesExt

CONSTANTS
    Txs,            \* transactions; a bound of the model
    FileLimit,      \* JOURNAL_FILE_LIMIT, in records
    HardLimit,      \* JOURNAL_FILE_HARD_LIMIT, in records
    Retention,      \* JOURNAL_RETENTION_FILES
    PendingLimit,   \* JOURNAL_PENDING_LIMIT
    MaxSeq          \* sequence numbers; a bound of the model

ASSUME LimitsAssumption ==
    /\ {FileLimit, HardLimit, Retention, PendingLimit, MaxSeq} \subseteq Nat \ {0}
    /\ FileLimit <= HardLimit

Domains == {"player", "map-runtime", "map-unique"}
MapFiles == {"map-runtime", "map-unique"}

\* What is in memory: the domains, and the player's session that was taken over
\* when its logout had to wait.  No more than one waits, a bound of the model.
Places == Domains \cup {"former"}
FileOf(p) == IF p = "former" THEN "player" ELSE p

VARIABLES
    up,        \* the server runs
    failed,    \* journal.failed
    seq,       \* journal.sequence
    run,       \* journal.run_id
    last,      \* journal.previous_hash
    pending,   \* the transactions of journal.pending[]
    plan,      \* the domains registered for a transaction
    pins,      \* where they are in memory: its player objects and map instances that are valid
    counter,   \* the number in journal.lock
    files,     \* the retained journal files, oldest first
    mem,       \* mark and contents of each domain in memory
    saved,     \* the same in its file; Empty stands for no file
    sessions,  \* of the player: "one", "two", or "second" when the former one is gone
    pc,        \* producer of each transaction
    told,      \* history: the transactions whose producers were told that they committed
    lost       \* history: per domain, what was committed but missing at a load

journal   == <<seq, run, last, counter, files>>
producers == <<plan, pins, pc, told>>
vars == <<up, failed, pending, journal, mem, saved, sessions, producers, lost>>

\* A map without a temporary file is loaded from the original.
Empty == [mark |-> 0, has |-> {}]

Init ==
    /\ up = FALSE /\ failed = FALSE /\ seq = 0 /\ run = 0 /\ last = 0
    /\ pending = {} /\ plan = [t \in Txs |-> {}] /\ pins = plan
    /\ counter = 0 /\ files = <<>>
    /\ mem = [p \in Places |-> Empty] /\ saved = [d \in Domains |-> Empty] /\ sessions = "one"
    /\ pc = [t \in Txs |-> "new"] /\ told = {}
    /\ lost = [d \in Domains |-> {}]

-----------------------------------------------------------------------------
(* Writing one record. *)

Outcomes == {"ok", "reserve", "none", "torn", "whole"}

\* journal_enforce_retention()
Retained(fs) == SubSeq(fs, Len(fs) - Min({Len(fs), Retention - 1}) + 1, Len(fs))

\* journal_open_file()
Opened(fs) == Append(Retained(fs), <<>>)

\* Mistake: a file is closed while transactions are in flight.
Rotates_Always(file) == Len(file) >= FileLimit

\* journal_rotate(): a file with intents in flight stays open.
Rotates(file) == Len(file) >= FileLimit /\ pending = {}

Fits(file) == Len(file) < FileLimit \/ Rotates(file) \/ Len(file) < HardLimit

AppendTo(fs, r) == [fs EXCEPT ![Len(fs)] = Append(@, r)]

\* journal_counter_reserve(): a failed reservation may have reached the file.
Reserved(how) == IF how = "reserve" THEN {counter, seq + 1} ELSE {seq + 1}

\* journal_record() and journal_append(): whatever fails, the record may be
\* missing, torn or whole in the file.
Write(phase, of, doms, how) ==
    LET r      == [seq |-> seq + 1, run |-> run, phase |-> phase, of |-> of, doms |-> doms, prev |-> last]
        torn   == [r EXCEPT !.phase = "torn", !.of = {}, !.doms = {}]
        target == IF Rotates(Last(files)) THEN Opened(files) ELSE files
    IN  /\ seq < MaxSeq
        /\ how \in {"ok", "torn", "whole"} => Fits(Last(files))
        /\ counter' \in Reserved(how)
        /\ seq' = IF how = "reserve" THEN seq ELSE seq + 1
        /\ failed' = (how # "ok")
        /\ last' = IF how = "ok" THEN r.seq ELSE last
        /\ CASE how \in {"ok", "whole"} -> files' = AppendTo(target, r)
             [] how = "torn"            -> files' = AppendTo(target, torn)
             [] how = "none"            -> files' \in {files, target}
             [] how = "reserve"         -> UNCHANGED files
        /\ UNCHANGED run

-----------------------------------------------------------------------------
(* Start and end of the process. *)

RecordsOf(fs) == UNION {ToSet(fs[i]) : i \in DOMAIN fs}
Records == RecordsOf(files)
Committed == {r \in Records : r.phase = "commit"}
CommittedOn(d) == UNION {r.of : r \in {r \in Committed : d \in r.doms}}

\* Mistake: the watermark is not read back.
Loaded_Unmarked(d) == [saved[d] EXCEPT !.mark = 0]

\* The domain as its file has it: player_load(), load_unique_objects() and
\* load_temporary_map(), or load_original_map() when there is no temporary file.
Loaded(d) == saved[d]

\* What a load of d does not bring back.
Missing(d) == CommittedOn(d) \ Loaded(d).has

\* clean_tmp_map()
Cleaned == [saved EXCEPT !["map-runtime"] = Empty]

\* journal_counter_load(): without a number, that of the newest record.
Counted == IF counter = 0 THEN Max({r.seq : r \in Records} \cup {0}) ELSE counter

\* gameplay_journal_init(): a run begins with a file and a record of its own.
\* A server whose journal does not start does not start.
Start(how) ==
    LET s == Counted
        r == [seq |-> s + 1, run |-> s + 1, phase |-> IF how = "torn" THEN "torn" ELSE "boundary",
              of |-> {}, doms |-> {}, prev |-> 0]
    IN  /\ ~up /\ s < MaxSeq
        /\ seq' = s + 1 /\ run' = s + 1 /\ last' = s + 1
        /\ counter' \in IF how = "reserve" THEN {counter, s + 1} ELSE {s + 1}
        /\ files' = IF how \in {"none", "reserve"} THEN Opened(files) ELSE AppendTo(Opened(files), r)
        /\ up' = (how = "ok") /\ failed' = FALSE
        /\ IF how = "ok"
           THEN /\ mem' = [p \in Places |-> IF p = "former" THEN Empty ELSE Loaded(p)]
                /\ lost' = [d \in Domains |-> lost[d] \cup Missing(d)]
           ELSE UNCHANGED <<mem, lost>>
        /\ UNCHANGED <<pending, saved, sessions, producers>>

\* The process ends: by gameplay_journal_deinit_checked() after a failure or
\* an orderly shutdown, or because it crashes.  temp.maps need not name the
\* temporary file of the map: settings.recycle_tmp_maps, read_map_log().
End ==
    /\ up
    /\ up' = FALSE /\ failed' = FALSE /\ pending' = {}
    /\ pc' = [t \in Txs |-> IF pc[t] = "open" THEN "over" ELSE pc[t]]
    /\ plan' = [t \in Txs |-> {}] /\ pins' = plan'
    /\ mem' = [p \in Places |-> Empty] /\ sessions' = "one"
    /\ saved' \in {saved, Cleaned}
    /\ UNCHANGED <<journal, told, lost>>

-----------------------------------------------------------------------------
(* Transactions. *)

\* journal_pending_remove() or _clear(), and the producer is told what became of it.
Over(t, committed) ==
    /\ pc' = [pc EXCEPT ![t] = "over"]
    /\ plan' = [plan EXCEPT ![t] = {}] /\ pins' = [pins EXCEPT ![t] = {}]
    /\ told' = IF committed THEN told \cup {t} ELSE told

\* The sessions of the player.
Sessions == IF sessions = "two" THEN {"player", "former"} ELSE {"player"}

\* gameplay_journal_player_begin_change(), of one of the sessions.
Begin(t, p, how) ==
    /\ p \in Sessions
    /\ up /\ ~failed /\ pc[t] = "new" /\ Cardinality(pending) < PendingLimit
    /\ Write("intent", {t}, {"player"}, how)
    /\ IF how = "ok"
       THEN /\ pending' = pending \cup {t}
            /\ plan' = [plan EXCEPT ![t] = {"player"}] /\ pins' = [pins EXCEPT ![t] = {p}]
            /\ pc' = [pc EXCEPT ![t] = "open"] /\ UNCHANGED told
       ELSE pending' = {} /\ Over(t, FALSE)
    /\ UNCHANGED <<up, mem, saved, sessions, lost>>

Untouched(t) == \A p \in Places : t \notin mem[p].has

\* journal_track_map(), before the first mutation.
Track(t, d, how) ==
    /\ up /\ t \in pending /\ d \notin plan[t] /\ Untouched(t)
    /\ Write("domain", {t}, {d}, how)
    /\ IF how = "ok"
       THEN /\ plan' = [plan EXCEPT ![t] = @ \cup {d}] /\ pins' = [pins EXCEPT ![t] = @ \cup {d}]
            /\ UNCHANGED <<pending, pc, told>>
       ELSE pending' = {} /\ Over(t, FALSE)
    /\ UNCHANGED <<up, mem, saved, sessions, lost>>

\* The same for a registered map that was reset since: the new instance takes
\* the place of the old one, without a record.
Retrack(t, d) ==
    /\ up /\ t \in pending /\ d \in plan[t] \ pins[t]
    /\ pins' = [pins EXCEPT ![t] = @ \cup {d}]
    /\ UNCHANGED <<up, failed, pending, journal, mem, saved, sessions, plan, pc, told, lost>>

\* A part of the gameplay mutation, of what the producer has tracked.
Mutate(t, p) ==
    /\ up /\ pc[t] = "open" /\ p \in pins[t] /\ t \notin mem[p].has
    /\ mem' = [mem EXCEPT ![p].has = @ \cup {t}]
    /\ UNCHANGED <<up, failed, pending, journal, saved, sessions, producers, lost>>

\* Mistake: the watermark is the number before the terminal's.
Marked_Before(t) == [p \in Places |-> IF p \in pins[t] THEN [mem[p] EXCEPT !.mark = seq] ELSE mem[p]]

\* The watermarks once the commit of t has been synced, of the objects and
\* instances that are still valid.
Marked(t) == [p \in Places |-> IF p \in pins[t] THEN [mem[p] EXCEPT !.mark = seq'] ELSE mem[p]]

\* Of two sessions, one does not have what is committed now.
Split(t) == IF sessions = "two" THEN [lost EXCEPT !["player"] = @ \cup {t}] ELSE lost

\* gameplay_journal_commit()
Commit(t, how) ==
    /\ up /\ pc[t] = "open" /\ \A p \in pins[t] : t \in mem[p].has
    /\ IF failed
       THEN how = "ok" /\ pending' = {} /\ Over(t, FALSE) /\ UNCHANGED <<failed, journal, mem, lost>>
       ELSE /\ Write("commit", {t}, plan[t], how)
            /\ IF how = "ok"
               THEN pending' = pending \ {t} /\ Over(t, TRUE) /\ mem' = Marked(t) /\ lost' = Split(t)
               ELSE pending' = {} /\ Over(t, FALSE) /\ UNCHANGED <<mem, lost>>
    /\ UNCHANGED <<up, saved, sessions>>

\* The producer takes back what it did; then gameplay_journal_abort().
Abort(t, how) ==
    /\ up /\ pc[t] = "open"
    /\ mem' = [p \in Places |-> [mem[p] EXCEPT !.has = @ \ {t}]]
    /\ Over(t, FALSE)
    /\ IF failed
       THEN how = "ok" /\ pending' = {} /\ UNCHANGED <<failed, journal>>
       ELSE /\ Write("abort", {t}, plan[t], how)
            /\ pending' = IF how = "ok" THEN pending \ {t} ELSE {}
    /\ UNCHANGED <<up, saved, sessions, lost>>

Released(t) == IF failed THEN {} ELSE pending \ {t}

\* gameplay_journal_attempt(): the outcome is uncertain, only the pins go.
Attempt(t) ==
    /\ up /\ pc[t] = "open"
    /\ pending' = Released(t)
    /\ Over(t, FALSE)
    /\ UNCHANGED <<up, failed, journal, mem, saved, sessions, lost>>

\* gameplay_journal_profile_boundary()
ProfileBoundary(how) ==
    /\ up /\ ~failed /\ pending = {}
    /\ Write("boundary", {}, {}, how)
    /\ UNCHANGED <<up, pending, mem, saved, sessions, producers, lost>>

-----------------------------------------------------------------------------
(* Checkpoints and loads. *)

\* gameplay_journal_player_checkpoint_allowed(), ..._map_checkpoint_allowed():
\* they compare objects and instances.
Allowed(places) == \A t \in pending : pins[t] \cap places = {}

\* player_save_checked()
SavePlayer(p) ==
    /\ up /\ p \in Sessions /\ Allowed({p})
    /\ saved' = [saved EXCEPT !["player"] = mem[p]]
    /\ UNCHANGED <<up, failed, pending, journal, mem, sessions, producers, lost>>

\* new_save_map() publishes the unique objects first; the rest may fail.
SaveMap(doms) ==
    /\ up /\ Allowed(MapFiles) /\ doms \in {{"map-unique"}, MapFiles}
    /\ saved' = [d \in Domains |-> IF d \in doms THEN mem[d] ELSE saved[d]]
    /\ UNCHANGED <<up, failed, pending, journal, mem, sessions, producers, lost>>

\* What was in these places is gone.
Unpinned(places) == [t \in Txs |-> pins[t] \ places]

\* The player logs out where no save is made, or it fails, and returns.
Relogin ==
    /\ up /\ Allowed({"player"})
    /\ mem' = [mem EXCEPT !["player"] = Loaded("player")] /\ pins' = Unpinned({"player"})
    /\ sessions' = IF sessions = "two" THEN "two" ELSE "one"
    /\ lost' = [lost EXCEPT !["player"] = @ \cup Missing("player")]
    /\ UNCHANGED <<up, failed, pending, journal, saved, plan, pc, told>>

\* player_login() drops the result of a logout that was deferred: the player
\* returns and the former session is still there.
TakeOver ==
    /\ up /\ ~Allowed({"player"}) /\ sessions # "two"
    /\ mem' = [mem EXCEPT !["former"] = mem["player"], !["player"] = Loaded("player")] /\ sessions' = "two"
    /\ pins' = [t \in Txs |-> IF "player" \in pins[t] THEN (pins[t] \ {"player"}) \cup {"former"} ELSE pins[t]]
    /\ lost' = [lost EXCEPT !["player"] = @ \cup Missing("player")]
    /\ UNCHANGED <<up, failed, pending, journal, saved, plan, pc, told>>

\* The logout is tried again, with or without a save: player_logout_checked()
Leave ==
    /\ up /\ sessions = "two" /\ Allowed({"former"})
    /\ saved' \in {saved, [saved EXCEPT !["player"] = mem["former"]]}
    /\ mem' = [mem EXCEPT !["former"] = Empty] /\ sessions' = "second" /\ pins' = Unpinned({"former"})
    /\ UNCHANGED <<up, failed, pending, journal, plan, pc, told, lost>>

\* A map that was swapped out is visited: ready_map_name() loads the temporary
\* file and removes it.
SwapIn ==
    /\ up /\ \A d \in MapFiles : mem[d] = Loaded(d)
    /\ saved' = Cleaned
    /\ UNCHANGED <<up, failed, pending, journal, mem, sessions, producers, lost>>

\* The map is reset, in memory or swapped out, whatever transactions are open:
\* swap_map_checked(), flush_old_maps() and map_force_reset().
Reset ==
    /\ up
    /\ saved' = Cleaned
    /\ mem' = [mem EXCEPT !["map-runtime"] = Empty, !["map-unique"] = Loaded("map-unique")]
    /\ pins' = Unpinned(MapFiles)
    /\ lost' = [d \in Domains |-> lost[d] \cup
                   IF d \in MapFiles THEN (CommittedOn(d) \cup {t \in Txs : d \in pins[t]}) \ saved'[d].has ELSE {}]
    /\ UNCHANGED <<up, failed, pending, journal, sessions, plan, pc, told>>

\* The bound of the model is reached.
Finished == ~up /\ Counted >= MaxSeq /\ UNCHANGED vars

-----------------------------------------------------------------------------
Next ==
    \/ \E how \in Outcomes :
          \/ Start(how) \/ ProfileBoundary(how)
          \/ \E t \in Txs : \/ \E p \in Places : Begin(t, p, how)
                            \/ Commit(t, how) \/ Abort(t, how) \/ \E d \in MapFiles : Track(t, d, how)
    \/ \E t \in Txs : Attempt(t) \/ (\E d \in MapFiles : Retrack(t, d)) \/ \E p \in Places : Mutate(t, p)
    \/ (\E p \in Places : SavePlayer(p)) \/ (\E doms \in SUBSET MapFiles : SaveMap(doms))
    \/ Relogin \/ TakeOver \/ Leave \/ SwapIn \/ Reset
    \/ End \/ Finished

Spec == Init /\ [][Next]_vars

-----------------------------------------------------------------------------
(* Properties. *)

Record == [seq : 1..MaxSeq, run : 1..MaxSeq, phase : {"boundary", "intent", "domain", "commit", "abort", "torn"},
           of : SUBSET Txs, doms : SUBSET Domains, prev : 0..MaxSeq]

\* Types; a transaction is pinned only as long as its producer works on it.
GJTypeOK ==
    /\ {up, failed} \subseteq BOOLEAN
    /\ {seq, run, last, counter} \subseteq 0..MaxSeq
    /\ pending \subseteq {t \in Txs : pc[t] = "open"}
    /\ \A t \in pending : "player" \in plan[t]
    /\ plan \in [Txs -> SUBSET Domains]
    /\ Records \subseteq Record
    /\ pins \in [Txs -> SUBSET Places]
    /\ mem \in [Places -> [mark : 0..MaxSeq, has : SUBSET Txs]]
    /\ saved \in [Domains -> [mark : 0..MaxSeq, has : SUBSET Txs]]
    /\ sessions \in {"one", "two", "second"}
    /\ pc \in [Txs -> {"new", "open", "over"}]

\* Sequence numbers grow from record to record and from file to file.
InOrder(fs) ==
    \A i, j \in DOMAIN fs : \A k \in DOMAIN fs[i], l \in DOMAIN fs[j] :
        i < j \/ (i = j /\ k < l) => fs[i][k].seq < fs[j][l].seq

\* A record names the one before it in its run, and only the last of a run is
\* torn.
Chained(fs) ==
    LET all == RecordsOf(fs)
    IN  \A r, s \in all :
            /\ r.run = s.run /\ r.seq < s.seq
            /\ \A q \in all : q.seq <= r.seq \/ s.seq <= q.seq
            => r.phase # "torn" /\ s.prev = r.seq

\* In one file, a transaction's intent, then its other domains, then at most
\* one terminal, which names exactly those domains.
Bundled(fs) ==
    \A t \in Txs :
        LET At == {r \in RecordsOf(fs) : t \in r.of}
        IN  /\ At # {} => \E r \in At : r.phase = "intent" /\ \A s \in At : r.seq <= s.seq
            /\ \A i, j \in DOMAIN fs : \A r \in ToSet(fs[i]), s \in ToSet(fs[j]) :
                  t \in r.of /\ t \in s.of => i = j
            /\ \A r \in At : r.phase \in {"commit", "abort"} =>
                  /\ \A s \in At : s.seq <= r.seq
                  /\ r.doms = UNION {s.doms : s \in At \ {r}}

\* What the validator of server/tools/gameplay_journal.py demands of the
\* retained files, after any crashes, failures and rotations.
JournalValidates == InOrder(files) /\ Chained(files) /\ Bundled(files)

\* Retention and the two limits bound the journal even if transactions stay
\* open.
FilesBounded == Len(files) <= Retention /\ \A i \in DOMAIN files : Len(files[i]) <= HardLimit

\* Checkpoints of players and maps are deferred so that a comparison of
\* watermarks tells whether a reported commit is in a saved file, unless the
\* domain was once loaded or reset without it, or another session of the player
\* was there when it was committed.
CheckpointsClassify ==
    \A r \in Committed : \A t \in r.of, d \in r.doms :
        t \in told =>
            \/ (t \in saved[d].has) <=> (saved[d].mark >= r.seq)
            \/ t \in lost[d]

\* Nothing of an aborted transaction is ever in a saved file.
AbortedLeaveNothing ==
    \A r \in Records : r.phase = "abort" => \A t \in r.of, d \in Domains : t \notin saved[d].has

\* Whatever failed or ended in between, the retained files are a journal that
\* the validator accepts, within the limits.
JournalSound == GJTypeOK /\ JournalValidates /\ FilesBounded

\* What a saved file holds of a reported transaction is told by its watermark.
FilesClassify == CheckpointsClassify /\ AbortedLeaveNothing

\* No save, load, failure or crash replaces a file by one with an older
\* watermark: the runtime file of a map goes back only when it is removed, and a
\* player's file only if the session was loaded beside one that could not leave.
MarksGoBackForCause ==
    [][\A d \in Domains : saved'[d].mark < saved[d].mark =>
           \/ d = "map-runtime" /\ saved'[d] = Empty
           \/ d = "player" /\ sessions # "one"]_vars

\* server/doc/GAMEPLAY_JOURNAL.md:161, "a watermark at or beyond the terminal
\* sequence proves that domain already includes the mutation [...] This
\* remains unambiguous across process restarts".
WatermarksProve ==
    \A r \in Committed : \A t \in r.of, d \in r.doms :
        saved[d].mark >= r.seq => t \in saved[d].has

=============================================================================
