# Atrinik Classic: formal models

TLA+ models of the parts of Atrinik Classic in which several actors, failures
and time meet: authentication and access control, the queue of commands,
accounts and sessions, the gameplay journal, the administrative shutdown, the
publication to the metaserver, and the delivery of assets on the server and on
the client.  TLC checks the models on small instances; TLAPS proves what matters
most of the password pool, the work budget, account authentication, the
access-token store, the access server, the administrative shutdown, accounts and
sessions, the gameplay journal, the metaserver and the delivery of assets on both
sides for every value of their constants.

Paths below are relative to the root of the repository.

## 1. The system and its parts

Atrinik is a multiplayer game: a C server (`server/`), a C client (`client/`),
a shared library (`libatrinik/`), protocol definitions (`protocol/`) and tools.
The server is one main loop (`server/src/server/main.c`) that simulates the
world and serves all connections, plus helper threads that must never hold the
loop up: password hashing, access-token storage, HTTP requests, the rendezvous
control.  The client has a main thread, a socket thread and a worker that
decodes faces.

| Component | State it keeps | Operations | What makes it correct |
|---|---|---|---|
| Password pool `auth_worker.c` | fixed slots FREE/QUEUED/RUNNING/DONE, `stopping`, threads | start, stop, submit, take, cancel, worker loop | a worker owns its slot over the unlock; answers belong to their questions; plaintext is wiped; nothing queued is forgotten; stop returns |
| Account authentication `account.c` | `auth_pending[]`, `auth_request` of each connection, account files | login, register, password change and force, poll, connection clear | results are applied only to the connection, credential and permission of the moment; entries, connections and pool never disagree; every request ends |
| Work budget, same file | tokens, time of the last refill | `account_auth_work_allowed` | bounded rate although the wall clock is stepped |
| Accounts, characters, sessions `account.c`, `types/player.c` | account and player files, list of players, loaded characters | provision, register, new character, login, takeover, save, logout | every listed character has its file and one owner; one living session per character; memory is never replaced by an older file |
| Access-token store `access_tokens.c` | snapshot in memory and in a file; `poisoned`, `fenced`, `observed_clock` | issue, revoke, remove, route acknowledgement, authorize, session check, expire, flush, open, close | what was reported survives crash and power failure; a revoked token never comes back; receipts are true; management is compare-and-swap |
| Access server `access_server.c` | job slots, maintenance flag, worker and expiry threads | submit, cancel, poll, tick, shutdown | a grant or a code reaches only who may still have it; no slot is lost; jobs and maintenance do not starve one another |
| Command queue `socket/server.c` | frames, tombstones, index of offsets, movement epoch | append, CLEAR, compact, pass, reset | commands run once and in order, cancelled ones never; limits hold |
| Gameplay journal `gameplay_journal.c` | files with a hash chain, pending transactions, a durable counter, watermarks of players and maps | begin, track, commit, abort, attempt, rotate, retain | one readable journal over every crash; files tell which transactions they include |
| Administrative shutdown `admin_shutdown.c` | one client, one scheduled request, receipts | poll, schedule, cancel, finish | a receipt is durable and true before the process exits as if all were well |
| Metaserver `socket/metaserver*.c`, `libatrinik/metaserver_publisher_sequence.c` | cadence, current request, sequence files, generations, punch windows | service, callback, start and stop of the control | each result is handled once; an old generation discloses nothing; numbers survive; the listing catches up |
| Client assets `client/asset.c`, `image.c` | requests, batches, streams | start, share, free, hand off, open, serve, disconnect | no use after free, no stranded request, a generic asset is not passed |
| Client face loader `client/face_loader.c` | job and result queues, counts, active job | submit, promote, cancel, pop, stop, worker | counts are true, a cancelled load yields nothing, the oldest gets its turn |
| Asset delivery `socket/assets.c` | list of connections, cursor, streams | register, clear, service | budgets are shared and nobody is passed over |
| World and rules, protocol encoding, plugin, GUI, library, tools | large data | many | sequential; not modelled |

How the parts interact.  A command of a connection is queued by
`socket_server_command_queue_append` and executed by a pass of the main loop, or
calls `account_login` or one of its siblings.  Those read the account file, ask
the work budget, hand a value-only `auth_work_t` to the pool and leave an entry
in `auth_pending[]`.  Pool threads hash without touching connections.  Each
iteration of the loop calls `account_auth_poll`, which takes the finished work
and completes it against the account file as it is by then; where access tokens
are required it asks the access server first.  Access requests of connections
and of the local administration socket are jobs of the access server, whose
worker calls the access-token store; the store releases its mutex while a
remote route is asked.  A character that is logged in is saved by checkpoints,
which the journal defers while a transaction is open.  A pass of the main loop
also services the metaserver publisher, the assets and the administration
socket, whose shutdown requests run through the same timer as the shutdown
command.  Closing a connection cancels its entry, its job and its streams.

The hard behaviours are: pointers kept over an unlock; results that come after
their question has changed; memory that is used again; deadlines racing
answers; clocks that go back; a file replaced but not made durable; several
files changed by one operation; requests that are lost, applied late or twice;
queues compacted under a running loop; budgets that end in the middle of a
pass.  `PROJECT.json` lists each at its line under "hazards".

## 2. Modules

| Module | Models | Notes |
|---|---|---|
| `AuthWork` | `auth_work_t`, `auth_credential_t`, `execute()` | hashing is abstract: a credential is the password it was made from plus its salt |
| `AuthWorker` | all of `auth_worker.c` | one action per critical section; the hash runs between `Pick` and `Finish` |
| `AuthService` | the abstract promise of the pool | accepted once, answered at most once, forgotten on cancel or stop |
| `AccountAuth` | the asynchronous half of `account.c` | uses the pool through `AuthService` |
| `AuthBudget` | the token bucket of `account.c` | the wall clock may be stepped in both directions |
| `AccessSnapshot` | pure operators of `access_tokens.c` | each operation as a function from snapshot to snapshot, and `validate()` |
| `AccessStore` | the store: handle, file, durability, calls | `commit()` is success, failure without replacement, or replacement without certainty |
| `AccessServer` | `access_server.c` and its callers in `socket/` | the store reduced to token states, pending rows and the poisoned flag |
| `AdminShutdown` | `admin_shutdown.c`, the shutdown timer, `server_shutdown()` | publication of a receipt split at its system calls |
| `CommandQueue` | `packet_recv_cmd` and its index | byte offsets as in the code, sizes scaled down |
| `CommandStream` | the promise of the protocol: an ordered queue with scoped cancellation | refined by `CommandQueue` |
| `AccountRoster` | accounts, characters and sessions | one step per file that a handler changes |
| `GameplayJournal` | `gameplay_journal.c` and checkpoints | typed records; each write may fail before, in or after the file |
| `MetaserverPublisher` | publisher, cadence, request workers | the callback and the poll race for each result |
| `RendezvousControl` | the control threads, generations, disclosure lock | a thread may be between its look and its send |
| `PublishSequence` | the two sequence files | one step per system call; power failures keep any entry since the last sync |
| `AttemptBudget` | the bucket of attempts | real arithmetic of deadlines |
| `AssetRequests` | `client/asset.c` and the handoff of `image.c` | main thread and socket thread |
| `FaceLoader` | `client/face_loader.c` | the mutex is free only during a load |
| `AssetService` | `socket/assets.c` | a tick is split into visits, rounds and acceptance |
| `...Proofs` | theorems about the modules they extend | see section 5 |
| `MC...` | constants, bounds and sums for TLC | see section 3 |

Definitions named `X_Something` with a comment that begins "Mistake" are wrong
variants of the definition `X` next to them.  They are not part of any
specification; putting one in the place of `X` must break the property that
`PROJECT.json` names with it, which shows that the property depends on that
piece of code.

### State and actions against the code

*AuthWorker.*  `state`, `cancelled`, `work` are the fields of `slots[]`;
`threads` is where each pthread is (ready, waiting in `pthread_cond_wait`,
running without the mutex, exited); `index` and `local` are the locals `slot`
and `work` of `run()`; `main` is where the caller is in start or stop.  `Pick` is
`run()` up to the unlock, `Finish` from the second lock.  A wait may end
spuriously.  `Submit` fills the highest free slot, as the loop in
`auth_worker_submit` does.  `issued`, `asked`, `dropped`, `taken` are history.

*AccountAuth.*  `table` is `auth_pending[]`, `conns` the authentication fields
of `socket_struct`, `files` the credential in each account file.  All actions
but `Answer` run on the main thread; `pc` and `cursor` split the poll into one
step per result taken and per entry walked, as pool threads run between them.
`Outcomes` is `account_auth_complete`: load and save may fail
(`path_write_atomic` then leaves the old file).  `Expire` is the passing of a
deadline and may happen at any time.  When `AccessRequired` is set the access
check may say valid, busy or denied at any moment.  The code compares a
generation besides the request; as request numbers are never used twice the
request decides alone, and the generation is left out.

*AccessStore.*  Arrays are functions from identities.  A token's code, verifier
and index are drawn together with its identity and stand for one another; an
identity is never drawn twice (`minted`), because it is random.  Each call under
the mutex is one action; an issue is `Issue` followed by `IssueCollides`,
`IssueActivates` or `IssueGivesUp` after the mutex was free.  `disk` is the file
a process would read, `durable` the set of files a power failure may leave: a
rename that was not followed by a directory fsync adds to that set, one that was
makes it a single file.  `rows` are the revocations given to the remote side,
which may be confirmed late and repeatedly.

*AccessServer.*  `jobs` and `queue` are the slots in order of submission; `wpc`
and `epc` are where the worker and the expiry thread are; `conns` has the job
IDs, the character and the permission of each connection, `root` the local
socket.  A job runs between `WorkerRuns` and `WorkerEnds` without the lock.
`after` and `row` are the rotation over pending revocations.  The clock only
grows, so time is the set `due` of tokens whose deadline has passed.  Job IDs are
fresh when nobody refers to them; the code's 64-bit counter never wraps.  A job
that is cancelled while it is queued leaves `queue` with its slot (`Unqueued`).

*AdminShutdown.*  `pc` follows the loop: check of the timer, poll of the socket,
the rest of the tick, saving, exit; `create`, `write`, `link` and `sync` are the
system calls of a publication and `pub.then` what goes on after it.  `result`
and `durable` are the receipts in the directory and those a power failure
leaves.  `heard` is what a client was told.

*CommandQueue.*  `q` is the packet with the offset `base` of its first byte,
`tomb` the number of tombstoned bytes, `idx` the index of each movement stream
(pruned entries are dropped; the cursor of the code is a representation
detail), `pass` the commands left in this pass.  `PassArrest` is a guard that
resets the queue from within the command that is executed.  The refinement maps
the live frames to the abstract queue.

*AccountRoster.*  `files`, `pfile` are the account and player files, `players`
the list of sessions, oldest first, `job` the handler between two of its files.
A version stands for the contents of a character.  An open transaction of the
journal pins a session: its logout and saves are deferred.

*GameplayJournal.*  `files` are the journal files with their records, `counter`
the durable counter of sequence numbers, `pending` the open transactions, `plan`
the domains they registered and `pins` the player objects and map instances that
stand for those domains in memory, as the journal's entries do.  `mem` and `saved`
are what each domain includes and its watermark in memory and in its file;
`Empty` is the original of a map, or no file.  `Outcomes` of a write are:
success, a failed reservation, nothing, a torn record, and the whole record with
the sync failed.  After any failure the journal accepts nothing and the server
ends.

A domain is loaded from its file (`Loaded`), but a map's runtime file is
temporary: `SwapIn` removes it once it has been read, `Reset` discards it and
what is in memory, whatever transactions are open, and after the end of the
process `temp.maps` may not name it (`End`).  What is loaded next is then the
original, with mark 0.  A transaction that goes on after a reset may register the
new instance (`Retrack`).  `TakeOver` is a login while the former session's
logout is deferred: `former` is its object, which keeps the pins, and the new
session is loaded from the old file and may be saved, logged in again and begin
transactions.  `Leave` is the former session's logout when it is tried again.
`lost` remembers what a domain was loaded or reset without.

*MetaserverPublisher.*  Deadlines are "no", "wait" or "due"; a request that was
given up may still arrive (`late`).  `main` splits `metaserver_service` where it
frees a request, since freeing joins the worker.  `calm` starts when the players
stay and the metaserver takes everything.

*RendezvousControl.*  Threads are numbered by their generation.  `lock` is the
disclosure lock, held from `Acquire` to `Release`; `call` is a call of the
publisher between advancing the generation and joining the old thread.

*PublishSequence.*  `slot` is what the process sees, `may` what a power failure
may leave of each entry.

*AssetRequests.*  `main` is what the main thread is about to do, `io` and `todo`
where the socket thread is in its pass; `req` has the stream, the batch, the
state and the references of each path's request.

*FaceLoader.*  `jobs` and `results` are the foreground and background queues;
`jobPassed` and `resultPassed` count how often the oldest was passed over.

*AssetService.*  `tick` and `visit` are the budgets; `waited` counts ticks since
the last visit.  The assumption `PassBytes < TickBytes` holds at the normal speed
(400 kB of 1 MB for each tick); with a speed multiplier of three or more one
connection may use a whole tick, and `PeersRun` would not hold.

## 3. Runs

| Run | Checks | Distinct states |
|---|---|---|
| `auth_worker` | slot ownership, right answers, secrets, refinement of `AuthService`, queued work is served, stop returns | 46 k |
| `account_auth` | pool, entries and connections agree; rate of the budget; sessions are authentic; passwords change by right; every request ends | 310 k |
| `access_store` | no resurrection; valid images and true receipts; replies hold over crash and power failure; observed expiry sticks | 355 k |
| `access_server` | slots and jobs agree and the worker is awake; admissions are current; codes stay with the asker | 2.0 M |
| `access_server_live` | revoked sessions end; every pending revocation is tried | 119 k |
| `admin_shutdown` | a clean exit has its receipts; receipts are true and retries never extend; requests end | 523 k |
| `connections` | queue consistent and bounded; refinement of `CommandStream`; commands end; rosters, owners and sessions agree; no rollback | 275 k |
| `gameplay_journal` | the journal validates and is bounded; files classify transactions; watermarks go back only for a cause the code has | 832 k |
| `metaserver` | publisher, control, sequence and budget sound; the listing catches up | 333 k |
| `assets` | requests, loads and rotation sound; streams are taken by right | 1.3 M |
| `access_store_reopen` | (violation) the durability comment of `commit()` | - |
| `journal_watermarks` | (violation) what a watermark proves | - |

A conjunction such as `RequestsKept` or `JournalSound` joins the named parts
that are stated right before it, the type invariant of the module among them.

Sums.  `MCAccountAuth`, `MCConnections`, `MCMetaserver` and `MCAssets` hold
modules that share no variable.  A behaviour runs one of them, chosen in the
initial state by `part`, and leaves the variables of the others as they were
initially; so the reachable states are the union of those of each module alone.
The fairness of a sum is that of the one module that has a liveness property;
it constrains only behaviours of that part, since its actions are disabled in
the others.  In `MCAssets` the requests are explored twice: faces alone, and a
generic asset with at most two faces.  Faces, and loads, are
interchangeable, and so are the transactions of the journal; no temporal
formula with fairness is checked under that symmetry.  `MCAccessServerLive` has behaviours with sessions on one token and
behaviours with two revocations and no connection, since both together are not
needed by either property and are too many for a liveness check.

Bounds and why they suffice.  Pool: two threads (the code's number) and a queue
of two with three requests: a slot is reused while another is running and a
third is refused.  Account authentication: two connections, one of them used
twice, two entries, two requests of any kind, an outdated record that a login
replaces and a free name.  Budget: a burst of two, a period of two and seven
ticks cover first use, a clock behind, a long pause, the cap and a remainder;
the theorems remove the bounds.  Store: two tokens, two requests, limits of one
or two so that every limit is hit, six commits, one retried collision; the store
with its tombstone taken is a second initial state, because reaching it from the
bootstrap takes more commits than can be explored.  `MaxRevision` doubles as the
64-bit maximum of the counters.  Access server: one slot for a connection and
the local socket, so that slots are fought over, two tokens, one of which
expires.  Shutdown: two IDs and a countdown of two ticks.  Command queue: four
frames in batches of two, two epochs, a limit of six bytes and passes of two, so
that compaction, overflow and a reset in the middle of a pass occur.  Roster: two
accounts, two characters, two connections and two versions.  Journal: two
transactions, files of two records with a hard limit of four and two kept, six
sequence numbers, one session that was taken over: rotation, retention, restart,
resets and two sessions all occur.  Publisher: one
player more or less and one late request; control: four generations, two
tickets and one punch window; sequence: seven numbers, the last of which
exhausts the space; attempts: a capacity of two, a refill of three and nine
ticks.  Assets: one stream, batches of two of four faces, one of two places of a
background load, three connections of which two fit into a tick.

Deadlock is allowed in `account_auth` (after `Deinit`, and when the bounded
clock of the budget has ended) and in `metaserver` (the numbers, generations and
times of the model end).  All other runs check for it.

Fairness.  *AuthWorker*: a thread that can run does so, and start and stop
continue; nothing is assumed of submissions or cancellations.  *AccountAuth*:
the main loop polls and deadlines expire; nothing of the pool, the clients or
the access server, since the 30-second deadline is what the code relies on.
*AccessServer*: threads run; ticks, and the polls of a connection that find the
store free, happen again and again (strong fairness), because the store's mutex
is held only for a commit.  *AdminShutdown*: the loop goes on, and if it again
and again reaches the end of an iteration some of these are ticks, as the
transport-only iterations are short waits.  *CommandQueue*: received frames are
dispatched; a pass that could again and again begin or execute does, since
players regain speed with every tick and sessions do not stay busy.
*MetaserverPublisher*: the main loop, the request worker and time go on, and a
request that was sent is applied once the environment is calm.

## 4. Findings

`access_store_reopen`: the comment before `commit()` says "Only installed,
fsynced, read-back state becomes authoritative RAM"
(`server/src/server/access_tokens.c:538`).  When the directory fsync fails the
handle is poisoned, and reopening is the recovery boundary.  But
`store_open_descriptor` reads and uses the replaced file without synchronising
the directory, unless an interrupted issue makes it commit anyway.  Until the
next commit, a power failure can bring back the older snapshot under a store
whose status said that durability is ok.  Nothing that was reported as
committed by the failing call is lost (`ReportedChangesSurvive` holds); what is
lost is what a later query of the reopened store showed.

`journal_watermarks`: `server/doc/GAMEPLAY_JOURNAL.md:161` says "a watermark at
or beyond the terminal sequence proves that domain already includes the
mutation".  `journal_finish` gives a domain the sequence of the latest commit
whatever the domain was loaded with.  A change is committed, the process dies
before the next checkpoint (or the player leaves where no save is made,
`types/player.c:3359`), the old file is loaded, another change is committed and
saved: the watermark is beyond the first terminal although the file never had
that change.

Other disagreements that were met while modelling; no run keeps them, and the
models do what the code does:

- `server/doc/GAMEPLAY_JOURNAL.md:182` says that a transaction whose terminal
  sync fails becomes an attempted record.  `journal_append` does not take the
  record back when `fsync` fails (`gameplay_journal.c:831`), so the file may hold
  a whole commit whose producer was told that it failed.
- `object.c:3305` and `object.c:4798` assert that `gameplay_journal_attempt`
  succeeds.  If a write failed for a transaction that a callback of the map
  insertion began, the journal is unavailable, the attempt returns false
  (`gameplay_journal.c:1373`) and the assertion fails.
- `server/doc/GAMEPLAY_JOURNAL.md:174` says that checkpoints are deferred while
  their domain participates in an open transaction.  `player_login` drops the
  result of the older session's logout (`types/player.c:4081`); when that was
  deferred, the new session is loaded from the old file and its saves are
  allowed, because the journal compares object pointers.  This is `TakeOver`;
  `MarksGoBackForCause` allows a player's file to go back only after it.
- `server/README.md:642` says that gaps of the publish sequence "are never
  reused".  A file that was linked but not synchronised counts as the record of
  its number (`metaserver_publisher_sequence.c:97`); a power failure may then
  bring a lower number back.
- `server/README.md:614` caps a process at 47 attempts per route in 24 hours.  The
  bucket of the rendezvous control is filled after every connection that lasted a
  minute (`socket/metaserver.c:657`); the cap holds between two of those
  (`CappedBetween`).

## 5. Proofs

*`AuthWorkerProofs`* (`TypeCorrect`, `Ownership`, `Uniqueness`, `Answers`,
`Secrecy`, `Wakeups`, `Order`, `Refinement`).  For every number of threads,
queue length, set of jobs and bound on requests, from the named assumptions of
`AuthWorker` and `AuthWork`.  The inductive invariant `IInv` adds to the checked
invariants what they leave out: which requests a running copy and its slot
share, that unused slots and idle copies are zero, that a queued slot holds
exactly the work asked for, and that threads beyond `threadCount` have not
started.  Ownership alone is not inductive: a stop during a half-finished start
has to know which threads exist, and a submission has to know that free slots
are clean.  There is one lemma per action.  `Wakeups` is inductive relative to
`IInv`.  `Order` is an action property: only `Pick` starts work.  `Refinement`
maps queued or running, not cancelled requests to `pending` and finished slots
to `finished`; each action is shown to be a step or a stutter of `AuthService`.

The budget, in the same module (`BudgetTypeCorrect`, `BudgetRate`,
`BudgetExact`, from `BudgetInv`).  For every burst, period, cost and bound on the clock.  `RateLimited` is not
inductive: it says nothing of the tokens still in the bucket.  `Balance` adds
them and the time that is not yet credited; `ExactRefill` is inductive with
the types.  The arithmetic is linear once products with the period are
distributed, which the first lemmas do.

*`AccountAuthProofs`* (`RequestsAlwaysAgree`, `EverySessionIsAuthentic`,
`EveryPasswordChangesByRight`).  For any connections, names, passwords, table
size and number of requests.  `AuthInv` is `RequestsAgree` with, for every entry,
the question it was made from (`AsksFor`) and, for every answer of the pool, what
it may claim (`Answered`); without these two a completion could not be tied to
the password the client sent, nor to the credential it replaces.  The two action
properties follow from the invariant; only a completion opens a session or
writes a credential.

*`AccessStoreProofs`* (`EndedStaysEnded`, `ImagesSound`, `RepliesAreKept`,
`SeenExpirySticks`).  For any tokens, requests, generations, limits and clock,
and for any files an earlier process may have left (`InitialAssumption`: they
pass `validate()` and their receipts are true).  `Images` are the snapshot in
memory, the file a process would read and everything a power failure may leave.
`StoreInv` says of *each* of them that it is sound (`Sound`: valid, every
identity once, receipts true) and that it keeps the ends that were committed,
the changes that were reported and the admissions that were granted (`Keeps`);
and of an issue whose route is being asked without the mutex that it owns the
revision it was asked against and its token while that is pending
(`CallSound`).  That is what a late activation needs: the token it finds under
its identity is its own, or one that has ended.  The first half of the module is
about snapshots alone, one lemma for each operation, saying that the new snapshot is
sound and takes nothing back (`Follows`); the second carries this over a commit
in its three outcomes, crashes, power failures and reopening.  Four of the
run's invariants follow from it; for `ObservedExpirySticks` it is enough that
`observed` is never before the latest time a check saw.

*`AccessServerProofs`* (`JobsAlwaysAgree`, `OnlyCurrentTokensAdmit`,
`CodesReachOnlyTheirAsker`).  For any finite set of connections and any number of
slots and tokens.  `JobsAgree` is not inductive: it counts references but does
not say that two clients never hold the same one.  `ServerInv` states the
correspondence between clients and slots one to one, but for a slot cancelled
while it runs (`Owning`); which slot the worker runs (`Running`); that the queue
has each queued slot once (`Queueing`); what a connection that is free, or has
not asked, may not hold (`Connected`); and, for the codes, that the connection
that waits for an issue is the one that asked for its token (`Asking`).
The set of connections is finite so that a job ID nobody refers to always exists
(`IdsLeft`); the code's counter always has one.

*`RosterProofs`* (`RosterIsSound`, `NothingRollsBack`, `ReceiptsAreKept`,
`SavedReceiptsAreTrue`): what is on disk when the server stops or dies.  The
first two hold for any accounts, characters and connections.  What makes
`RosterInv` inductive is what handlers rely on between two files (`JobSound`),
that the list of players has every session once (`ListSound`), that a login which
looks at the oldest session only has seen them all (`OneSession`), and that the
memory of an only session is not older than the file (`ConnSound`).  To allow for
the proof the model takes an entry out of the list by its place (`Without`), as
the linked list of `free_player_internal()` does.  The other two, about the
shutdown, hold for any request IDs and any countdowns.  `AdminInv` adds what holds
within a publication, between writing, linking and synchronising a receipt
(`ProcessSound`, `ReceiptsSound`), and that the countdown in memory is the one the
pending request started (`CountdownSound`): a receipt is only written steps after
the state it speaks of was reached.

*`JournalProofs`* (`JournalIsSound`, `FilesAlwaysClassify`,
`MarksGoBackOnlyForCause`).
For any transactions, limits and bound on sequence numbers.  The first part is
about sequences of files alone: opening a file and dropping the oldest ones
(`OpenedWellFormed`), and appending a record (`AppendWellFormed`), keep a journal
well formed.  `Chained` alone does not survive retention in a form that can be
used, since it speaks of neighbours; `Linked` says that a record with any earlier
record of its run also has its predecessor, and implies it.  `JournalInv` then
ties the files to the process: numbers are never ahead of the counter
(`Numbers`), a record appended now continues the run (`Growing`), a pinned
transaction has all its records in the file that is written and its plan is what
they name (`Open`), a domain it registered is pinned unless it was reset or its
player's session was taken over (`Pinned`), nothing of it is in a saved file
(`Held`), and a reported commit is under its mark in every session and map that
is in memory (`Classified`), which is why every later checkpoint classifies it.
`Numbers` says that a mark in memory is behind its file's only beside a session
that could not leave; with it, the steps that put an older mark into a file are
those that remove the runtime file of a map, and the saves of two sessions.

*`MetaserverProofs`* (`SequenceIsSound`, `ControlIsSound`, `PublisherIsSound`).
For any number of sequence numbers, generations, tickets and addresses.  `SequenceInv` adds that no
file a power failure may leave is above the one that is seen (`Highest`) and what
an operation under way has synchronised (`OperationSound`).  `ControlInv` says
which generation each ticket and each thread belongs to, and which thread may be
alive.  The publisher is proved for any number of players and late requests:
`PublisherSound` speaks of the publisher at rest; `PublisherInv` says
for a request under way, or handled and not yet freed, what it carried and what
becomes true with its result (`RequestLife`, `AttemptCurrent`,
`PublishedCurrent`).  That is the publisher's own view.  What the metaserver lists
it does not see: `ListedAsPublished` says that the listing is what was published
until the heartbeat is due or another state was attempted, and `ListingInv` why
(a request that was taken is listed and leaves nothing late, only such a request
succeeds, and one is begun only with another state or with the heartbeat due).
When an attempt with another state was given up and the players are back at what
was published, the publisher is content and the listing may be wrong until the
heartbeat; that it is then repaired is `CatchesUp`, which only TLC checks.

In the same module, the budget of attempts (`BudgetIsSound`).  For any capacity,
interval, stability and length of the run.  The two histories are cumulative:
`attempts[t]` is the number of attempts before `t`, and `forgiven` is what that
was when the last stable connection ended, so the attempts of any span are a
difference, and no sum over a set has to be reasoned about.  `AttemptsInv` adds
that every attempt leaves a deadline ahead of it (`NoneAfter`), and the invariant
proper, `Spaced`: what has been given since any time and is still held, beyond
the capacity, came one refill after the other, and the deadline is another refill
away.  A refill after a long idle time gives several at once and moves the
deadline by as many intervals (`WholeRefills`), unless the bucket is then full,
when the deadline starts anew.

*`AssetProofs`*, the loader (`LoadsAlwaysKept`).  For any tokens and
limits.  `LoaderInv` says that a load is in exactly one queue or under way (`Placed`), that the flags
are those of loads that exist and of the queues they are in (`Flagged`), and that
the two counts are the loads there are (`Counted`).  That the oldest of a queue is
passed at most twice is not inductive either: what `jobPassed` counts is tied to
the code's streak (`Streaks`), and for a turn of the oldest to be a turn of the
head of the queue, loads that are not urgent must stay in their order through
promotion and completion (`InTurn`).  As in the roster, the model takes
an entry out of a queue by its place (`Place`, `Without`), as the linked lists
do.

In the same module, the requests (`RequestsAlwaysKept`, `StreamsAlwaysByRight`).
For any faces, generic assets and limits.  `RequestsKept` is not inductive: it
does not say why a request may be freed, or what a batch still owes.
`RequestInv` adds that the order of requests holds each one once (`Sequenced`);
that a request without users is cancelled, that only a pending request has a
stream and then no batch, and that the mark of a stream to stop is never on a
request that waits (`RequestsAre`); that the members left of a batch belong to it
and to no other (`Belonging`); how far each batch has got and what its last
member means (`BatchesAre`, `LastGood`); the limits (`Limited`); and what each of
the two threads knows between its steps (`Threads`).  `Before` is shown to be a
strict total order of the requests, from which it follows that there is one
oldest request and that the batch for it begins with it.  For the action
property, all steps but opening a stream and the handoff are `Quiet`: they give
no waiting request a stream or a batch and isolate no request.  Opening serves the
oldest, and the handoff puts its mark on a stream or a batch that had none.
`Older` lists paths by their rank in the order, as the code
compares them by sequence number.

In the same module, the ticks of the server (`RotationIsFair`,
`RotationAdvances`).  For any finite set of connections, any streams and any
budgets the assumption allows.  `ServiceInv` says that a tick goes round the list
from its start, whatever has registered or left the list since (`Rotation`,
stated with the ring `TurnFrom`), that its first pass began at the cursor and
keeps enough of the budget for a second connection (`FirstPass`), that a visit
has no more than its tick has left (`VisitBounded`), and that of up to three
connections the one that waits is at the cursor (`NextWaits`), from which
`NoneWaits` follows.  `NoneWaits` speaks of up to three connections;
`RotationAdvances` gives the reason for any number: the end of a tick brings each
connection it did not visit at least two turns closer to the cursor, so one waits
at most half as many ticks as there are connections before it, unless others
register before it.

Each inductive invariant was first checked with TLC on the constants of its
run.  The assumptions are the `ASSUME`s of the modules: limits are positive
numbers, sets of IDs do not hold the null value, settings are Boolean.

Only model-checked:

- all liveness (`QueuedIsServed`, `StopReturns`, `EveryRequestEnds`,
  `RevokedSessionsEnd`, `EveryRowIsTried`, and those of the other runs): fairness and
  ENABLED are out of the prover's reach;
- `CommandQueue` (`QueueSound`) and its refinement of `CommandStream`: the
  offset of a command is a sum over the commands before it, and the refinement
  takes the buffer apart in the same way; both are facts by induction over the
  buffer.

## 6. What is not modelled

Within the modelled files: metrics and the bootstrap of accounts; the byte
encoding, checksums, directory and permission checks, read-only pages and
offline inspection of `access_tokens.c`; parsing and encoding of access
requests; accepting connections, the write queue and idle timeouts of
`socket/server.c`; signatures, URLs and response parsing of the metaserver;
digests and cache files of assets and the admission rounds of `image.c`; the
advisory lock against a second journal writer.  The pool's mutex for `crypt()`
protects a library buffer and is left out with the hash.

Other components.  Most of the repository's lines are the client's rendering and
GUI, the rules of the game and its world, the encoding of the visible world, the
Python binding and the tools.  They run on one thread over very large data, keep
little state whose order of changes matters, and are out of a model checker's
reach as a whole; a model of a rule would restate it.  "components" in
`PROJECT.json` gives the reason for each.

Limits of the models.  `AssetService` bounds the wait of connections that stay
registered; ones that are cut and registered again faster than the rotation turns
have no such bound.  `RendezvousControl` leaves times out, so it says nothing of
how long a control waits.  The map of `GameplayJournal` is an ordinary one;
a player's own unique map, which is saved in place, is not modelled there.  At
most one session waits to leave at a time: a second takeover while the first is
still deferred is left out.

## 7. Plan

Modelled: password pool and work budget; account authentication;
access-token store and access server; administrative shutdown; command queue
with its refinement; accounts and sessions; gameplay journal; metaserver;
assets on both sides.

Proved: see section 5.

Left, in this order.

1. `AccessServer` with `AccessStore` in the place of its token states, as a
   refinement; the two modules agree today only by being read together.
2. `CommandQueue`: a proof of `QueueSound` and of the refinement of
   `CommandStream`, with offsets kept as a history instead of sums.
