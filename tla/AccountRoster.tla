---------------------------- MODULE AccountRoster ----------------------------
(***************************************************************************)
(* Accounts, their characters and the sessions that play them, as in       *)
(* server/src/server/account.c and server/src/types/player.c: the file of  *)
(* an account is reserved before it is saved, the file of a character is   *)
(* created before the account lists it, a login takes a character over     *)
(* from an older session, and a logout waits while the gameplay journal    *)
(* has a transaction of the player open.                                   *)
(*                                                                         *)
(* Passwords are in AccountAuth; here an account is its file and roster.   *)
(* A player's file holds the version of the character, counted over all    *)
(* sessions.  A handler is one step per file it changes, and the process   *)
(* may end between two of them.                                            *)
(***************************************************************************)
EXTENDS Integers, FiniteSets, Sequences, SequencesExt

CONSTANTS
    Accounts, Chars,
    Conns,          \* connections at a time; a bound of the model
    RosterLimit,    \* ACCOUNT_CHARACTERS_LIMIT
    MaxVersion      \* changes to characters; a bound of the model

ASSUME BoundsAssumption == {RosterLimit, MaxVersion} \subseteq Nat \ {0}

Free == [phase |-> "free"]
Idle == [op |-> "idle"]

\* Files of players: not there, empty (or the character as created), or a version.
NoFile == -1
EmptyFile == 0

VARIABLES
    up,         \* the server runs
    exists,     \* account files, empty or not
    saved,      \* account files with a credential
    roster,     \* the characters an account file lists
    pfile,      \* the files of the players
    conn,       \* connections and the players they control
    players,    \* the list of players, as connections, oldest first
    job,        \* the handler between two of its files
    version,    \* history: the newest version of any character
    created,    \* history: who was told that a character was created
    split       \* history: characters taken over from a session that could not end

files   == <<exists, saved, roster, pfile>>
history == <<version, created, split>>
roster_vars == <<up, files, conn, players, job, history>>

RosterInit ==
    /\ up = FALSE
    /\ exists = {} /\ saved = {} /\ roster = [a \in Accounts |-> {}]
    /\ pfile = [c \in Chars |-> NoFile]
    /\ conn = [n \in Conns |-> Free] /\ players = <<>> /\ job = Idle
    /\ version = 0 /\ created = {} /\ split = {}

Serving == up /\ job = Idle
Sessions(c) == {n \in Range(players) : conn[n].char = c}

Oldest(places) == {players[i] : i \in {x \in places : \A y \in places : x <= y}}

\* Mistake: the search starts at the second player.
Found_Skips(c) == Oldest({i \in DOMAIN players \ {1} : conn[players[i]].char = c})

\* find_player(): the oldest session, if there is one.
Found(c) == Oldest({i \in DOMAIN players : conn[players[i]].char = c})

\* free_player_internal() takes a session, if there is one, off the list.
Without(gone) ==
    IF gone = {} THEN players ELSE RemoveAt(players, CHOOSE i \in DOMAIN players : players[i] \in gone)

-----------------------------------------------------------------------------
(* Provisioning of an account with a character, before the server runs. *)

\* account_reserve_file() creates the file and fails if there is one.
Reserves(a) == a \notin exists

Provision(a, c) ==
    /\ ~up /\ job = Idle
    /\ Reserves(a)
    /\ exists' = exists \cup {a}
    /\ job' = [op |-> "provision", account |-> a, char |-> c]
    /\ UNCHANGED <<up, saved, roster, pfile, conn, players, history>>

\* The player's file is reserved too, or everything is rolled back.
ProvisionPlayer ==
    /\ job.op = "provision"
    /\ IF pfile[job.char] = NoFile
       THEN /\ pfile' = [pfile EXCEPT ![job.char] = EmptyFile]
            /\ job' = [job EXCEPT !.op = "provision-save"] /\ UNCHANGED exists
       ELSE exists' = exists \ {job.account} /\ job' = Idle /\ UNCHANGED pfile
    /\ UNCHANGED <<up, saved, roster, conn, players, history>>

ProvisionSave ==
    /\ job.op = "provision-save"
    /\ \/ /\ saved' = saved \cup {job.account}
          /\ roster' = [roster EXCEPT ![job.account] = {job.char}]
          /\ created' = created \cup {<<job.account, job.char>>}
          /\ job' = Idle /\ UNCHANGED <<exists, pfile>>
       \/ /\ pfile' = [pfile EXCEPT ![job.char] = NoFile]
          /\ job' = [job EXCEPT !.op = "unreserve"]
          /\ UNCHANGED <<exists, saved, roster, created>>
    /\ UNCHANGED <<up, conn, players, version, split>>

\* The reserved file of an account is removed after a failure.
Unreserve ==
    /\ job.op = "unreserve"
    /\ exists' = exists \ {job.account} /\ job' = Idle
    /\ UNCHANGED <<up, saved, roster, pfile, conn, players, history>>

Start == ~up /\ job = Idle /\ up' = TRUE /\ UNCHANGED <<files, conn, players, job, history>>

-----------------------------------------------------------------------------
(* Accounts and characters. *)

\* account_auth_complete() for a registration, up to account_reserve_file()
Register(n, a) ==
    /\ Serving /\ conn[n] = Free
    /\ Reserves(a)
    /\ exists' = exists \cup {a}
    /\ job' = [op |-> "register", account |-> a, conn |-> n]
    /\ UNCHANGED <<up, saved, roster, pfile, conn, players, history>>

RegisterSave ==
    /\ job.op = "register"
    /\ \/ /\ saved' = saved \cup {job.account}
          /\ roster' = [roster EXCEPT ![job.account] = {}]
          /\ conn' = [conn EXCEPT ![job.conn] = [phase |-> "login", account |-> job.account]]
          /\ job' = Idle
       \/ job' = [op |-> "unreserve", account |-> job.account] /\ UNCHANGED <<saved, roster, conn>>
    /\ UNCHANGED <<up, exists, pfile, players, created, version, split>>

\* account_load() refuses a file without a credential.
Login(n, a) ==
    /\ Serving /\ conn[n] = Free /\ a \in saved
    /\ conn' = [conn EXCEPT ![n] = [phase |-> "login", account |-> a]]
    /\ UNCHANGED <<up, files, players, job, history>>

\* path_touch() of the player's file.
Touched(c) == [pfile EXCEPT ![c] = EmptyFile]

\* player_exists() says no.
NameFree(c) == pfile[c] = NoFile

\* account_new_char() up to path_touch()
NewChar(n, c) ==
    /\ Serving /\ conn[n].phase = "login"
    /\ NameFree(c) /\ Cardinality(roster[conn[n].account]) < RosterLimit
    /\ pfile' = Touched(c)
    /\ job' = [op |-> "newchar", account |-> conn[n].account, char |-> c]
    /\ UNCHANGED <<up, exists, saved, roster, conn, players, history>>

\* The account is saved; if that fails, the player's file stays.
NewCharSave ==
    /\ job.op = "newchar"
    /\ \/ /\ roster' = [roster EXCEPT ![job.account] = @ \cup {job.char}]
          /\ created' = created \cup {<<job.account, job.char>>}
       \/ UNCHANGED <<roster, created>>
    /\ job' = Idle
    /\ UNCHANGED <<up, exists, saved, pfile, conn, players, version, split>>

-----------------------------------------------------------------------------
(* Sessions. *)

\* What a logout leaves in the player's file: on a map without saves, or if
\* saving fails, the old version.
Leaves(n) == {pfile[conn[n].char], conn[n].mem}

\* A session that is taken over while its logout has to wait.
TakenOver(n) == [conn[n] EXCEPT !.phase = "dead"]

\* Mistake: the file is read before the older session is logged out.
Loaded_Before(c, left) == pfile[c]

\* The player's file is read after the older session has left it.
Loaded(c, left) == left

\* account_login_char() and player_login(): the oldest session of the
\* character is logged out, but whether that happened is not looked at.  The
\* login may still be refused, by a ban or by the file.
LoginChar(n, c) ==
    LET old  == Found(c)
        open == {o \in old : conn[o].pinned}
    IN  /\ Serving /\ conn[n].phase = "login" /\ c \in roster[conn[n].account]
        /\ \E left \in IF old = open THEN {pfile[c]} ELSE UNION {Leaves(o) : o \in old},
              refused \in BOOLEAN :
              /\ pfile[c] = NoFile => refused
              /\ pfile' = [pfile EXCEPT ![c] = left]
              /\ conn' = [o \in Conns |->
                            IF o = n
                            THEN IF refused THEN Free
                                 ELSE [phase |-> "playing", account |-> conn[n].account, char |-> c,
                                       mem |-> Loaded(c, left), pinned |-> FALSE]
                            ELSE IF o \in open THEN TakenOver(o)
                            ELSE IF o \in old THEN Free ELSE conn[o]]
              /\ players' = Without(old \ open) \o (IF refused THEN <<>> ELSE <<n>>)
              /\ split' = IF open = {} \/ refused THEN split ELSE split \cup {c}
        /\ UNCHANGED <<up, exists, saved, roster, job, version, created>>

\* The character changes.
Play(n) ==
    /\ Serving /\ conn[n].phase = "playing" /\ version < MaxVersion
    /\ version' = version + 1
    /\ conn' = [conn EXCEPT ![n].mem = version + 1]
    /\ UNCHANGED <<up, files, players, job, created, split>>

\* A script opens a transaction of the gameplay journal, and ends it later.
OpenTransaction(n) ==
    /\ Serving /\ conn[n].phase = "playing" /\ ~conn[n].pinned
    /\ conn' = [conn EXCEPT ![n].pinned = TRUE]
    /\ UNCHANGED <<up, files, players, job, history>>

Unpinned(n) == [conn[n] EXCEPT !.pinned = FALSE]

Close(n) ==
    /\ Serving /\ n \in Range(players) /\ conn[n].pinned
    /\ conn' = [conn EXCEPT ![n] = Unpinned(n)]
    /\ UNCHANGED <<up, files, players, job, history>>

\* player_save_checked()
Save(n) ==
    /\ Serving /\ conn[n].phase = "playing" /\ ~conn[n].pinned
    /\ pfile' = [pfile EXCEPT ![conn[n].char] = conn[n].mem]
    /\ UNCHANGED <<up, exists, saved, roster, conn, players, job, history>>

Disconnect(n) ==
    /\ Serving /\ conn[n].phase \in {"login", "playing"}
    /\ conn' = [conn EXCEPT ![n] = IF conn[n].phase = "login" THEN Free ELSE [conn[n] EXCEPT !.phase = "dead"]]
    /\ UNCHANGED <<up, files, players, job, history>>

\* player_logout_checked(), retried until it is no longer deferred.  The
\* account's file is saved again, with the same roster.
Logout(n) ==
    /\ Serving /\ conn[n].phase = "dead" /\ ~conn[n].pinned
    /\ \E left \in Leaves(n) : pfile' = [pfile EXCEPT ![conn[n].char] = left]
    /\ conn' = [conn EXCEPT ![n] = Free]
    /\ players' = Without({n})
    /\ UNCHANGED <<up, exists, saved, roster, job, history>>

\* The process ends, in the middle of a handler or not.
End ==
    /\ up \/ job # Idle
    /\ up' = FALSE /\ job' = Idle /\ conn' = [n \in Conns |-> Free] /\ players' = <<>>
    /\ UNCHANGED <<files, history>>

-----------------------------------------------------------------------------
RosterNext ==
    \/ \E a \in Accounts, c \in Chars : Provision(a, c)
    \/ ProvisionPlayer \/ ProvisionSave \/ Unreserve \/ Start
    \/ RegisterSave \/ NewCharSave
    \/ \E n \in Conns :
          \/ \E a \in Accounts : Register(n, a) \/ Login(n, a)
          \/ \E c \in Chars : NewChar(n, c) \/ LoginChar(n, c)
          \/ Play(n) \/ OpenTransaction(n) \/ Close(n) \/ Save(n) \/ Disconnect(n) \/ Logout(n)
    \/ End

RosterSpec == RosterInit /\ [][RosterNext]_roster_vars

-----------------------------------------------------------------------------
(* Properties. *)

Phases == {"free", "login", "playing", "dead"}

\* Types; who plays does so on an account that lists the character.
ARTypeOK ==
    /\ up \in BOOLEAN
    /\ saved \subseteq exists /\ exists \subseteq Accounts
    /\ \A a \in Accounts : roster[a] \subseteq Chars /\ (roster[a] # {} => a \in saved)
    /\ \A n \in Conns : conn[n].phase \in Phases /\ (conn[n].phase \in {"playing", "dead"} <=> n \in Range(players))
    /\ \A c \in Chars : pfile[c] \in -1..MaxVersion
    /\ \A c \in Chars, n \in Conns : n \in Sessions(c) => c \in roster[conn[n].account]

\* player_login() relies on it: "This shouldn't happen, because creating a new
\* character creates an empty file", whatever fails or ends in between.
RosterHasFiles == \A a \in Accounts : \A c \in roster[a] : pfile[c] # NoFile

\* A character belongs to one account, although names are checked by files
\* and belong by rosters.
OneOwner == \A a, b \in Accounts : a # b => roster[a] \cap roster[b] = {}

\* A character that was reported as created stays with its account.
CreatedStay == \A p \in created : p[2] \in roster[p[1]] /\ pfile[p[2]] # NoFile

\* Of the sessions of one character at most one is alive, although a login
\* looks at the oldest only; not so once the logout of a session that was
\* taken over had to wait.
OneAlive ==
    \A c \in Chars \ split : Cardinality({n \in Sessions(c) : conn[n].phase = "playing"}) <= 1

\* Accounts, character files and sessions agree, whatever failed or ended in
\* between.
RosterSound == ARTypeOK /\ RosterHasFiles /\ OneOwner /\ CreatedStay /\ OneAlive

\* A character never goes back to an older version, unless it was once taken
\* over from a session whose logout was deferred; only the file of a character
\* that no account lists is removed.
NoRollback ==
    [][\A c \in Chars \ split' :
          pfile'[c] < pfile[c] => pfile[c] = EmptyFile /\ \A a \in Accounts : c \notin roster[a]]_roster_vars

=============================================================================
