# GnuPG with elliptic curves: a TLA+ verification project

This directory holds TLA+ models of the program in `branches/gpg2ecc`: GnuPG 2.1
(with the ECC work of the branch) and the libraries that are developed with it.
The modules model the parts of it that keep state between calls and share that
state between processes, threads or sessions; TLC checks them on small
instances and TLAPS proves what holds for all of them.

Source paths below are relative to `branches/gpg2ecc/` unless they begin with
`branches/`.

## 1. The system

`gpg` (OpenPGP) and `gpgsm` (X.509) are short-lived command line programs.  Any
number of them run at the same time on one home directory.  They do not touch
secret keys or the card themselves: they talk, over local sockets and the
line-oriented Assuan protocol, to `gpg-agent`, which keeps the secret keys, asks
for passphrases through a `pinentry` child process and caches them, and which in
turn talks to `scdaemon`, the only process that drives the card readers.

    gpg, gpgsm --Assuan--> gpg-agent --Assuan--> scdaemon --APDU--> card
        |                     |  \--Assuan--> pinentry (child process)
        |                     \-- private-keys-v1.d/*, trustlist.txt
        \-- keyrings, keyboxes, trustdb.gpg  (files under lock files)

`gpg-agent` and `scdaemon` are multi-threaded with GNU Pth.  Pth threads are
cooperative: another thread runs only when the current one calls something that
blocks (a pth mutex that is taken, `pth_sleep`, Assuan I/O).  Everything between
two such calls is atomic, and this is the grain of the actions in the models of
the two daemons.  Between processes the grain is one system call.
## 2. Inventory

Each part with its state, its operations, what is hard about it and what makes
it correct.  "Modelled" names the module.

| part | state | operations | hard | correct when | |
|---|---|---|---|---|---|
| lock files, `gnupg/jnlib/dotlock.c` | the lock file; the handle's `locked` | create, make, release, destroy | processes die, pids come back, a stale file is removed by name | one holder; nobody waits for a dead owner | `Dotlock`, `AbstractLock` |
| keyrings, `gnupg/g10/keyring.c`, `keydb.c` | `pubring.gpg` or `secring.gpg`, backup, temporary file, lock handle | create, insert, update, delete of a keyblock | several `gpg` at a time, crashes between renames, full disks | no update is lost, the keyring is never half written | `Keyring` |
| descriptor cache, `gnupg/common/iobuf.c` | closed descriptors by file name | open, close, invalidate | a descriptor outlives the file of its name | a reader sees the file that has the name | `Keyring` |
| passphrase cache, `gnupg/agent/cache.c` | list of items with two time limits and a lock count | put, get, unlock, flush, housekeeping | pointers into the cache are used across points where the thread blocks | what is handed out stays valid and is not too old | `AgentCache` |
| scdaemon sessions, `gnupg/scd/command.c` | session list, card lock, `app_ctx`, flags for removal and release | card commands, RESET, RESTART, LOCK, end; the ticker | sessions change each other's flags, a lock order, the card changes | every command ends; nobody works on a card it does not know of | `Scd` |
| shared application, `gnupg/scd/app.c` | `lock_table`: active and saved application, reader lock, reference counts | select, release, notify, operations | released by several sessions, freed by the ticker | counted right, not lost, not used after it is freed | `Scd` |
| agent to scdaemon, `gnupg/agent/call-scd.c` | connections with a `locked` flag, the primary one, socket name | start, unlock, reset, aliveness check | the tick tears down connections in use; a flag is set after a yield | a connection has one user and is released once | `AgentScd`, `AgentCalls` |
| pinentry, `gnupg/agent/call-pinentry.c` | one dialog, its owner, a lock with a timeout, the popup thread | ask, confirm, message, popup start and stop, reset | timeout against a late answer, an owner that resets, an error that keeps the lock | one dialog; the lock comes back | `Pinentry`, `AgentCalls` |
| trust database, `gnupg/g10/tdbio.c` | record file, cache of records, lock | read, write, sync, hash table lookup and insert, new record | a full cache flushes in the middle of an operation, a sync is cut off half-way | what is assigned is found; the file is never worse than the last sync | `TrustDb` |
| agent start, `gnupg/common/asshelp.c` | socket, lock file, environment | find or start an agent | two clients start one each | one agent answers | not modelled yet |
| agent main loop, `gnupg/agent/gpg-agent.c` | listening sockets, shutdown count, timer | accept, signals, tick | own socket replaced, shutdown with clients | ends when the last client is gone | not modelled yet |
| agent commands, key files, protection | none between commands (key files on disk) | Assuan and ssh commands | wrong passphrase retries | sequential code | not modelled |
| `gpg` packets, signatures, encryption | none | one pass over a stream | data formats | format conformance | not modelled: data, not control |
| `gpgsm`, keybox | keybox files | as for keyrings | as for keyrings | as for keyrings | not modelled: the same scheme as `Keyring` |
| card applications, APDU, CCID | hardware | commands to a card | hardware | hardware protocol | not modelled; `Scd` has them as operations that take time |
| libassuan | protocol buffers | commands, inquiries | framing | every line gets one answer | not modelled; its calls are where threads block |
| libgcrypt: ECC, ciphers, mpi | none | arithmetic | carries and constant time | mathematical | not modelled: out of reach of both tools |
| libgcrypt: random, secmem | pool; block list | mix, allocate, free | one process | blocks do not overlap | later |
| libgpg-error, tools, keyserver helpers, translations, documentation | none | | | | not modelled: no state that is shared |

How they interact: `keyring.c` and `tdbio.c` call `dotlock.c` and `iobuf.c`;
the commands of `gpg-agent` call the cache, the pinentry and `call-scd.c`; the
tick of its main loop calls housekeeping and the aliveness check; `SIGHUP`
flushes the cache.  In `scdaemon` sessions and ticker meet in `app.c`.

## 3. Plan

Done, in this order: `Dotlock` (everything on disk rests on it), `Keyring` on
top of the lock that `AbstractLock` promises, `AgentCache`, `Scd`; then
`AgentScd` and `Pinentry`, which are independent of each other, and
`AgentCalls`, which composes them; then `TrustDb`.

What would come next:

1. The start of an agent, `asshelp.c`: two clients that find none at a time.
2. The main loop of the agent: shutdown while clients are connected.
3. Several keyrings: the order in which `keyring_lock` takes the locks of all
   registered keyrings.
4. `TrustDb` for two processes at a time: its records are read without the
   lock, so that they lose each other's updates is plain; the question is how
   much of the table survives.
5. A refinement: the trust database as a map from keys to trusts that a kill
   sets back to one of the values since the last sync.  The goal that the proof
   of `ViewRight` speaks of is the mapping.

## 4. The modules

An `Op_Slip` next to an operator `Op` is `Op` with a plausible slip in it.  No
definition uses it; putting it in place of `Op` makes a property fail, which is
how each property was tested.

### Dotlock: `gnupg/jnlib/dotlock.c`

`Dotlock` models the lock files that serialise the processes of a user.  Its
state is the file system object that all processes share (`lockfile`, the
process whose template file has the name `<file>.lock`), which processes run
(`running`, what `kill(pid, 0)` answers), and, for each process, the handle's
`locked` flag, where it is in `make_dotlock` or `release_dotlock` (`pc`), the
timeout it gave (`forever`) and the owner that `read_lockfile` found (`seen`).
One action is one system call: `link` (`LinkMade`, `LinkExists`), `open` and
`read` (`ReadDisappeared`, `ReadOwn`, `ReadOther`), `kill` (`KillStale`,
`KillHeld`), `unlink` (`BreakLock`, `Unlink`, `DestroyDotlock`).  `End` lets a
process exit or be killed at any point and `Reuse` lets its pid come back.

`AbstractLock` says what the users of a lock file rely on: an owner, the
processes that use the lock (`users`) and those that have ended (`gone`).  The
owner does not change while it uses the lock.  `ImplementsLock` is the
refinement: the lock file is the owner, a process for which a call of
`make_dotlock` returned 0 is a user.

Fairness: a process that is in a call goes on with it (its steps stay enabled
until it does them), and a caller that has the lock gives it back.  Calling
`make_dotlock` is not fair.

Left out: `disable_dotlock` (then there is no lock), template files that stay
behind, the Windows and RISC OS variants.  A pid does not come back between the
`kill` that finds its process ended and the `unlink` after it (`KillStale` to
`BreakLock`): pids are given out in turn.  Were it to, and the new process to
take the old file for its own, it would lose the lock in the way that
`DotlockBreakRace` shows for another owner.

### Keyring: `gnupg/g10/keyring.c`, `gnupg/g10/keydb.c`, `gnupg/common/iobuf.c`

`Keyring` models one keyring file and the processes that start
(`maybe_create_keyring`), read, update it (`keydb_insert_keyblock`,
`keydb_update_keyblock`, `keydb_delete_keyblock`) and end.  `main`, `bak` and
`tmp` are the keyring, `<name>~` and `<name>.tmp`; `owner` is who has the lock
file; `fp` is what the descriptor that `do_copy` reads shows, and `cached` the
descriptor that `iobuf.c` keeps after a search.  A descriptor shows the file it
was opened on, even when that file has been replaced: this is the point of
modelling the cache.  `secret` chooses between a secret keyring, which one
rename replaces, and a public one, which is missing between two.  `done` is a
history variable: what the calls that returned 0 have stored.  One action is one system call on these files, in the
order of `keyring_lock`, `do_copy`, `rename_tmp_file` and `unlock_all`;
`CreateTmpFails` and `WriteFails` are a directory that takes no file and a full
disk (the temporary file is removed, but not when it is its close that fails),
`Crash` is a kill at any point, `Restart` a new process.  The file name tests with `access()` are actions of their own, since
a public keyring is missing between its two renames.

Abstractions: content is a set of packets of keys; a search with the read that
follows it is one step; the lock is that of `AbstractLock` (with the lock of a
dead process removed at once).  `rename` fails only for want of the file: both
renames are within one directory, which the first one could change.  Should the
second fail all the same, the state is that of a kill between the two
(`Recoverable`): the keyring is the backup.

Fairness: gpg goes on with what it does and ends; nothing forces it to make
another update.

### AgentCache: `gnupg/agent/cache.c`

`used`, `before` and `item` are the list `thecache`; `held` and `sent` are the
pointer that a session got from `agent_get_cache` and the passphrase it had
then; `now` is the clock.  Every function of `cache.c` is one action, with the
call of `housekeeping` that it begins with: `Put` (`PutNothing`, `PutReplace`,
`PutInsert`, `PutMisses`), `Get`, `Miss`, `UnlockEntry`, `Flush` (`SIGHUP`).
`UseOnce` is `unprotect` in `findkey.c`, which gives the passphrase back before
anyone else runs.  `Kept` is the effect of the three loops of `housekeeping`.

A session blocks between `agent_get_cache` and `agent_unlock_cache_entry` only
in GET_PASSPHRASE, while Assuan sends the answer; it does when the escaped
passphrase is long, and so the model lets it always.

`AgentCacheLast` extends the module by a history, and the runs check its
specification: `last`, what was stored last for a cache id (nothing after it was
cleared or flushed), and `met`, the ids of which an item was in use then, until
all their items are gone.  `OnlyLast` says that what was replaced, cleared or
flushed is in no item then, but for the ids in `met`.  A put that returns
before it looks at the list (`PutNothing`) stores and clears nothing, also when
it is CLEAR_PASSPHRASE with `--default-cache-ttl 0`.

### AgentScd: `gnupg/agent/call-scd.c`

The connections of the sessions of `gpg-agent` to `scdaemon`.  `primary` and
`reusable` are `primary_scd_ctx` and `primary_scd_ctx_reusable`, `socket` is
`socket_name`, `startLock` is who has `start_scd_lock`, `ctx` what
`scd_local->ctx` of a session is, `scd` where the session waits, and `daemon`
is the process `scdaemon`.  `StartScd` and the disjuncts of `Start` are
`start_scd` from one blocking call to the next, with each way to fail; `Done`,
`NotOperational`, `Needpin`, `Popup` and the disjuncts of `Answer` are a card
command with the inquiries of `inq_needpin` and what `getpin_cb` of
`divert-scd.c` does with them; `Reset`, `Restarted` and `End` are
`agent_reset_scd`; `CheckAliveness` is `agent_scd_check_aliveness`, called from
the tick; `Die` ends `scdaemon` at any moment.

A session that talks on a dead connection gets an error at once.  The model
takes it that such a session is back before a *new* `scdaemon` has been started
and has said hello (`Returning`); a session that waits for its user is not, and
that is what `AgentContextFreed` is about.  What happens once a freed context
has been used is not defined; of the outcomes the model has that the session
comes back with an error, not that the agent crashes.

Left out: what the card commands are (they differ in what they send); a client
that sends BYE or RESTART to `scdaemon` through the command SCD; W32.

### Pinentry: `gnupg/agent/call-pinentry.c`

`entryLock` and `entryCount` are the recursive Pth mutex `entry_lock`,
`entryCtx`, `entryOwner` and `popup` are `entry_ctx`, `entry_owner` and
`popup_tid` with `popup_finished`; `pin` is where a session waits.
`StartPinentry`, `TimedOut`, `Acquired`, `Launched`, `LaunchFails` and
`OutOfCore` are `start_pinentry`; `Answered` ends a dialog; `PopupShown`,
`Stop`, `Joined`, `PopupEnds` are the popup message and its thread;
`ResetQuery` and `ThreadEnds` the end of a connection.  `Abandon` leaves a
popup that nobody takes down, which happens when the card command fails while
a keypad is used.  `trouble` remembers the sessions that did so, and those for
which `assuan_new` ran out of memory (`start_pinentry` then returns with the
lock): the properties say what they still mean then.

Left out: `pinentry_active_p`, the contents of dialogs, and the thread of a
popup that was left up and forgotten (it ends with its pinentry).  A `ctrl`
structure at the address of an earlier one belongs to a session of the same
kind (`Ssh` or not).

### AgentCalls

Composes the two: every step is one of `AgentScd`, one of `Pinentry`, or both
where `divert-scd.c` calls the one from the other (`AskPin`, `ShowPopup`,
`StopPopup`, `LosePopup`) or a session ends (`QueryStep`, `EndSession`).  A new
PIN that is asked for twice is one dialog or two NEEDPINs.  The composition
implements each of the two modules (`ImplementsScd`, `ImplementsPin` in
`AgentCallsProofs`), so whatever is proved of one holds here.  `AgentBase` has
the constants that they share.

Fairness.  Weak for a session that can go on: a thread that is ready runs,
users close their dialogs, pinentries answer.  Strong for the steps that want
`start_scd_lock` or talk to `scdaemon` (the mutexes of Pth go to the waiting
threads in turn, and `scdaemon` does not ask for a PIN for ever in one command)
and for the tick, which comes again and again.  Weak for the end of a popup
thread whose pinentry was killed.  Nothing forces a client to start a command,
a session to begin, or `scdaemon` to die.

### Scd: `gnupg/scd/command.c`, `gnupg/scd/app.c`

`tab` is `lock_table` with the application contexts: `active` (`app`), `last`
(`last_app`), and for each its `ref_count`, `no_reuse` and the card it was made
for (the last is not in the code; `SameCard` compares it).  `sessions` is
`session_list`, `ctrl` what a session has (`app_ctx`, `reader_slot`,
`card_removed`, `app_ctx_marked_for_release`), `locked` is `locked_session`.
`pc` says where a session waits: for the reader lock (`select`, `work`,
`notify`, `renotify`, the last also for `apdu_reset`, which takes time but not
this lock), for `status_file_update_lock` (`status`), or for the
card or a PIN with the reader locked (`probe`, `busy`).  `card` and `news` are
the environment: what is in the reader, and whether it has changed since
`update_reader_status_file` last asked.

`UseKept` and `OpenCard` are `open_card` without and with a connection to set
up; `Select`, `Found` are `select_application`; `Released`, `Notified`,
`Shared` are the calls into `app.c` as functions on the table; `Reset`,
`Renotify`, `ResetStatus` are `do_reset` between its points where it may
block, for RESET, for SERIALNO after a removal, and for the end of a session;
`Tick`, `TickNotify` are the ticker.

The code can open one reader (`get_reader_slot`), so `reader_slot` is -1 or 0.
Every card command is `cmd_pksign` for the model: open the card, lock the
reader, work, unlock.

Fairness: strong for the steps of a session inside a command and for the
ticker, since Pth runs its threads in turn and a mutex that is free again and
again is got; it includes that a client answers when it is asked for a PIN and
that a card answers.  Nothing forces a client to send a command, a user to
change a card, the ticker to find news, or a connection to a card to fail
(`ConnectFails`).

A client that waits with LOCK --wait is idle in the model, since the command
looks at `locked_session` once a second (`gnupg/scd/command.c:1545`) and holds
nothing meanwhile; `CommandsEnd` says nothing of it.  Whether it gets the lock
is up to the other clients.

Left out: KILLSCD, DISCONNECT with the option `card-timeout`, event signals,
the status file, readers without a driver, LEARN and the other commands that
differ from `cmd_pksign` only in what they do with the card.

`IS_LOCKED` compares the slots of two sessions.  After its own RESET a session
has none until its next command, and so gets the card although another session
holds the lock (`gnupg/scd/command.c:67`), while the help text of LOCK says
"Grant exclusive card access to this session".  The model does as the code; it
is one condition, and no property is made of it.

### TrustDb: `gnupg/g10/tdbio.c`

`file` and `exists` are the file, `cache`, `dirty` and `isDirty` the record
cache (`cache_list`, the flag of its entries, `cache_is_dirty`), `todo` the
records that the current operation has still to put into the cache.  A record
is one of `Version`, `Table`, `List`, `TrustRec`; the hash table is one record
with all its items, where the program's has 256 items in several records, of
which an operation on one key touches one.  `Find`, `Lookup` are
`lookup_hashtable`, `Inserts` is `upd_hashtable`; `Create`, `OpenDb`,
`CreateTable` make and open a file; `Change` and `Insert` are the two branches
of `update_ownertrust` and `import_ownertrust`, and `Invalid` is what they do
with a table they cannot read.  `PutCached`, `PutNew`, `Flush` are the branches
of `put_record_into_cache`; `Sync`, `SyncWrite`, `SyncDone` are `tdbio_sync`.
`Ends` ends a process anywhere: it is done, killed, or a write has failed.

`map` is what was assigned last, `asked` all that a key was assigned since the
last complete sync (and what it had then); `touched`, `torn`, `damaged` say
into which slots of the table a record was being inserted when a process was
cut off after it had begun to write.

Left out: two processes at a time; deleting records and the list of free ones
(no caller), transactions (not compiled), tables below a table, validity
records, dates, records written in part.  The order of the cache list is
arbitrary.

Where the model is coarser than the code:

* A full cache gives up one clean entry (`PutNew`) or writes one dirty entry
  (`Flush`) at a time.  The code gives up a third of the clean ones or a fifth
  of the dirty ones at once (`gnupg/g10/tdbio.c:205`, `:250`), at least one:
  the same for a `Soft` of up to 5, which is what `TrustAssumption` asks for.
  With the 200 of the code more entries go at a time.
* `Insert` appends the new trust record and the list record it may need in one
  step.
* `Invalid` does not put the trust record in the cache before it finds the table
  unreadable (`gnupg/g10/tdbio.c:1354`); the process ends there, so of that
  record only a flush that makes room for it could reach the file, which is
  `Flush` and an end.
* When the sync in `create_version_record` fails, the code goes on with a
  database of which only the cache knows (`gnupg/g10/tdbio.c:469`); in the model
  a write that fails ends the process.

## 5. The runs

MC modules hold only the constants of the instances: `MCDotlock`, `MCKeyring`,
`MCAgentCache`, `MCAgentCalls`, `MCTrustDb`, `MCScd`.  One passing run of each
module checks its `TypeOK`, too.

| run | instance | shows |
|---|---|---|
| `DotlockMutex` | 3 processes on 2 nodes, two of them with the same pid, none ends, `link`, `open` and `unlink` may fail | `MutualExclusion`, `LockedIsOwner`, `OnlyOwnerUnlinks` |
| `DotlockPair` | 2 processes, both may end anywhere and start again with the old pid | `ImplementsLock`: the abstract lock; `LockMovesOn`: nobody waits for ever behind a dead owner; `OwnLeftoverTaken`: a process takes over a file with its own pid |
| `DotlockBreakRace` | 3 processes, one of which exits | violated: `MutualExclusion` |
| `KeyringOneWriter` | public keyring, one process that imports and deletes, one that starts and reads, full disk, kill | `RingIntact`: the keyring is what was stored; `Recoverable` |
| `KeyringWriters` | public and secret keyring, two processes that make keys, are killed and run again | `NothingLost`, `CopyUnderLock` (both of the secret one), `LockComes`: nobody waits for the lock for ever |
| `KeyringStaleDescriptor` | secret keyring, two processes that import | violated: `NothingLost` |
| `AgentCacheShared` | 2 sessions, 4 items, 1 cache id, 2 passphrases, 3 seconds | `HeldStays`, `LockcountExact`, `FewDuplicates`, `ServedInTime`; `OnlyLast`: a passphrase that was replaced or cleared is gone |
| `AgentCalls` | 2 sessions, one of them for ssh, `scdaemon` dies and is started | `PipeOwned`, `NoStaleContext`, `NotForgotten`: one `scdaemon`, whose pipe has one user or is free; `OwnerTalks`, `PopupAlone`, `GivenBack`: one pinentry; `EndsClean`; `CommandsEnd`, `DeathNoticed` |
| `AgentContextFreed` | the same | violated: `InUseStays` |
| `TrustDb` | 4 keys, 3 of them in one slot of the table, 2 trusts, a cache of 2 records, 7 records | `ViewRight`: what was assigned is found; `FileRight`: the file is not worse than the last sync, but for slots that are being inserted into; `CacheKnown` |
| `ScdShared` | 2 sessions, ticker, 2 cards, memory for 2 applications | `AppsCounted`, `NoLeak`, `LastUserUndisturbed`, `LockOwnerLives`, `SavedIsFresh`, `CommandsEnd` |
| `ScdCardSwapped` | 2 sessions, 2 cards | violated: `SameCard` |

Bounds and why they are enough.  `Dotlock` has no bound but the number of
processes: a race for a lock needs an owner that ends, one who finds it stale
and a third, and three processes are all that.  `MaxCalls` bounds the updates
of one process in `Keyring`: two are one whose search fills the descriptor
cache and one that uses it.  Two keys tell an update of one key from the loss
of another.  `AgentCache`: three seconds with limits of one let an item expire
in each way while another is held; the fourth slot is one more than
`FewDuplicates` allows.  One cache id, since items of different ids meet only
in the order of the list; two passphrases are one that was replaced and one that
replaced it.  `AgentCalls`: two sessions make every pair of owner
and waiter, of both kinds; there is one pipe, one pinentry and one tick.
`MaxCount` 2 is a mutex that is taken once more by its owner, which happens
when a popup of the same session has been left up.  `TrustDb`: with `Slots` 2
the third key of a slot of the table needs a second list record, so a list is
made, filled and extended; seven records (`MaxRec` 6) are version, table, three
trust records and two lists.  `Soft` 2 makes the cache full in every operation
that writes three records.  `MaxPending` (how many keys a change that is not
synced may concern) and `OneCut` (a second process is not cut off in an
insertion while one such slot is known) bound only how much history there is.
`Scd`: two sessions and a ticker make every wait for the reader and every order
of releases; two contexts are one that is active or saved and one that must not
be needed.

`CHECK_DEADLOCK FALSE` stands where the system may stop: all processes have
ended, the clock has reached `MaxTime`, or the trust database has no version
record and no program opens it any more.

## 6. What the runs found

* **Two owners of a lock file** (`DotlockBreakRace`, `gnupg/jnlib/dotlock.c:454`).
  `make_dotlock` reads the owner, looks whether it runs, and unlinks the file
  by name.  When the owner exits, a second process removes its file, a third
  one takes the lock, and the first one that looked removes the live lock.
* **A stale descriptor** (`KeyringStaleDescriptor`, `gnupg/common/iobuf.c:401`).
  A search closes the keyring and `iobuf.c` keeps the descriptor; `do_copy`,
  under the lock, gets it back and copies the file as it was.  What another
  process has stored meanwhile is lost.
* **A context freed in use** (`AgentContextFreed`,
  `gnupg/agent/call-scd.c:503`).  When `scdaemon` has died, the tick releases
  the connections of all sessions.  It holds `start_scd_lock`, but a session has
  that only while it connects: one that asks its user for a PIN meanwhile goes
  on with the freed context.
* **A swapped card goes unnoticed** (`ScdCardSwapped`,
  `gnupg/scd/command.c:335`).  `do_reset` of one session, at its end for
  instance, takes notice of the new status and does not flag the others; the
  ticker sees no change any more.

Seen on instances that are not kept as runs:

* With two processes that update a *public* keyring `CopyUnderLock` would fail
  without its precondition: `keyring_lock` skips a keyring that is missing
  between the two renames of another process, or calls `make_dotlock` without a
  handle.
* With `MayFail = {p1}` in `KeyringWriters`, `NothingLost` fails although keys
  are only made, not imported: a write that fails leaves the descriptor in the
  cache, and the next update of that process copies the old file.
* With `MayRestart = {p1}` and `MaxCalls = 3` in `KeyringOneWriter`,
  `Recoverable` fails: after a kill between the two renames the next gpg makes
  an empty keyring, and its first update renames that over the backup.
* `SameCard` fails without any reset, too: the ticker flags the sessions on the
  reader and then waits for the reader with the rest of
  `application_notify_card_reset`.  A session that has closed the reader with
  RESET is not flagged, gets the reader first and shares the application of the
  old card.
* A passphrase that is replaced, cleared or flushed while a session sends it
  stays in the cache and is handed out again (`OnlyLast` excepts its cache id),
  although `gnupg/agent/cache.c:193` says it "will be replaced".  It may come
  back much later, too: there are two items of the id then, `agent_put_cache`
  changes the first one that nobody uses, and `agent_get_cache` finds the first
  one that nobody uses and has a passphrase.  CLEAR_PASSPHRASE clears one of
  them.  The comment at `gnupg/agent/cache.c:285`, that an item without locks is
  an updated entry, is not always right for this reason.
* PRESET_PASSPHRASE with a ttl of -1 ("infinite") ends at `--max-cache-ttl`.
* A process that is killed while it makes or extends a list of the trust
  database can lose the trusts of all keys in that slot of the table, old ones
  too: the table points to a list record that was never written, or a list to a
  next one (this is why `FileRight` excepts those slots).
* A session whose `assuan_new` fails in `start_pinentry` keeps `entry_lock`
  until it ends; a popup that was left up blocks others the same way.

## 7. The proofs

All theorems hold for every value of the constants that the named assumptions
allow (`ProcAssumption`, `PidAssumption`, `KeyringAssumption`,
`CacheAssumption`, `SessionAssumption`, `PinAssumption`, `TrustAssumption`,
`ScdAssumption`).  Where a theorem needs more it says so in its statement.

`DotlockProofs`: `TypeCorrect` for every behaviour; `Exclusion`,
`OwnerCorrect`, `OnlyOwner` and `Implementation` (the refinement of
`AbstractLock`) where `SafeUse` holds: no process ends, or there are at most
two.  `DotlockBreakRace` shows that without it they do not hold.  The
inductive invariant `IInv` adds to "a locked handle has its file"
(`HandleInv`) that the owner which a process is about to break has ended
(`SeenInv`); `BreakLock` needs that.

`KeyringProofs`: `KeyringTypeOK` always; `CopiesUnderLock` for a secret keyring
with any number of updaters and a public one with a single updater
(`OneUpdates`).  Its invariant `LockInv` says who has the lock where, and that
for an updater the file is missing only between its own renames: this is what
makes it harmless that `keyring_lock` and `unlock_all` skip a missing file.
`OneWriterIntact` and `OneWriterRecoverable` (one updater, nobody is run again
after a kill) add `KeepInv`: a cached descriptor is the keyring (`CachedNow`),
what is read and written is the keyring as it was stored (`AsSeen`), and the
backup is while the keyring is being renamed (`KeptSafe`).
`GeneratedKeysStay` (any number of processes that only make keys, in a secret
keyring, no full disk) rests on `GenInv`: nobody has a cached descriptor.  The
run `KeyringStaleDescriptor`, and the instance with a full disk above, show
that neither condition can be dropped.

`AgentCacheProofs`: `CacheInvariant`, and from it `TypeCorrect`, `HeldCorrect`
and `LockcountCorrect`.  `HeldStays` is not inductive by itself: that an item
in use is not freed follows from its lock count, which must therefore be
exact.  `Kept` (housekeeping), `Flushed` and the list operations have a lemma
each: what they keep of types, order and items in use.  `FewCorrect` follows by
counting: an item is inserted only when all others of its key are in use, by
different sessions.  Counting uses the library's facts on finite sets; `Thread`
must be finite for it.  `ServedCorrect` is the action property, from what
housekeeping leaves.  `LastCorrect` is about the history.  `OnlyLast` is not
inductive: with two items of an id a put would replace one and leave the other.
`LastInv` adds that an id has two items only if it is in `met`, since a second
one is inserted only when the first is in use; `IInv` gives what is needed of
lock counts and list.  `LastIsSpec` carries the other theorems over to the
specification that the runs check.

`AgentScdProofs`: `ScdInvariant`, and from it `ScdPipeOwned`,
`ScdNoStaleContext`, `ScdNotForgotten`.  The invariant says in addition where a
session that has `start_scd_lock` is, and which connection it can have there.
`ScdInUse` says that what `AgentContextFreed` finds happens only while
`scdaemon` is dead and a user is being asked.
`PinentryProofs`: `PinInvariant`, and from it `PinOwnerTalks`, `PinPopupAlone`,
`PinGivenBack`; it says what each place of a session implies about lock, count,
context and popup.  `AgentCallsProofs`: `ImplementsScd` and `ImplementsPin`,
with one step per action, carry all of that over to the composition;
`CallsTypeOK` and `CallsEndsClean` need the joint invariant `Where`: where a
session can be in one module while it is somewhere in the other.  From the
same invariant `CallsNoCircle`: nobody waits in a circle for `start_scd_lock`
and `entry_lock`, which is what `CommandsEnd` owes to the order of the locks.

`TrustDbProofs`, for any numbers of keys, slots, records and cache entries and
any length of a list record: `TrustTypeOK`, `TrustCacheKnown`, `TrustNoHoles`
from `IInv`.  That a clean cache entry equals its record in the file is not
inductive: appending a record to the file could change one that is cached.  The
invariant therefore says that the records of the file are the first ones,
without a hole, and that what is or will be in the cache lies at most one
beyond them.

`TrustViewRight`, `TrustFileRight` and `TrustFileSound` need much more
(`DbInv`).  A search is right only in a database in which all records of an
operation are there, and between two writes there is none: the file has some of
them, the cache others, and `todo` the rest.  `DbInv` therefore speaks of the
database as it will be when the operation is done, the `Goal`:

* It is `Sound` (its lists have an end, since each leads to a higher record
  number; no record is in two slots; no slot has a key twice), its trusts are
  the ones asked for (`Valued`), and all keys that have one are found
  (`Settled`), but in the slots that were damaged before.
* A record in the file or the cache is one that the goal may have had there
  earlier (`Older`): never written, a table with a slot that was empty or had
  the single trust record that is now in its list, a list with fewer members.
  In a slot where nothing was inserted since the last sync it is the same but
  for the trust (`Same`), and the trust is one that was asked for.  These
  three are `Fits`.
* `StageInv` says what holds at each stage: nothing is cached without a process;
  when the version record is not the one to write, everything that is or will be
  in the cache is in the file's range.

A database of records that are older than those of a sound one is sound
(`PastSound`), which gives what a kill leaves (`StopDb`: the file becomes the
goal).  Writing to the cache or the file leaves the goal alone (`SameGoal`).
Each of the four ways of `upd_hashtable` makes a goal of which the last one is
the past and whose other slots are the same (`Grown`, `GrownSound`,
`GrownSettled`, `GrownFits`), and older than old is old (`PastTrans`).

`TrustNeverBack`, which no run has, compares the file before and after a step:
in whatever order the records of the cache are written, no key goes back to a
trust that was replaced.  It needs both invariants and `TrustFirst` (an
insertion writes its new trust record first): a trust record is written when
the goal already has it.

The walks along a list (`Listed`, `Last`) are recursive functions.  What they
compute is proved without induction: such a function exists (`WalkExists`, even
if there were a circle), so it has the value of its own equation, and the
records where it has the value of the first one are closed under `next`; what
is reached (`Reach`) is defined as the least closed set.  That a list has an
end follows from its greatest record number (`Greatest`), by the library's
well-founded order on the naturals.

`ScdProofs`: `ScdInvariant`, and from it `TypeCorrect`, `AppsCorrect`,
`NoLeakCorrect`, `SavedCorrect` and `ReleaseCorrect`; `OwnerLives` with a
small invariant of its own (`Owner`).  `Core` says of a table and the
applications in use that they fit (one active application, references
counted, saved or active but not both), with one lemma for each call into
`app.c`.  `Places` adds what the sessions know where they wait: who waits in
`select`, `status` or `renotify` has no application, and while a card is read
no application is active.  The latter is why `release_application` may
decrement before it waits: if a session holds the reader, either it uses the
application itself (then the count does not reach 0) or nobody has one.

Model-checked only: the liveness properties (`LockMovesOn`,
`OwnLeftoverTaken`, `LockComes`, `CommandsEnd`, `DeathNoticed`), since liveness
under fairness and ENABLED are beyond the prover.  Every invariant and every
action property of the runs has a theorem, some of them under the conditions
named above.  No module has a RECURSIVE operator.

## 8. Not modelled

What section 2 marks so, for these reasons.  Most of the program is data: the
OpenPGP and CMS packets, S-expressions, the arithmetic of libgcrypt, the APDUs
of the card applications, option parsing.  It runs in one process from start to
end and keeps no state between calls; a model of it would repeat the code.  The
parts that do keep state and are not modelled yet are those of section 3.  In
the modelled parts, what is left out stands with each module in section 4.
