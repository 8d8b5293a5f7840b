# Formal models of gitgres

gitgres stores git objects and refs in PostgreSQL. libgit2 is given two
backends: an object database (`src/backend/odb_postgres.c`) and a ref
database (`src/backend/refdb_postgres.c`, lines 1-1195). Several programs
drive them: the remote helper `git-remote-gitgres` (the rest of
`refdb_postgres.c`, from line 1197), the CLI (`src/backend/main.c`) and the
SQL functions and C extension under `src/unnamed`, `src/sql` and `src/ext`.
This directory holds TLA+ models of those parts, TLC configurations that
check them, and TLAPS proofs.

## 1. The system

| Part (spec section) | Code | State it changes |
|---|---|---|
| C1 OID codec | `unnamed/part_000`, `ext/sql/gitgres--0.1.sql` | none (pure) |
| C2 object hasher | `unnamed/part_004` | none (pure) |
| C3 tree parser | `ext/tree_parse.c`, `sql/functions/tree_parse.sql` | none (pure) |
| C4 commit parser | `sql/functions/commit_parse.sql` | none (pure) |
| C6 object DB | `backend/odb_postgres.c` | `objects` table (insert-or-ignore) |
| C7 ref DB | `backend/refdb_postgres.c` 1-1195 | `refs` and `reflog` tables, the row locks, the advisory locks, the connection's transaction |
| C8 pack ingestion | `odb_postgres.c` `pg_odb_writepack` | `objects`, a temp directory |
| C9 remote helper | `refdb_postgres.c` 1197-1699 | stdin/stdout dialogue, then C6 and the `refs` table |
| CLI | `backend/main.c` | C6 and `refs` through libgit2 and SQL |
| schema | `unnamed/part_003` | tables `repositories`, `objects`, `refs`, `reflog` |
| SQL ref functions | `unnamed/part_005` | `refs` |

**How the parts interact.** Each process has one libpq connection. That
connection carries both backends of one libgit2 repository. Several
processes, such as two concurrent pushes, share the database. Inside a
process everything is sequential (spec section 5). Concurrency therefore lives
between connections, and the database provides the synchronisation:

- `SELECT ... FOR UPDATE` and the upserts take row locks, held to COMMIT.
- `pg_advisory_xact_lock` takes a lock that lasts until the transaction ends.
- The deadlock detector breaks wait cycles.

The ref DB is the only component with real protocol state. That state is:

- the transaction its calls open with `BEGIN` on the shared connection;
- the locks that transaction holds;
- the `pg_ref_lock` payloads that `lock` hands to libgit2, which `unlock`
  later consumes.

**Operations of C7 that change state.** Each is a short sequence of SQL
round trips:

- `write`: BEGIN, [SELECT FOR UPDATE + CAS checks], upsert, [reflog INSERT],
  COMMIT.
- `del`: BEGIN, [SELECT FOR UPDATE + CAS], DELETE ref, DELETE reflog
  (unchecked), COMMIT.
- `rename`: BEGIN, [SELECT new] or [DELETE new] (unchecked), UPDATE ref,
  UPDATE reflog (unchecked), SELECT renamed, COMMIT.
- `lock`: BEGIN, `pg_advisory_xact_lock`.
- `unlock(success)`: either upsert + [reflog INSERT], or DELETE ref + DELETE
  reflog (unchecked). It then COMMITs, or ROLLBACKs if a checked statement
  failed, and ignores the answer.
- `reflog_rename` and `reflog_delete`: one autocommit statement each.

Each failing checked statement is followed by ROLLBACK and a return.

**Hazards.** PROJECT.json lists each at its source line. In short:

- the create race (FOR UPDATE cannot lock an absent row);
- CAS between concurrent writers;
- unchecked statements that abort a transaction whose COMMIT then reports
  success;
- several `lock`s sharing one transaction, so the first `unlock` ends them
  all;
- the advisory lock not being taken by `write`/`del`/`rename`;
- rename's unlocked existence check;
- lock-order deadlocks between rename and write;
- every transaction eventually ending;
- C6's odd-length prefix lookup and C3's OID bound check;
- in the remote helper and the CLI, ignored write results, an unconditional
  ref upsert, an unchecked DELETE and the order of object copy and ref
  read or write between concurrent pushes, fetches and clones.

## 2. Modules

### `RefStore.tla`: the ref DB (C7) over a Postgres model

**Constants.**

- `Sessions` are connections, each with its own backend.
- `Names` are ref names and `Oids` are object ids.
- Five sentinel model values: `NoRef`, `Untouched`, `None`, `NoOne`, `Gone`.
- Three bounds:
  - `MaxOps` bounds the calls started;
  - `MaxTokens` bounds the refs one git transaction holds locked;
  - `MaxFaults` bounds the injected database errors.

`ConstantsAssumption` states the non-emptiness, the types of the bounds and
the distinctness of the sentinels.

**State.**

| Variable | Models |
|---|---|
| `refs` | the committed `refs` table; a row is `Direct(o)` or `Symbolic(t)`, the schema's XOR CHECK |
| `reflog`, `nextId` | committed reflog rows and the `bigserial` |
| `rowLock`, `advLock` | row locks and transaction-scoped advisory locks |
| `inTx`, `aborted` | the connection is in a transaction / the transaction had a failed statement |
| `txRefs`, `txIns`, `txUpd` | the transaction's pending writes: ref rows, inserted reflog rows, renamed/deleted committed reflog rows |
| `pc`, `op`, `ret` | the round trip the session's current call is at, its arguments, the last return code |
| `tokens` | the `pg_ref_lock` payloads libgit2 holds on this connection |

**Postgres semantics** (READ COMMITTED):

- `View` and `VisibleLog` are what a statement reads: the committed rows
  overlaid by the session's own pending writes.
- `RowsNeeded`, `AdvNeeded` and `Blockers` give the locks the next statement
  waits for. A row the session cannot see is not waited on: this is why
  FOR UPDATE does not protect a creation.
- `Deadlocked` is a cycle in `WaitsFor`, computed with `Relation`'s
  `TransitiveClosure`. The detector fails a statement on that cycle, and
  this is not counted in `MaxFaults`.
- `SetRef`, `InsertLog`, `RenameLogRows` and `DeleteLogRows` write pending
  rows inside a transaction and committed rows in autocommit.
- `EndTx` commits or discards the pending writes and releases the locks.
- `Commit` of an aborted transaction discards them and still "succeeds".
- `Abort` marks the transaction failed after an unchecked statement.

**Actions.** There is one action per round trip, named after the code:

- `pg_refdb_write`, `WriteSelect`, `WriteUpsert`, `WriteReflog`,
  `WriteCommit`;
- `pg_refdb_del`, `DelSelect`, `DelDelete`, `DelReflog`, `DelCommit`;
- `pg_refdb_rename`, `RenameCheck`, `RenameDelNew`, `RenameUpdate`,
  `RenameReflog`, `RenameFinish`;
- `pg_refdb_lock`, `LockAcquire`;
- `pg_refdb_unlock`, `UnlockWrite`, `UnlockReflog`, `UnlockDelete`,
  `UnlockDelReflog`, `UnlockEnd`;
- `pg_refdb_reflog_rename`, `pg_refdb_reflog_delete`.

Each action's guard is the code's branch conditions. Every error path issues
`Rollback` and `Return`s the code's result: `error` (-1), `exists`
(GIT_EEXISTS) or `notfound` (GIT_ENOTFOUND). A checked statement may fail
(`Failed`), and so may `BEGIN`. Unchecked statements fail by `Abort`, and
the call goes on.

`pg_refdb_unlock` is not counted in `MaxOps`, because libgit2 always
unlocks what it locked. Reference names are abstract: `hash_refname` is
taken to be injective, so two names never share an advisory key.

**Not modelled in C7.**

- The read-only calls (`exists`, `lookup`, `iterator`, `has_log`,
  `reflog_read`) and the no-ops `ensure_log` and `reflog_write`.
- Committer, message and timestamp columns of the reflog.
- Multiple repositories: every row has the same `repo_id`.

### `MC_RefStore.tla` and the `.cfg` files

The module gives model values for two sessions, two names and two oids. It
also defines the symmetry set. The symmetry is sound because these values
are only compared for equality, and no safety run's property names a
particular one.

### `TreeParse.tla` (C3, `src/ext/tree_parse.c`, `src/sql/functions/tree_parse.sql`)

`git_tree_entries_c` is a set-returning function that Postgres calls once per
output row. The module models it as a state machine:

- **State.** The copied content (`state->data`, `state->len`), the offset
  `pos`, the rows returned so far and the status.
- **Data abstraction.** Bytes are abstracted to the classes the parsers tell
  apart: space, NUL, other letters, and letters invalid in UTF-8. The 20
  bytes of an OID become `OidLen` bytes.
- **Actions.** One per outcome of a call: done, the three `ereport(ERROR)`s,
  and one row returned.
- **Bounds check.** The check of line 95 is the operator `OidTruncated`,
  kept exactly as written.
- **Past-the-end read.** A `memcpy` past the end of the buffer would read
  whatever follows, so `ReadOid` allows any byte there.

The PL/pgSQL twin `git_tree_entries` runs its whole loop in one call. It is
the recursive function `SqlEntries`, which models `substring`'s clamping and
`convert_from`'s failure on NUL and invalid bytes. The references are
`WellFormed`, which describes the binary tree format, and its encoder
`Reconstruct`.

### `ObjectStore.tla` (C6, `src/backend/odb_postgres.c`)

- **State.** The objects table of one repository (its OIDs), the last reply
  of each backend session, and a count of failed statements.
- **Actions.** One per backend call: `read`, `read_header`, `read_prefix`,
  `write`, `exists` and `exists_prefix`. Each is one autocommit statement
  and so one atomic step, and any of them may fail.
- **Prefix lookup.** The prefix query is modelled as the code computes it:
  - libgit2 zero-fills the digits after the abbreviation (`ShortOid`);
  - the query compares `(len + 1) / 2` bytes (`PrefixBytes`);
  - a full-length abbreviation is an exact read.

  `HasPrefix` is the reference meaning of an abbreviation. Object contents
  are left out, because libgit2 hashes what it writes, so an OID stands for
  its content.

### `RemoteHelper.tla` (C9, `refdb_postgres.c` 1197-1699)

- **Processes.** Several `git-remote-gitgres` processes (`Helpers`), each
  with its own connection. `Pushers` run `list` then `push`; the others run
  `list` then `fetch`.
- **Composition.** The objects table is `ObjectStore`, instantiated with
  `INSTANCE ... WITH`, so every object statement of the helper is an
  `ObjectStore` action.
- **Refs table.** The refs rows are the branch `Main` and `HEAD`. Each
  helper statement on them is one step that may fail (`RefFault`).
- **Actions, with the code they follow:**
  - `cmd_list` is the `SELECT` of refs. HEAD is printed only when its target
    resolves.
  - `cmd_push` parses `[+]src:dst`, or an empty src for a delete. What git
    can ask for is constrained: it only sends a non-forced push that
    fast-forwards the ref it listed.
  - `PushCopyExists`, `PushCopyWrite` and `PushCopyEnd` are `push_copy_cb`'s
    `git_odb_exists`/`git_odb_write` over the local odb. The write's result
    is ignored, as in the code.
  - `PushRefUpdate` and `PushRefDelete` are the upsert and the `DELETE`,
    followed by the `ok`/`error` line.
  - `PushHeadSelect` and `PushHeadInsert` create HEAD if it is missing.
  - `cmd_fetch`, `FetchCopy` and `FetchEnd` are the `git_odb_foreach` copy
    into the local odb.
  - `Quit` is the blank line that ends the session.

### `Cli.tla` (`src/backend/main.c`)

This module models `gitgres push` and `gitgres clone` as concurrent
processes sharing the objects table (the same `ObjectStore` instance) and the
refs rows.

**push:**

1. `cmd_push` starts the copy.
2. `copy_object_cb` copies each object, counting the failed ones.
3. `PushRefs` is the ref loop. It runs whatever the error count. Its
   `git_reference_create` is `CreateBranch`. libgit2's target check reads
   the tip's header from the postgres odb and refuses a tip that is
   missing. Otherwise the branch row is upserted, and either failure is
   only a warning. The check looks at the tip alone, never at what the tip
   reaches.
4. `push_head` sets HEAD.

**clone:**

1. `cmd_clone` runs `get_repo`, which fails when no push has created the
   repository, and then starts the object foreach.
2. `clone_object_cb` copies each object.
3. `CloneRefs` reads the refs and creates each local branch. libgit2 refuses
   a branch whose object is not in the local odb, and the code only warns.

### The MC modules

Each MC module gives model values and small definitions of its constants:

- **`MC_TreeParse`:** the byte classes.
- **`MC_ObjectStore`:** one session.
- **`MC_RemoteHelper` and `MC_Cli`:** two pushers whose branches share a
  root commit (`<<0,0>>`), and one fetching or cloning process with an empty
  repository.

No symmetry is declared for them, because the processes play different
roles.

### The proof modules

`RefStoreProofs.tla`, `RefStoreCasProofs.tla`, `TreeParseProofs.tla`,
`ObjectStoreProofs.tla`, `RemoteHelperProofs.tla`, `CliProofs.tla` and
`RefStoreLogProofs.tla` hold the theorems (section 4). Each extends the
module it proves about, and `TLAPS`. `RefStoreCasProofs` and
`RefStoreLogProofs` extend `RefStoreProofs`, whose type invariant they
build on.

## 3. Runs

All runs use two sessions and two names. They set CHECK_DEADLOCK FALSE: the
clients' calls are bounded, so when all have returned nothing is enabled,
and that is the intended end of a behaviour. A session stuck waiting would
be caught by `TransactionsEnd`.

| Run | Bounds | Checks | Result |
|---|---|---|---|
| `refstore_safety` | 2 oids, 2 calls, 1 token, 1 fault | `TypeOK`, `CasExclusive`, `ReflogAtomic` | pass (about 307k states) |
| `refstore_liveness` | 1 oid, 2 calls, 1 token, 0 faults, `FairSpec` | `TransactionsEnd` | pass (about 535k states) |
| `create_race` | 2 oids, 2 calls | `CreateExclusive` | violated |
| `durable_after_failure` | 1 call, 1 fault | `ReportedWritesDurable` | violated |
| `MC_RefStore_advisory.cfg` * | 2 calls, 1 token | `LockedRefStable` | violated |
| `multi_token_unlock` | 1 oid, 3 calls, 2 tokens | `ReflogAtomic` | violated |
| `MC_RefStore_reflogold.cfg` * | 2 calls | `ReflogOldIsPrevious` | violated |

Rows marked * are further configurations kept beside the runs. Each states
what the spec says of the code and is violated by it. They are not runs of
PROJECT.json, which lists the twelve runs the project is judged by. Run one
with `tlc -config <file> <MC module>`.

**Why these bounds are enough.** Every property concerns at most two calls
of two sessions on at most two refs. Some examples:

- A CAS race is two writes expecting the same value.
- A deadlock is a rename against a write of the other name.
- Durability needs one call and one failure.

Two calls from two sessions include every pair of operations in every
interleaving of their round trips, with one of the calls' statements failing.
Two oids let a CAS expectation be wrong. Running the multi-token case needs
three calls: two `lock`s and one racing `write`.

**What each run shows.**

- `CasExclusive` (spec section 8) holds. A successful non-forced write or del
  with an expected value commits while the ref still has that value. Its
  mutant drops `FOR UPDATE` (`WriteSelectNoLock`), and TLC then finds two
  CAS writers both succeeding.
- `ReflogAtomic` holds when a git transaction locks one ref at a time. It
  fails with two (next section).
- `TransactionsEnd` holds under weak fairness of each session's `Step`. This
  fairness is justified because a libpq call returns once the server
  answers, and libgit2 always unlocks what it locked. Its mutant leaves a
  discarded lock's transaction open.

**Findings** (details are in PROJECT.json "findings"):

1. **Create race** (`create_race`). Two creations of the same ref without
   force both succeed: FOR UPDATE on an absent row locks nothing, and the
   upsert overwrites. The spec says AlreadyExists.
2. **Silent rollback** (`durable_after_failure`). The reflog DELETE in `del`
   is unchecked. If it fails, COMMIT rolls the ref deletion back, yet `del`
   returns 0. The same applies to `unlock`, which also ignores COMMIT's
   result.
3. **Advisory lock is not exclusive** (`MC_RefStore_advisory.cfg`). Spec
   section 5 says updates are linearised by the advisory lock, but only
   `lock` takes it.
4. **Shared transaction of several locks** (`multi_token_unlock`). The first
   `unlock` commits every lock. A later `unlock` autocommits its upsert and
   its reflog row separately, so the reflog row is visible apart from its
   ref update.
5. **Reflog old_oid** (`MC_RefStore_reflogold.cfg`). `unlock` always logs NULL, and a
   forced write logs the caller's argument, not the previous value
   (spec section 3).


### Runs of the other components

The remote-helper and CLI runs also set CHECK_DEADLOCK FALSE, because every
helper process and every run of the tool exits at the end of its command.

| Run | Bounds | Checks | Result |
|---|---|---|---|
| `treeparse_c` | contents up to 10 bytes over {SP, NUL, a}, `OidLen` 2 | `InBounds`, `RoundTrip` | pass |
| `MC_TreeParse_sqlmalformed.cfg` * | up to 8 bytes, `OidLen` 1, a non-UTF-8 letter | `SqlMatchesC` | violated |
| `MC_TreeParse_sqlutf8.cfg` * | the same | `SqlAcceptsGitTrees` | violated |
| `objectstore_prefix_sound` | 1 session, 16 OIDs of 4 digits over {0,1}, 3 rows, 1 fault | `PrefixAnswerSound` | pass |
| `odd_prefix` | the same, no fault | `PrefixAnswerExact` | violated |
| `helper_connected` | 2 pushers and 1 fetcher, 4 OIDs, 1 ref fault, no object fault, `FairSpec` | `RefsConnected`, `FetchComplete`, `HelperTerminates` | pass (about 188k states, 25 s) |
| `helper_write_ignored` | 1 object fault | `RefsConnected` | violated |
| `MC_RemoteHelper_cas.cfg` * | no faults | `NoLostUpdate` | violated |
| `MC_RemoteHelper_delete.cfg` * | 1 ref fault | `DeleteReported` | violated |
| `cli_connected` | 2 pushers and 1 cloner, 4 OIDs, 1 ref fault | `CliRefsConnected` | pass (about 5k states) |
| `MC_Cli_dangling.cfg` * | 1 object fault | `CliRefsConnected` | violated |
| `cli_clone_race` | no faults | `CloneComplete` | violated |

Rows marked * are further configurations, as above.

**Why these bounds are enough.**

- **Tree parser.** Ten bytes with a 2-byte OID hold two whole entries, or
  one entry followed by every kind of truncation. With two entries,
  `RoundTrip` covers the step from one entry to the next. The SQL twin's
  failures already show on one entry of 1-byte OID.
- **Object store.** Four-digit OIDs give abbreviations of odd and even
  length. Three rows are enough for an ambiguous prefix next to a unique
  one.
- **Remote helper and CLI.** Two pushers sharing a root object give every
  interleaving of two pushes, including:
  - one finding the other's objects already stored;
  - both writing the branch;
  - a delete against an update.

  The third process fetches or clones in between. One fault on each table
  reaches every error path once.

**What each run shows.**

- **`InBounds`** (line 95). The parser never moves past the end. The mutant
  `OidTruncatedOneShort`, which lets through an OID one byte short, breaks
  it.
- **`RoundTrip`.** On a well-formed tree the C parser never errs, and its
  rows re-encode to the content. `OidTruncatedExact` breaks it by rejecting
  an OID that ends exactly at the end.
- **`PrefixAnswerSound`.** An object that `read_prefix` or `exists_prefix`
  returns is stored and does start with the digits asked for. An ambiguous
  answer means two stored objects match. Rounding the byte count down
  (`PrefixBytesFloor`) breaks it.
- **`RefsConnected`.** With no object fault, the branch row only points at
  a stored object, because a push copies every object before it writes the
  ref. `PushCopyExistsLocal` asks the local odb instead of postgres, and
  TLC finds a dangling branch.
- **`FetchComplete`.** A fetch that ends holds the commit it listed. Its
  mutant asks postgres instead of the local odb whether to copy.
- **`HelperTerminates`.** Every helper session ends, under weak fairness of
  each helper's `Step`. The fairness is justified because each helper is an
  operating-system process that only waits on the answer to its own
  statement. `PushCopyExistsKeep`, which never removes an already-stored
  object from the work list, breaks it.
- **`CliRefsConnected`.** For the CLI, the branch row points at the tip of
  a pusher whose whole local history is stored, because push writes the
  refs only after the copy loop. This is stronger than the helper's
  `RefsConnected`: libgit2's target check already keeps a missing tip out,
  but not the missing parents or trees behind a stored tip. Its mutant
  `PushRefsEarly` starts the ref loop early. TLC then stores the tip, passes
  the target check and sets the branch before the root commit is copied.
- **`RenameNoClobber`** (C7, line 614). A non-forced rename never
  overwrites a ref, although its existence check is a plain `SELECT` that
  may be stale by the `UPDATE`. The unique key and the row lock the
  `UPDATE` takes close the gap. Without the unique-violation branch
  (`RenameUpdateNoUnique`), TLC finds the clobber.

**More findings.**

6. **SQL parser on malformed content** (`MC_TreeParse_sqlmalformed.cfg`). `git_tree_entries`
   never raises. On content such as a single space, it returns a row with
   empty fields, where the C parser raises "no null terminator found".
7. **SQL parser on non-UTF-8 names** (`MC_TreeParse_sqlutf8.cfg`). `convert_from(..,
   'UTF8')` raises on a well-formed tree whose name is not UTF-8. The C
   parser returns the raw bytes, which Git allows.
8. **Odd-length abbreviations** (`odd_prefix`, `odb_postgres.c:143`). The
   query compares `(len + 1) / 2` bytes of a zero-filled OID, so for an odd
   length the hidden digit must be 0. An object whose next digit differs
   comes back as GIT_ENOTFOUND, and an ambiguous prefix can be reported as
   unique.
9. **Ignored object write** (`helper_write_ignored`,
   `refdb_postgres.c:1460`). `push_copy_cb` ignores `git_odb_write`'s
   result. The helper then updates the ref and prints `ok`, leaving the
   branch pointing at an object the database lacks.
10. **Lost update** (`MC_RemoteHelper_cas.cfg`, line 1587). The push upserts the
    ref with no compare against the listed value, and never uses the parsed
    force flag. Two non-forced pushes from the same old value both get `ok`.
11. **Unchecked delete** (`MC_RemoteHelper_delete.cfg`, line 1555). `ok` is printed
    after a `DELETE` whose status is never checked.
12. **Push after errors** (`MC_Cli_dangling.cfg`, `main.c:225`). `gitgres
    push` creates the refs after reporting failed object copies. In TLC's
    trace the root commit's write fails and the tip's succeeds. The target
    check then finds the tip, and the branch points at a commit whose
    parent the database lacks.
13. **Clone race** (`cli_clone_race`, `main.c:333`). `gitgres clone` copies
    the objects before it reads the refs. A push committing between the two
    gives the clone a branch whose objects it does not have. libgit2
    refuses to create it, the code only warns, and the clone reports
    success.

## 4. Proofs

### `RefStoreProofs.tla`

`RefStoreProofs.tla` proves `THEOREM TypeCorrect == Spec => []TypeOK` for
all values of the constants that satisfy `ConstantsAssumption`. `TypeOK`
includes the refs rows' XOR CHECK, stated as membership in `RefVal`.

`TypeOK` alone is not inductive. The actions read the call's arguments from
`op[s]`, and `TypeOK` only says those are in `OpRec`, whose fields may be
`None`. The inductive invariant is `TypeInv == TypeOK /\ ArgsTyped`, where
`ArgsTyped` says:

- a session in a call has a real ref name;
- a session in the write path has a real value;
- a session in the rename path has a real target.

TLC checked `TypeInv` before it was proved.

**How the proof is organised.**

- There is one lemma per helper: `SetRefType`, `InsertLogType`,
  `RenameLogRowsType`, `DeleteLogRowsType`, `EndTxType`, `ViewType` and
  `FailedType`.
- A few lemmas cover the ways a call moves on: `GotoType`, `BeginType`,
  `EndCallType`, `ReturnType`, `FailCallType`, `CommitCallType`,
  `UncheckedLogType` and `UnlockFailType`.
- There is one lemma per action. Each splits on the action's disjuncts.
- `NextTypeInv` combines the action lemmas. The theorem follows by PTL from
  `InitTypeInv` and `NextTypeInv`.

tlapm proves all 671 obligations.

**What stays with TLC.**

- Liveness (`TransactionsEnd`) and anything using ENABLED are out of the
  prover's reach.
- `ReflogAtomic` is proved in `RefStoreLogProofs` below.

### `RefStoreCasProofs.tla`

This module proves two action properties of run `refstore_safety` for
every number of sessions, names and oids and every bound:

- `THEOREM CasLinearisable == Spec => CasExclusive`. A write or del that
  names an expected value and reports success commits while the committed
  row still holds that value.
- `THEOREM RenameNeverClobbers == Spec => RenameNoClobber`. A rename without
  force that reports success commits over no row of the new name.

**The inductive invariant.** `CasInv == TypeInv /\ \A s : SessionInv(s)`.
`SessionInv(s)` says what session `s`'s state implies about the shared
tables and locks:

- every ref its transaction has written is row-locked by `s`;
- a call starts with no pending ref write (`FreshSteps`);
- an aborted transaction is at a round trip that ends it (`AbortSteps`);
- write and del run inside their transaction;
- after a successful check (`Cas(s)`), `s` holds the row lock of the ref,
  and the committed row still has the expected value;
- a rename without force writes nothing before its UPDATE. After the UPDATE
  (`Claim(s)`), it holds the lock of the new name, which has no committed
  row.

The two action properties are not inductive by themselves. They speak of
the step where a call commits, but what makes them true is set up earlier:
by the `SELECT ... FOR UPDATE` of the check, or by the UPDATE of the
rename. The invariant carries that from step to step. It was checked by TLC
on the `refstore_safety` instance (306,773 distinct states) before it was
proved.

**The argument.**

- `Respects(t)`: a step of session `t` changes a row lock or a committed row
  only when the lock is free or `t`'s own.
  - `FreeRow` gives this for statements, since `Free(t)` covers the rows the
    statement needs.
  - `EndGood` gives it for COMMIT. COMMIT writes exactly the rows the
    transaction wrote, and those rows are locked by it.
- `Local(t)`: a step of `t` leaves the other sessions' calls alone.
- `FrameSessionInv`: together, these two keep every other session's part of
  the invariant.
- There is one lemma per action for `t`'s own part.
  - `WriteCheckExpected` and `DelCheckExpected` show that a check answering
    "ok" found exactly the expected row.
  - `RenameRowsGood` uses the UPDATE's failure on a visible row of the new
    name.

tlapm proves all 703 obligations.


### `TreeParseProofs.tla`

`THEOREM ParserInBounds == Spec => []InBounds` holds for every OID length
and every content length. `InBounds` alone is not inductive, because it does
not say that `pos` is a natural number or that the content is a byte string.
The inductive invariant `IInv` adds both.

The argument rests on two lemmas:

- `ScanRange`: a scan ends at a natural offset no smaller than where it
  started.
- `EntryIInv` shows that the check of line 95 keeps the next offset,
  `np + OidLen + 1`, within the content.

Only `TreeParse`'s C part is used. `SqlEntries` is a recursive function, not
a RECURSIVE operator, so the module stays within the prover's reach.

### `RemoteHelperProofs.tla`

These theorems assume `ObjFaults = 0`, i.e. no statement on the objects
table fails. Finding 9 shows that without this assumption the property is
false.

- `THEOREM ConnectedWithoutObjectFaults == Spec => []RefsConnected`.

**The inductive invariant.** `IInv == TypeOK /\ Copied /\ RefsConnected`.
`RefsConnected` alone is not inductive: a push at the ref statement would
break it unless its objects are known to be stored. `Copied` records the
progress of the copy loop:

- a pusher in the loop has stored every local object it has finished with;
- a pusher at the ref statement has stored all of them.

`NextIInv` has one case per action. `NoObjectFault` discharges the failure
branches of the object backend. tlapm proves all 157 obligations.

`THEOREM FetchCompleteWithoutObjectFaults == Spec => []FetchComplete`, under
the same assumption, says that a fetch that has ended has stored the branch
tip it listed. Its inductive invariant `Fetched` adds to `IInv` what a
fetcher's state says:

- the tip it listed is stored;
- while it fetches, its work list is stored and holds the tip, unless the tip
  is already local;
- once it is done, the tip is local.

It was checked by TLC on the `helper_connected` instance (187,944 states)
before it was proved. tlapm proves the module's 175 obligations.

### `ObjectStoreProofs.tla`

`THEOREM PrefixLookupSound == Spec => []PrefixAnswerSound` holds for every
OID length, digit set and number of sessions. An object that `read_prefix`
or `exists_prefix` returns is stored and starts with the digits asked for.
GIT_EAMBIGUOUS means two stored objects do.

**The lemmas.**

- `RowHasPrefix`: the query compares `(len + 1) / 2` bytes of the
  zero-filled short OID. That is at least as many digits as the abbreviation
  has, and those digits are the abbreviation's own.
- `TwoDistinct` and `AtLeastTwo` turn "more than one row" into two distinct
  witnesses.

**The inductive invariant.** `PrefixAnswerSound` is stated with the replies
as they were computed. It is not inductive by itself, because a later insert
could in principle change what a cardinality says. `Witnessed` states the
same facts by witnesses, which survive inserts because the table only grows.
TLC checked `IInv` on the `objectstore_prefix_sound` instance (215,141
states). tlapm proves all 281 obligations.

### `CliProofs.tla`

`THEOREM PushConnectedWithoutObjectFaults` says that, when
`ObjFaults = 0`, `Spec => []CliRefsConnected`. It holds for any number of
concurrent pushes and clones and any local repositories. In every
reachable state the branch row points at the tip of a pusher all of whose
local objects are stored.

**The inductive invariant.** `IInv == TypeOK /\ Copied /\ CliRefsConnected`.
`Copied` says that a push in its copy loop has stored every local object the
foreach has visited. The ref loop runs only after the foreach, so a push at
the ref loop has stored its whole repository, and that pusher is the
witness for the branch it sets. Objects are never removed, so the witness
survives later steps. With no failed statement the target check of
`CreateBranch` changes no table.

**Two assumptions of `CliAssumption` serve the proof.** Both are true of the
code:

- `Main # HeadRef`: the branch row is `refs/heads/main`, not `HEAD`.
- `None \notin Oid`: "no ref" is an absent row, never an OID.

tlapm proves all 79 obligations. The configuration `MC_Cli_dangling.cfg`
shows that `CliRefsConnected` fails once object writes may fail, so the
theorem needs `ObjFaults = 0`.

### `RefStoreLogProofs.tla`

`THEOREM ReflogAtomicOneToken` says that, when `MaxTokens = 1`,
`Spec => ReflogAtomic`. It holds for every number of sessions, names and
oids and every bound on calls and faults. Every reflog row a step inserts
names a ref whose row, in the same step, points at the entry's new oid. So
a ref update and its reflog row become visible together.

**The hypothesis `MaxTokens = 1`.** It is the bound of run
`refstore_safety`: a git transaction there locks one ref at a time. It is
not a weakening. Run `multi_token_unlock` shows that with two lock payloads
in one session the property is violated, which is a finding of this
project.

**The inductive invariant.** `LogInv == TypeInv /\ \A s : LogSessionInv(s)`.
`ReflogAtomic` alone is not inductive, because a reflog row is inserted
inside a transaction and becomes visible only at its `COMMIT`.
`LogSessionInv(s)` relates a session's control point to its transaction:

- A session holds at most one token, only inside a transaction, and only in
  the unlock labels, where the token is the name it locked.
- A session at `w_reflog` or `u_reflog` has already written the new value
  into its transaction's copy of the ref.
- Pending reflog rows exist only at the two commit labels, and each names a
  ref whose transaction copy points at the row's new oid.

The last item makes a `COMMIT` carry the ref and its reflog rows together.
TLC checked `LogInv` as an invariant of the `refstore_safety` instance
(306,773 distinct states).

**Proof layout.** There is one lemma per action of a session. Each lemma
shows that the session keeps `LogSessionInv` and that the step satisfies
`LogStep`. `FrameLogInv` carries the invariant of the other sessions over
the step. `NextLogInv` combines them, and the theorem follows by PTL.
tlapm proves all 613 obligations.

### What stays with TLC

- Liveness (`HelperTerminates`, `TransactionsEnd`) and anything using
  ENABLED.
- The tree properties that need what a recursive definition computes for
  every input (`RoundTrip` and the SQL comparisons). Induction over data is
  out of the installed provers' reach.
- `ReflogAtomic` with more than one lock payload per session. This is not a
  gap in the proof: the property is false there (run
  `multi_token_unlock`).

## 5. Not modelled

- **C1, the OID codec, and C4, the commit header parser.** These are string
  conversions in C and SQL with hardly any control; a model would only
  restate the formatting.
- **C2, the object hasher.** SHA-1 is out of TLC's reach. The model relies
  on libgit2 hashing what it writes, so an OID stands for its content.
- **C8, `pg_odb_writepack`.** It is never reached by the remote helper or
  the CLI, which copy object by object.
- **SQL ref functions `git_ref_update` and `git_ref_set_symbolic`.** Each is
  one PL/pgSQL function run in one statement. Only the tests call them;
  the backends and the helper do not.
- **Parts of the CLI and the helper.**
  - `gitgres init` and `ls-refs` are a single insert and a single `SELECT`.
  - `capabilities`, the option lines and `parse_url` are the helper's
    dialogue with git and change no shared state.
- **Tree walk.** `git_ls_tree_r` (the recursive walk over trees) is not
  modelled.
- **Object contents** are abstracted to OIDs throughout.

## 6. Plan for the remaining work

1. **Abstract ref store.** Show that the single-token runs of `RefStore`
   implement an atomic CAS map with a per-ref reflog.
2. **Compose the helper with `RefStore`.** Replace the helper's one-step ref
   statements with `RefStore`'s `write`, to see the lost update and the
   create race together.
3. **Model the object graph.** Give each object its parents and trees.
   The helper's `RefsConnected` could then speak of whole histories, as
   the CLI's does.
