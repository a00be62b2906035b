# Verification of openlimiter

openlimiter tells a user, and the agents that work for the user, how much of
each provider's usage limit is left.  A command line tool (TypeScript) and a
desktop application (Tauri, Rust) run side by side on one machine and share one
state directory.  The parts that are hard to get right are the ones where those
programs meet: files that both read, merge and replace, leases that decide who
may ask a provider, and deadlines that one of them records and the other must
honour.  This directory holds TLA+ models of those parts, TLC configurations
that check them on small instances, and TLAPS proofs for every value of the
constants.

Paths below are relative to the repository.

- [Inventory](#inventory)
- [Modules](#modules)
- [StateLock](#statelock)
- [AcquisitionGate](#acquisitiongate)
- [RefreshLock](#refreshlock)
- [RefreshStart](#refreshstart)
- [CacheFold](#cachefold)
- [Pairing](#pairing)
- [Notifications](#notifications)
- [ActivityEngine](#activityengine)
- [Runs](#runs)
- [Proofs](#proofs)
- [Disagreements between code and comments](#disagreements-between-code-and-comments)
- [Not modelled](#not-modelled)
- [Plan](#plan)

## Inventory

| Component | Source | State it keeps | Operations | What makes it correct |
|---|---|---|---|---|
| State directory lock | `packages/core/src/cache.ts`, `apps/desktop/src-tauri/src/cache_write.rs` | `cache.lock/` with an owner stamp; FIFO of turns per Node process; the shared `CacheWriter`'s session | acquire, reclaim a stale lock, stamp, release; begin, commit, abort | writers exclude each other, no acknowledged update is lost, every request ends |
| Cache document folds | `packages/core/src/collection.ts`, `cache.ts`, `native_snapshot.rs` | rows, suppressions, availability | fold a report, retain, prune | reports commute as their instants say; a suppression outlives older successes |
| Machine lease | `cache.ts` (`acquireMachineLease`), `request_policy.rs` (`MachineLease`) | `acquisition-<provider>.json`: owner, token, expiry, deadline, refusal, last account | acquire, heartbeat, complete, release | one asker at a time; deadlines hold for every process; a dead holder's lease ends |
| Desktop request policy | `request_policy.rs` | `request-policy.json`, its lock, `healthy` | begin, complete, refuse, retry, cancel, release | document always readable; per-account and provider-wide deadlines hold |
| Acquisition runner and cadence | `packages/core/src/acquire/runner.ts`, `cadence.ts` | the tool's schedule | one round over providers; one read with a repeat after 401 | nothing is asked before it is due; a lost lease stops the read |
| Refresh lock and detached start | `packages/core/src/acquire/coordination.ts`, its callers in `packages/cli/src` | lock file (token, mtime), start token files | acquire, heartbeat, reclaim, still owned, release; reserve a window, remove old tokens, spawn | one holder at a time, nothing written over, every waiter answered; one start per window |
| Refresh arithmetic | `cadence.ts`, the desktop's twin | none | backoff, jitter, server waits | both programs compute deadlines in the same bounds |
| Connection lifecycle | `packages/core/src/connection*`, desktop records | a state per connection | transitions | no illegal transition, both programs agree |
| Desktop collector | `apps/desktop/src-tauri/src` | due records, polls in flight | a pass over due records | one poll per identity; a pass records what it read |
| Desktop pairing | `pairing.rs` | the pairing in progress | start, decide, cancel, expire | one decision per code, none stranded; a late answer does not revive a replaced pairing |
| Desktop notifications | `notifications.rs` | meters, records of alerts, settings | evaluate a batch, persist, show | once per alert, recorded before it is shown, across restarts |
| Hub session and sync | `packages/core`, desktop | session, cursor | renew, sync, resume | renewals do not race; the cursor never skips |
| Activity spool and engine | `packages/core/src/activity/spool.ts`, `apps/desktop/src-tauri/src/activity/` | event files, sessions, checkpoint | write an event; sweep, maintain, apply, save, announce | nothing is announced twice; a retired session stays retired; every checkpoint loads |

`PROJECT.json` lists these and the remaining parts (readers, transport, shell,
web application and so on) with their sources and, where they are left out, the
reason.  Its `hazards` list names, line by line, what is hard to test in this
code; the properties below are aimed at that list.

How the parts interact.  A refresh of the command line tool, or a pass of the
desktop's collector, first asks the **gate** of a provider (machine lease, and
in the desktop the request policy).  The gate's files are read, changed and
replaced inside the **state directory lock**.  The holder of the lease reads the
provider, judges again that the lease is still its own, completes the lease with
the next deadline, and folds its report into the **cache document**, again
inside the state directory lock.  The desktop repeats a refused commit once.
What the document shows feeds the desktop's **notifications**.  Beside that path
stand the **activity** hooks, which write event files that the desktop sweeps,
and **pairing**, a conversation between a panel of the desktop, its runtime and
the hosted service.

What is hard here:

- *check, then act on a path*: the lock is a directory; a stamp is read and the
  path removed, or a lock judged stale and the path renamed, in two system calls;
- *crashes*: a process dies with a lock (with or without its stamp), with a
  lease, or between the two files a backoff is written to;
- *stalls*: a machine sleeps, the lease expires under its holder, and the late
  reply, heartbeat, completion and drop all still happen;
- *values read early*: clock and login are read before locks are waited for;
- *answers that come late*: a report, a poll or a decision is applied to a
  document or a pairing that has changed since the question was asked;
- *bounded memory*: suppressions, alert records and seen events make room for
  newer ones, while what they guarded against can still arrive;
- *files that refuse themselves*: a document is checked when it is loaded, so a
  step that breaks a rule is found at the next start; the request policy checks
  when it saves too, and there such a step makes every later save fail;
- *two documents that must agree*: `acquisition-<provider>.json` and
  `request-policy.json` hold the same deadline for different readers.

## Modules

| Module | Kind |
|---|---|
| `StateLock` | component: the lock directory and the read-merge-write inside it |
| `MCStateLock` | model values and placement of the writers in processes |
| `StateLockProofs` | inductive invariant and theorems |
| `AcquisitionGate` | component: lease file, request policy document, both programs' rounds (run as it is) |
| `AcquisitionGateProofs` | inductive invariant and theorems |
| `RefreshLock` | component: the heartbeat lock and the document rewritten under it (run as it is) |
| `RefreshLockProofs` | inductive invariant and theorems |
| `RefreshStart` | component: start tokens of the detached refresh (run as it is) |
| `RefreshStartProofs` | inductive invariant, theorem, refinement |
| `AtMostOnce` | abstract specification that `RefreshStart` implements |
| `DocumentStore` | abstract specification that `StateLock` and `RefreshLock` implement |
| `CacheFold` | component: the cache document under reports of three writers |
| `MCCacheFold` | identities, meters and their symmetry |
| `CacheFoldProofs` | inductive invariant and theorems |
| `Pairing` | component: runtime, commands in flight, panel and service (run as it is) |
| `PairingProofs` | inductive invariant and theorems |
| `Notifications` | component: one meter's alerts (run as it is) |
| `NotificationsProofs` | inductive invariant and theorems |
| `ActivityEngine` | component: hooks, spool, consumer and checkpoint |
| `MCActivityEngine` | sessions, shapes of events and the symmetry of agents |
| `ActivityEngineProofs` | inductive invariant and theorems |

`AcquisitionGate` rests on `StateLock`: a transaction on the lease file runs
inside the lock and is one step there.  That is what the refinement of
`DocumentStore` justifies, up to the reclaim of a lock in use, where its promise
ends.  `CacheFold` rests on it in the same way: a report is folded whole.

Definitions named `X_Something` next to `X` are mutated forms of `X`, each the
way a plausible bug would change that code.  They are used by nothing; swapping
one in must make the property it is listed with in `PROJECT.json` fail.

## StateLock

**State.**  `lock` is the directory at the lock path (its identity, stamp and
age), `doc` the document as the set of updates it contains, `queue` the FIFO of
each Node process, `mutex` and `pending` the shared `CacheWriter`, `live` the
processes running.  Everything else is local to a writer.  An acquisition draws
a fresh uuid in the code; here a token is the writer and the number of its
attempt, and the same token names the directory it makes and the update it
writes.

**Writers.**  `NodeWriters` are mutations in Node processes: a turn in the
process's FIFO, an acquisition without deadline, no possession check before the
write.  `PolicyWriters` are the desktop's `policy_transaction`s: a `CacheWriter`
of their own, `AttemptLimit` attempts.  `FoldWriters` are threads that fold
reports through the one shared `CacheWriter`: `begin` takes the Mutex and
releases the lock of a session left open, the fold runs without the Mutex,
`commit` compares generations, proves possession and writes; a refusal is
retried once.

**Actions.**  One per system call where a race is possible.  `acquireLock` is
`MakeLock`, `Collide`, `PathExists` (Node only), `Inspect`, `Displace`,
`WriteStamp`, `StampFails`, `Unmake`, `GiveUp` (desktop only); `releaseLock` is
`ReleaseCheck` and `ReleaseRemove`; `begin`'s release of a superseded session is
`SupersedeCheck` and `SupersedeRemove`.  `Abandon` and `AbortFold` are a fold
that throws or decides not to write.

**Time** is one bit per instant a staleness test may look at: `Elapse` makes the
lock, and every start instant already read, older than
`LOCK_STALE_MILLISECONDS`.  A Node stamp's instant is read after `mkdir`, a Rust
stamp's before the loop, so a Rust stamp may be stale the moment it is written.

**Ghosts.**  `acked` collects updates whose writer was told that they are
written; `robbed` collects locks that a reclaim displaced while their owner
still relied on them.  Displacing a lock in use is possible in the code (see
the disagreements below), so exclusion is stated up to the first such event: it then says
that no *other* combination of crashes, failed stamps, supersessions and stale
windows breaks it.

**Abstract specification.**  `DocumentStore` is what the lock promises: a document
that one step changes at a time, by adding one update it does not hold yet.
`ActsAsStore` is its specification with the document of `StateLock` and with
`robbed # {}` for "the promise is broken", which it stays once it is.  Everything
a writer does before and after its write is a stutter.  `WrittenOnce` says more
about a request than a state can show: however often its fold is retried and the
lock asked for again, one write is acknowledged, also after a reclaim.

**Left out.**  The wait between two attempts (any number of other steps may
happen anyway); the displaced directory, which nothing reads again; errors of
the file system other than the ones named above.  Two of these matter to a reader
of the properties.  A document that is unreadable or oversized is folded from an
empty one (`cache.ts:870-872`), which drops what it held; here every read succeeds.
And after a transient error of `mkdir` the code tries again (`cache.ts:614-625`),
where `Unmake` ends the attempt.

## AcquisitionGate

One provider; `file` is `acquisition-<provider>.json`, `doc` the provider's rows
of `request-policy.json` (0 stands for "no deadline"), `gate` the operating
system lock of that document, `healthy` the desktops whose gate is open.

**A round of the tool**: `Ask` (clock, login), `AcquireCli`, `Prepare`, `Clear`
(ownership before the request), `SendCli`, `Reply`, `CompleteCli`, `Release`.
**A round of the desktop**: `Detect`, `LockDocument`, `Admit` (document gates,
then the shared lease with the refusal rule), `Reserve`, `Collect` or `Cancel`,
`SendDesktop`, `Reply`, `CompleteDesktop` (the file), `WriteDocument` (the
document), `Release`.  `Heartbeat`, `Crash`, `Restart`, `RotateLogin` and `Tick`
may come between any two of them.

**Abstractions.**

- A deadline's delay is drawn from `Cadences`, `Backoffs` or `{Day}`: jitter, the
  server's `Retry-After` and the attempts counter decide which, and no property
  depends on the choice.
- The clock is ticks.  `at` is the instant a round read; it may be up to `Lag`
  ticks old when the login is read (proved for every `Lag`), and any number of
  ticks older when the file is judged with it, since a process may stall.
- A process stalls by not stepping; a heartbeat is therefore optional.
- A token is the process: it has one lease at a time, and a heartbeat of an
  earlier token finds it gone and stops, which changes nothing.
- A login's revision is its account and how often it was rotated; an unreadable
  login is `None` for the tool and the revision `Unreadable` for the desktop, as
  in the code.
- The tool's own schedule is abstracted to its effect on the lease: not due, and
  then its recorded deadline (with a login it refused earlier) completes it.
- Requests of several steps are one request; the repeat after a 401 is kept.
  The reader is the Claude one, which asks `still_owns_shared` after the reply.
- `"blocked"` is an answer of a desktop only: `block_provider`, which
  `collector_runtime.rs:198` calls for a 404 or 410.  It leaves the account's row
  as `begin` reserved it.
- `blocked_until` and `next_request_at` of the document are one field.
  `block_provider` sets the first, and `retry_account` sets both to one instant
  (`request_policy.rs:455-457`); `begin` refuses while either is ahead.
- Instants are milliseconds in the code and coarse ticks here, so that a backoff
  ends at the very instant a refusal does far more often than it would.  `begin`
  recognises a refusal's deadline by equality (`request_policy.rs:738`) and then
  erases the backoff; the model does the same.
- A failed write of acquire or release leaves the file as it was; the first ends
  the round as a refusal does, the second is a `Crash` as far as the file shows.

**Ghosts.**  `limited` is the latest deadline every account must honour,
`refusal` the refusal recorded last, `torn` the desktops that got a backoff into
the file and then died, or failed, before the document, `met` the deadlines ahead
that ended, when they were recorded, at the instant a refusal ends.
`HonoursLimitsUnlessTornOrMet` holds up to these two events and says that nothing
else lets a deadline be asked through.  The run has one account: what `torn` leads
to, and what one account erases of another's (`request_policy.rs:758`), take two
and are covered by the proof only.

## RefreshLock

One lock name of `acquireRefreshLock`.  `Refreshers` are rounds of
`refreshCommand`: they leave when the lock is held and ask `stillOwned` before
they write the schedule.  `Waiters` are transactions of `withSessionLock` and
`withFileLock`: they try again while it is held and write without asking.

**State.**  `lock` is the file at the path: who made it (`by`), the token in it,
and its age.  `doc` is the document under the lock as the set of updates it
contains.  `beating` are the heartbeats that have read the token and not yet
touched the path.  The rest is local to a process.  A request draws a uuid in
the code; here its token is the process and the number of its request.

**Actions.**  One per system call where a race is possible: `Request`, `Create`
(exclusive open), `Collide`, `Check` (the three looks), `Remove`, `WriteToken`
(which may fail and leave an empty file), `ReadDoc`, `StillOwned`, `WriteDoc`,
`ReleaseCheck`, `ReleaseRemove`, `BeatCheck`, `BeatTouch`, and `Again` or
`Timeout` for those who wait.  `Abandon` is an action that throws or finds
nothing to do.

**Time.**  An acquisition reads the clock once and compares every file it meets
with that reading.  `old` says that the file has been silent for
`REFRESH_LOCK_STALE_MILLISECONDS` now; `Enter` turns that into membership of
`stale`, the processes whose reading finds it silent.  A touch empties both; a
file becomes `old` at any time, because a machine may sleep between heartbeats.

**Abstractions.**  The checks and cache writes of `persist` during a round are
merged into the last check and write, which is the one without a lock of its
own; one heartbeat of a process is under way at a time; a state directory that
cannot be prepared, like an error other than EEXIST, ends the request, which is
a request not made; `Timeout` is optional, since only the session has a
deadline.

**Ghosts.**  `acked` are the updates written, `robbed` the files a reclaim
removed while their maker still relied on them.  As for `StateLock`, exclusion and
the refinement hold up to the first such removal (see the disagreements below):
they say that nothing else breaks them, and not that the reclaim is sound.
`ActsAsStore` is the same refinement of `DocumentStore` as for `StateLock`; that no
acknowledged update is lost until then is part of it.

## RefreshStart

A render of the status line computes its window from the instant it began at,
looks at the lock, creates the token of the window exclusively, removes tokens
more than two windows behind, and spawns.  The module has one action per system
call; a render may die, or be refused, anywhere, and a refresh that was spawned
may never run.  `Late` bounds how far a render without its token may lag behind
the clock: the comment of `removeOldStartTokens` speaks of a clock that "runs
slightly late", and two windows (four minutes) are what its rule tolerates.
Decisions that do not reach the token, `shouldStartRefresh` and
`refreshLockHeld`, are choices.  The record of a failed spawn is left out.

**Abstract specification.**  `AtMostOnce` counts, for each item, how often it was
done, and allows one step that takes a count from 0 to 1.  `StartsAtMostOnce` is
its specification with the windows as items and the starts of each window as
counts: looking, creating, scanning, unlinking and dying are stutters, a spawn is
the one abstract step.

## CacheFold

`rows` and `supp` are the document: a row is the instant it was observed at and
who wrote it, a suppression is an instant.  `reports` are reports that were read
and not yet folded; any of them may be folded next.

**Actions.**  `Read` finishes a read.  `FoldCli` is `mergeAcquiredSnapshots` with
the deference to newer rows and to rows of other writers, and
`applyCollectionReport` for a report that is authoritative.  `FoldStatusline` is
`mergeSnapshotCache`.  `FoldSuccess`, `FoldDrift` and `FoldUnavailable` are the
desktop's `fold_read`.  `Purge` is the removal of a connection, `Prune` what
either program does when it starts.  Retention, and the bound on suppressions, are
part of the folds that apply them.

**Abstractions.**  Values and labels of a row are left out; `MAX_CACHE_ENTRIES`
is taken not to be reached by rows; availability is not shown, being written
beside the rows and read by nothing here.

**Properties.**  There are no ghosts; both properties about drifts look at one
step of a document that any history may have led to.  `OutdatedStaysHidden`: while
a suppression stands, no step shows a row from before it, neither by bringing one
in nor by lifting the suppression over one that it hides.  Every fold that lifts a
suppression must therefore take the rows under it away, which the folds do in four
different ways.  The exception is the bound: a suppression that makes room may show
what it hid, and then at least `MaxSupp` suppressions that are no older remain.
`DriftHidesOnlyOlder` is the other direction: a drift that arrives late hides no
row observed after it.

## Pairing

`held` is the one pairing of `PairingRuntime`, `service` the hosted service's row
of each code (external), `view`, `message` and `polling` the panel.  A command is
two steps: it runs until its request is sent, and resumes with the answer or the
failure; anything may happen between the two, also on the service.

**Actions.**  `Begin`, `Poll`, `Decide` start a command; `PollQuiet` and
`Refused` are the ones that end without a request; `Created`, `Polled` and
`Decided` resume them (`settle` and `abandon_decision` included); `Cancel`,
`Close`, `Open` and `SignOut` are the panel's own; `Serve`, `Lose` and `Phone` are
the service, the network and the phone.

**Ghost.**  `late` says that a status answer was written over a pairing that had
changed since the question was asked.  `pairing_status` writes without looking,
so two of the properties hold up to that write; `pairing_late` exhibits what it
leads to.

**Abstractions.**  A pairing's expiry is what the service gave it when it was
created: the tolerance of `EXPIRY_TOLERANCE_SECONDS` (`pairing.rs:225`) and a new
`expires_at` in a status answer (lines 277-280) are left out.

## Notifications

One meter of one account; the commands run one after the other on the main
thread.  `mem` and `disk` are the document in memory and on disk, `work` the
batch that is being evaluated, `popups` what the last batch has left to show.

**Actions.**  `Sample` takes one sample (`evaluate_document` up to the alerts it
names), `Record` is `record_event` for one alert with uniqueness key and
`MAX_RECORDS`, `Commit` persists the batch before the document in memory changes,
`Show` shows one popup and persists again, `SetBands` changes settings, `Restart`
loads the disk.  Every write may fail.

**Abstractions.**  The list the bell draws follows the records; quiet hours and
snooze are a choice per sample; a coalesced alert is recorded and has no popup.
`first` and `turns` of a meter, and `shown`, `twice` and `drained`, are ghosts.

## ActivityEngine

`hooks` are events observed and not yet written, `spool` the event files, `mem`
and `disk` the engine and its checkpoint, `work` the tick under way, `out` what
the last tick has left to announce.

**Actions.**  `Hook` and `Publish` are the writer (allocation of a sequence above
the instant and above every file, removal of old files, and refusal of a spool
with `MAX_ENTRIES` entries included); `GiveUp` is a hook that ends without
publishing, by its deadline, an entry it refuses, too many bytes or its death, after
old files were removed.  `Begin`
is a sweep with `maintain`, complete or not; it may miss any file.  `Take` is
`apply` for the next event by sequence, `Commit` saves the checkpoint and hands
off, `Announce` publishes one transition, `Restart` loads the checkpoint.

**Abstractions.**  What a probe of a process finds, and whether two processes are
the same, are choices (`Probes`, `Fates`).  The `.writer` directory lock is taken
to exclude.  What makes a hook give up is a choice.  A sweep reads within one tick of the clock.  Paths, titles and
counters of a session are left out, and so is the rule of `Event::valid` on the
start of its process.  Whether a session failed is a boolean, so that one
which is cancelled and then fails keeps its first ending where `engine.rs:416-421`
takes the second.  The clock does not go back: `engine.rs:221` then goes on from the
instant observed last, and a checkpoint from the future does not load until the
clock has caught up.

**Eviction.**  `maintain` keeps at most `MAX_SEEN` records of retirement and removes
the oldest to make room (`engine.rs:262-266`, with a test at `tests.rs:426`), also
one made in the same pass.  `Recorded` gives the sets of records that may remain.
A session without its record can be reopened by an event from before it retired.

**Ghosts.**  `announced`, `twice`, `gone`: when a session last retired on disk, and
`evicted`: the sessions of which a record ever made room on disk.
`NoReopeningUnlessEvicted`, `SessionsMoveOn` and `AnnouncedOnceUnlessCrowded` hold
for every session that is not one of these.
`crowded` are the events whose sequence ran into the next instant's, which takes a
thousand files in a millisecond.  Announcing once is stated up to that: sequences
that are ahead of the clock, a hook that is a day late and one that gives up after
removing their files could together give an announced sequence out again.

## Runs

Deadlock is checked in every run but `lock_discard`, where time cannot pass, all
mutations have been made in the end, and stopping is right.

| Run | Instance | Checks | Result |
|---|---|---|---|
| `lock_node` | two mutations of one Node process and a policy transaction, a crash, a refused stamp, the stale window, under fairness | `TypeOK`, `ExclusiveUnlessRobbed`, `TurnsExclude`, `ActsAsStore`, `EveryRequestEnds` | hold |
| `lock_desktop` | two folds of the shared writer and a Node writer, a crash, a refused stamp, the stale window | `NoLostUpdateUnlessRobbed`, `OneSession`, `WrittenOnce` | hold |
| `lock_discard` | two Node processes, nothing fails | `ContentionNeverDiscards` | violated |
| `gate_one` | the tool and a desktop, one rotating login, one fault, stalls anywhere | `DocumentValid`, `TypeOK`, `HonoursLimitsUnlessTornOrMet`, `LeaseEndsSoon`, `OnlyHolderWrites` | hold |
| `gate_refused` | one desktop, one login that cannot be read for a moment | `RefusedLoginWaits` | violated |
| `refresh_lock` | a refresh round and a waiting transaction, twice each, one death or failed token, silence, under fairness | `TypeOK`, `OneRoundUnlessRobbed`, `ActsAsStore`, `EveryoneIsAnswered` | hold |
| `refresh_start` | two renders, up to two windows late, five windows | `StartsAtMostOnce` | hold |
| `cache_fold` | three writers, two meters of one identity and a second identity that drifts, two reports under way | `TypeOK`, `OutdatedStaysHidden`, `DriftHidesOnlyOlder`, `StaleKeepsSuppression`, `RowsNeverGoBack`, `CliKeepsNewer` | hold |
| `pairing` | two commands in flight, two codes, a clock that passes their expiry, under fairness | `TypeOK`, `OneDecisionUnlessLate`, `DecidingIsCarried`, `NoReturnUnlessLate`, `DecidingEnds` | hold |
| `pairing_late` | three commands in flight, one code | `OneDecision` | violated |
| `notifications` | three readings, ends that are missing, drift by a second or advance, two bands, room for one record | `TypeOK`, `OnceEach`, `ShownIsOnDisk`, `DocumentLoads`, `ResetsAreAdvances` | hold |
| `activity` | two agents that claim one session id, two events of five shapes, room for one id and one session | `TypeOK`, `AnnouncedOnceUnlessCrowded`, `CheckpointLoads`, `NoReopeningUnlessEvicted`, `SessionsMoveOn`, `SequencesGrow` | hold |

**Bounds.**  Two writers race for a lock and a third contends: every property of
`StateLock` is about a pair of writers, and the pair, the kind of each and what
a third does to the lock path meanwhile are covered by the three instances.
One mutation per writer is enough for a race, because a second one starts from
the same idle state with a new token.  `AttemptLimit` 2 lets a desktop writer
reclaim and try again.  Exclusion is checked on the first instance and lost updates
on the second; the proofs have both for all of them.  Two Node processes meet in `lock_discard` and in the
proofs.  In `AcquisitionGate`, three
ticks with a lease of two let a lease be taken, expire, be taken over and be
found gone; a backoff of two or three ticks outlives a lease, a cadence of one
does not; `Day` is shorter than the run, so that a refusal is both ahead and
over.  Several desktop processes, two accounts with faults and old clock readings
are too large for TLC and left to the proofs.  One rotation is enough for
"another login".  In `RefreshLock` a pair with a second request of each makes a
holder, a reclaimer and a holder that returns; a third process is left to the
proofs.  Five windows in
`RefreshStart` are the first in which a token can be removed (window 3) and one
more; `OneStartPerWindow` is the invariant behind the refinement and needs no
check of its own.

In `CacheFold` two reports under way are what an order needs, four instants with a
retention of two let a row be before, at and after a drift and be too old to keep,
and `MaxSupp` 1 with an identity that only
drifts makes a suppression be dropped over a row it hides.  In `Pairing` two commands and two codes
are a decision and a late answer, a pairing and the one that replaces it.  In
`Notifications` `MaxRecords` 1 lets a key be on record, be dropped and come again;
four instants are a baseline, a rise, a drop and its confirmation.  In
`ActivityEngine` two events are one that a sweep missed and one it saw, or one
that was forgotten and is read again; `Day` 1 and three instants let a session
end, retire and its record be forgotten; `MaxSeen` 1 lets the second retirement
evict the first's record; `MaxEntries` 2 is the least that lets
two files share a spool, and below the three sequences of a day, as in the code (a
full spool, which takes a third event, and a crowded instant, which takes a fourth,
are left to the proofs); the agents are symmetric, the properties
naming none.  All of these bounds disappear in the proofs.

**Fairness** (`StateLock`, `RefreshLock` and `Pairing`).  A running process keeps executing:
weak fairness of each writer's `Step` and of the second round of a fold.  Time
passes: weak fairness of `Elapse`.  Nothing forces a new mutation, a fault or a
death.  `EveryRequestEnds` then says that a lock whose owner died, with or
without a stamp, delays the others and does not stop them.  `RefreshLock` has
weak fairness of each process's `Step`, of a touch already issued and of
`Elapse`; nobody is made to ask, to beat, to time out or to die.
`EveryoneIsAnswered` says the same there, for waiters without any deadline.
`Pairing` has weak fairness of each command's `Step`, since a request has a
timeout and a command that was answered resumes; the person, the phone and the
timer owe nothing.  `DecidingEnds` says that the phase in which a pairing is
neither polled nor decidable is left again.  `AcquisitionGate`
states no liveness: nothing obliges either program to ask again.

## Proofs

The eight proof modules prove, for every value of the constants allowed by
`ConstantsAssumption` (and `NoneAssumption`, that `None` is none of the things it
stands next to; and for the activity engine `EntriesAssumption`, that `MAX_ENTRIES`,
65 536, is no more than the sequences of a day, a thousand per millisecond):

| Theorem | Says |
|---|---|
| `StateLockProofs!TypeCorrect` | `Spec => []TypeOK` |
| `StateLockProofs!Exclusion` | `Spec => []ExclusiveUnlessRobbed` |
| `StateLockProofs!NothingLost` | `Spec => []NoLostUpdateUnlessRobbed` |
| `StateLockProofs!TurnExclusion` | `Spec => []TurnsExclude` |
| `StateLockProofs!SessionExclusion` | `Spec => []OneSession` |
| `StateLockProofs!OneWrite` | `Spec => []WrittenOnce` |
| `StateLockProofs!Refines` | `Spec => ActsAsStore`, the refinement of `DocumentStore` |
| `AcquisitionGateProofs!TypeCorrect` | `Spec => []TypeOK` |
| `AcquisitionGateProofs!LimitsHonoured` | `Spec => []HonoursLimitsUnlessTornOrMet` |
| `AcquisitionGateProofs!DocumentStaysValid` | `Spec => []DocumentValid` |
| `AcquisitionGateProofs!LeaseBounded` | `Spec => []LeaseEndsSoon` |
| `AcquisitionGateProofs!HolderWrites` | `Spec => OnlyHolderWrites` |
| `RefreshLockProofs!TypeCorrect` | `Spec => []TypeOK` |
| `RefreshLockProofs!OneRound` | `Spec => []OneRoundUnlessRobbed` |
| `RefreshLockProofs!Refines` | `Spec => ActsAsStore`, the refinement of `DocumentStore` |
| `RefreshStartProofs!OneStart` | `Spec => []OneStartPerWindow` |
| `RefreshStartProofs!Refines` | `Spec => StartsAtMostOnce`, the refinement of `AtMostOnce` |
| `CacheFoldProofs!TypeCorrect` | `Spec => []TypeOK` |
| `CacheFoldProofs!HiddenUntilLifted` | `Spec => OutdatedStaysHidden` |
| `CacheFoldProofs!DriftSpares` | `Spec => DriftHidesOnlyOlder` |
| `CacheFoldProofs!RowsMoveForward` | `Spec => RowsNeverGoBack` |
| `CacheFoldProofs!StaleClearsNothing` | `Spec => StaleKeepsSuppression` |
| `CacheFoldProofs!CliDefers` | `Spec => CliKeepsNewer` |
| `PairingProofs!TypeCorrect` | `Spec => []TypeOK` |
| `PairingProofs!OneDecisionPerCode` | `Spec => []OneDecisionUnlessLate` |
| `PairingProofs!Carried` | `Spec => []DecidingIsCarried` |
| `PairingProofs!NoReturn` | `Spec => NoReturnUnlessLate` |
| `NotificationsProofs!TypeCorrect` | `Spec => []TypeOK` |
| `NotificationsProofs!ShownOnce` | `Spec => []OnceEach` |
| `NotificationsProofs!RecordedFirst` | `Spec => []ShownIsOnDisk` |
| `NotificationsProofs!AlwaysLoads` | `Spec => []DocumentLoads` |
| `NotificationsProofs!Advances` | `Spec => []ResetsAreAdvances` |
| `ActivityEngineProofs!TypeCorrect` | `Spec => []TypeOK` |
| `ActivityEngineProofs!AlwaysLoads` | `Spec => []CheckpointLoads` |
| `ActivityEngineProofs!NotReopened` | `Spec => []NoReopeningUnlessEvicted` |
| `ActivityEngineProofs!MovesOn` | `Spec => SessionsMoveOn` |
| `ActivityEngineProofs!AnnouncesOnce` | `Spec => []AnnouncedOnceUnlessCrowded` |
| `ActivityEngineProofs!Growing` | `Spec => SequencesGrow` |

**The invariant of the lock.**  Exclusion is not inductive: it says nothing of
who is *about* to be inside.  `IInv` adds
`TurnInv` (a Node writer past the queue is the head of its turns, whence
`TurnsExclude`), `SessionInv` (a fold that is neither idle nor folding holds the
Mutex, a held Mutex means no open session, an open session belongs to a fold
that is folding, whence `OneSession`), `LockInv` (until a lock in use is
reclaimed, whoever owns an attempt finds its own directory at the lock path,
stamped once it has stamped it, so two owners have one directory and are one
writer), and `DocInv` (until then, what a writer inside the lock read is still
the document, so its write drops nothing).

`OneWrite` and the refinement need to know, beyond that, that what a writer adds is
new.  `WrittenInv`: the document and every copy read from it hold acknowledged
updates only; the token of an attempt that has not written (`Unwritten`) is in none
of them; and while a request of a writer is open it has fewer writes than requests.
This part does not mention `robbed`.  A write is then, until a lock in use is
reclaimed, the document (`DocInv`) and one new update, which is the abstract step.

**The invariant of the gate.**  `HonoursLimitsUnlessTornOrMet` is about the moment of
a request and says nothing of why the deadline will hold.  `IInv` adds `GateInv`
(a desktop past its lock holds it), `HolderInv` (whoever owns the lease on the
way to an answer finds no deadline ahead in the file), `RowInv` (while a desktop
reads an account the document holds no refusal of it), and `LimitInv`: while a
protected deadline is ahead that met no refusal's, the file shows exactly that
deadline and no refusal, no refusal of the document ends with it, and every account the file
alone would let through is stopped by the document's provider row, or by the
lock of the desktop that is about to write that row (`HeldBack`).  The last
alternative is the window between the two writes, and a crash inside it is what
`torn` records.

**The invariant of the refresh lock.**  `LockInv`: until a file in use is
reclaimed, whoever uses the lock finds its own file at the path, with its token
once it has been written; so two users have one file and are one process.
`DocInv`: until then, what a process read is still the document.  The heartbeat
needs nothing more, since a touch changes neither maker nor token.  `WrittenInv`, as
for the state lock, adds that what a process is about to write is not yet in the
document, which turns its write into the abstract step of `DocumentStore`.

**The invariant of the start tokens.**  `OneStartPerWindow` needs to know why a
window that was reserved cannot be reserved again: a window is `Taken` when its
token exists, or when the clock is so far ahead that no render can still want
it.  `LagInv` bounds how far a render without its token lags behind and says
that whatever is on a list to be removed is further behind than that;
`ReservedInv` gives a reserved window to one render and keeps it `Taken`;
`StartedInv` does the same for a window already started.

The same fact gives the refinement: a spawn is the first of its window, so it is
an abstract step, and every other step leaves the counts alone.

**The invariant of the cache.**  `ReportInv`: a report is about rows of its own
identity, and only the desktop reports anything but successes.  With `TypeOK` that
is `IInv`; the properties are about steps, and the work is in lemmas on each fold.
`Gentle`: a success leaves a row, removes it, or replaces it by its own when that is
no older.  `Kept`: a row that shows after a step is no older than the suppression
before it, and a row the step left alone showed before.  For the
exception, `BoundDrops` counts: the suppression dropped is the oldest of more than
`MaxSupp`, so the others are as many and no older.

**The invariant of pairing.**  `CallInv` says what a command in flight knows (the
service has the code it is about, a decision was sent for a claimed pairing, an
answered start carries its code), `FreshInv` that a code created and not yet
adopted is nobody else's, and `HeldInv` that, until a late write, a pairing with a
decision in flight is, if it is held, marked as being decided, so that `Decidable`
excludes a second one.

**The invariant of notifications.**  `AlertInv`: what is shown or about to be is
recorded on disk or was drained, and a popup whose record is kept was not shown
before and comes once.  `WorkInv` says the same of the batch under way, relative to
memory.  `DocsInv`: the documents load, and their ends are as far ahead as their
turns demand.

**The invariant of the activity engine.**  `DiskInv`: memory is the checkpoint,
which satisfies `Fit` (the rules of `Engine::valid`, and that a session on record
as retired is not open) and `Past` (a retirement that is no longer on record is
more than a day ago, so no valid event is as old, and the session, if open again,
began after it, except for sessions whose record made room: those of `evicted`, and
in a tick those its `maintain` has shed).  `WorkInv`: the engine of the tick satisfies both, is `Onward`
from the checkpoint, and its queue holds valid events only.

`SequencesGrow` rests on `SpoolInv`: a file's sequence is at most `MaxEntries`
above the instant it was made at, and no sequence from the present instant up to a
file's is missing from the spool; the second, with the bound on the entries, gives
the first (`TooMany`, a counting lemma).  A file that ages out is a day old, so its
sequence is below the present instant's as long as a full spool uses fewer
sequences than a day has (`AgedOut`): a new file is above every file there was,
although the removed ones are not looked at.

`AnnouncedOnceUnlessCrowded` needs `OnceInv`, since what prevents a second
announcement may have left every file: the id is forgotten at `MAX_SEEN`, the
session retires, the record of the retirement ages out, the event's file is
removed.  Until an instant is crowded, every file is `Ordered`: its sequence is no
lower than the instant it was observed at and belongs to no later instant than the
present.  `OutInv` and `TickInv` then keep every transition that is announced, or
about to be, `Spent`: its session is past it, or has retired since its sequence was
given out.  In the second case an event with that sequence is no younger than the
retirement, and `Past` says that it is no longer valid once the retirement is off
the record.

**Only model-checked.**  `EveryRequestEnds`, `EveryoneIsAnswered` and
`DecidingEnds`, since liveness under fairness is out of the prover's reach, and
the three violations.  Every other property of a passing run is a theorem.

## Disagreements between code and comments

Each of these is a run that must be violated; `PROJECT.json` quotes the lines.

1. `lock_discard`: contention can discard a Node write.  `mkdir` reports EEXIST,
   the holder releases, the existence test finds nothing and the error escapes.
2. `gate_refused`: a refused login that cannot be read for a moment counts as a
   rotated one, and is sent again.
3. `pairing_late`: a status poll asked before Approve was pressed and answered
   after it makes the pairing claimed again, and a second decision can be sent.

The following have no run of their own.  Most are what the ghosts `robbed`,
`torn`, `met` and `evicted` stand for, and the theorems hold up to them.

- After a crash, two writers that judged the dead state lock stale can both come
  to hold it, and an acknowledged update is dropped (`cache.ts:561`;
  `ARCHITECTURE.md:57`).
- `releaseLock` removes the lock path after a separate read of its stamp
  (`cache.ts:645`), though `ARCHITECTURE.md:55` says "A writer only removes a lock
  that still carries its own stamp."
- A desktop that dies between the two writes of a backoff lets a second account
  ask through it after a restart (`request_policy.rs:437`, comment at line 458).
- A rate limit that ends at the very millisecond a refusal ends is erased with the
  refusal when the login rotates (`request_policy.rs:738`), though the comment at
  lines 730-733 says that a rate limit stays.
- `acquireRefreshLock` unlinks a stale path without another look
  (`coordination.ts:312`), so a lock that a heartbeat, a token or another
  reclaimer made live since is removed, though the comment at line 306 says that
  "a utimes race cannot make this process remove a lock that became live."
- A refresh that sleeps between `stillOwned` (`cli.ts:1036`) and the write of the
  schedule (line 1042) writes over the round that reclaimed its lock, which the
  comment at line 1003 rules out.
- `collection.ts:16-22` says that a row which predates a suppression can never
  become visible again.  It does when the bound drops the suppression over it, and
  when a newer success or an unavailable report lifted the suppression and a success
  from before the drift is folded after that.
- A session whose record of retirement made room for another is reopened, and can
  be announced again, by an event from before it retired (`engine.rs:262-266`).
- The uniqueness key of a threshold holds the end its sample states
  (`notifications.rs:529`), not the end the meter keeps, so a band crossed again
  after the end drifted by seconds alerts again in one window, which the comment
  at lines 473-478 sets out to avoid.
- `ARCHITECTURE.md:55` calls a lock stale when it is "older than five seconds"; the
  code waits 60 000 ms.

## Not modelled

The models cover the shared state and the protocols on it.  By lines that is a
small part of the repository: most of it is the web application, the desktop's
user interface, code generated from `packages/core` and from provider
specifications, build and validation scripts, and parsers.  Parsers of provider
responses, freshness, forecast and policy are pure functions with vectors in the
repository.  Transport, keychains, the shell, the tray, the web application and
the agent adapters are I/O or presentation.  The hosted service is not part of the
repository; `Pairing` models what the desktop relies on, as external.  The
components that keep state and are still left out follow.

## Plan

In this order, most important first.

1. **AcquisitionRound**: the tool's schedule document, its reader and the round
   over several providers; replaces the abstracted schedule of
   `AcquisitionGate`.  Property: a deadline survives a restart (the reader's set
   of outcome names in `cadence.ts` is the suspect).
2. **HubSession** on `RefreshLock`'s waiters: renewal and the sync cursor.
3. **ConnectionLifecycle** and **RetrySchedule**: the transition table, and
   backoff, ceiling, jitter and server waits of both programs against one
   reference.
4. **Collector**: one poll per identity, on top of `AcquisitionGate`.

A refinement worth stating further: "one asker, deadlines honoured" as an abstract
specification that `AcquisitionGate` implements while `torn` and `met` are empty.  No module that
carries theorems, or is used by one, declares a RECURSIVE operator.
