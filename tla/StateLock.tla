----------------------------- MODULE StateLock -----------------------------
(***************************************************************************)
(* The cross-process lock of the state directory and the read-merge-write  *)
(* of a document that runs inside it.                                      *)
(*                                                                         *)
(*   packages/core/src/cache.ts        withStateLock and what it calls     *)
(*   apps/desktop/.../cache_write.rs   CacheWriter, its Rust twin          *)
(*   apps/desktop/.../native_snapshot.rs  the retry around a commit        *)
(*                                                                         *)
(* Three kinds of writer share the lock directory:                         *)
(*   NodeWriters    a mutation of a Node process (CLI, status line).  The  *)
(*                  writers of one process take FIFO turns first, retry    *)
(*                  without deadline, and write without a possession check *)
(*   PolicyWriters  a desktop policy_transaction: its own CacheWriter, a   *)
(*                  bounded number of attempts, no possession check        *)
(*   FoldWriters    a desktop thread folding a report through the ONE      *)
(*                  shared CacheWriter: begin, fold, commit; a newer begin *)
(*                  supersedes the open session                            *)
(*                                                                         *)
(* Every step that touches the file system is an action of its own, so a   *)
(* check and the removal that follows it can be interleaved.  Time is one  *)
(* bit: `stale' says that LOCK_STALE_MILLISECONDS have passed since the      *)
(* instant a staleness test would look at.                                 *)
(***************************************************************************)
EXTENDS Naturals, Sequences, FiniteSets

CONSTANTS
    NodeWriters,     \* mutations that run in Node processes
    PolicyWriters,   \* desktop policy transactions
    FoldWriters,     \* desktop threads of the shared CacheWriter
    Processes,       \* operating system processes
    ProcessOf,       \* the process each writer runs in
    AttemptLimit,    \* LOCK_ATTEMPT_LIMIT of cache_write.rs
    MaxJobs,         \* bound: mutations each writer performs
    MaxCrashes,      \* bound: processes that die
    MaxFaults,       \* bound: owner stamps the disk refuses
    MayElapse,       \* whether the stale window may pass at all
    None             \* no lock, no session, no token, no holder

Desktop == PolicyWriters \union FoldWriters
Writers == NodeWriters \union Desktop

ASSUME ConstantsAssumption ==
    /\ NodeWriters \intersect Desktop = {}
    /\ PolicyWriters \intersect FoldWriters = {}
    /\ ProcessOf \in [Writers -> Processes]
    /\ \A v, w \in FoldWriters : ProcessOf[v] = ProcessOf[w]
    /\ AttemptLimit \in Nat \ {0}
    /\ MaxJobs \in Nat
    /\ MaxCrashes \in Nat
    /\ MaxFaults \in Nat
    /\ MayElapse \in BOOLEAN

(* A token names one attempt of one writer: the uuid an acquisition draws.  *)
(* It also names the directory that attempt makes, the update it writes and *)
(* (for the shared CacheWriter) its generation.                             *)
Tokens == Writers \X Nat

Locks == [dir : Tokens, stamp : Tokens \union {None}, age : {"fresh", "stale"}]

ASSUME NoneAssumption == None \notin Tokens \union Locks \union FoldWriters

Labels == {"idle", "queued", "acquire", "exists", "inspect", "displace",
           "stamp", "unmake", "read", "fold", "possess", "write",
           "relcheck", "relremove", "supcheck", "supremove", "dead"}

Results == {"none", "ok", "thrown", "busy", "stale", "aborted"}

VARIABLES
    pc,        \* where each writer is
    tries,     \* acquisitions each writer has started; names its token
    jobs,      \* mutations each writer has started
    again,     \* the folds in their second and last round
    oldStart,  \* writers whose start instant, yet to be stamped, is stale
    spins,     \* attempts spent in the current acquisition (desktop)
    seen,      \* the token a writer observed: of a stale lock, or superseded
    base,      \* the document a writer read and merges into
    result,    \* how each writer's last mutation ended
    queue,     \* the FIFO turns of each Node process
    mutex,     \* who holds the shared CacheWriter's Mutex
    pending,   \* the shared CacheWriter's open session
    lock,      \* the lock directory
    doc,       \* the document: the set of updates it contains
    acked,     \* ghost: updates reported as written
    live,      \* processes that are running
    faults,    \* disk refusals so far
    robbed     \* ghost: the locks a reclaim displaced while in use

vars == <<pc, tries, jobs, again, oldStart, spins, seen, base, result, queue,
          mutex, pending, lock, doc, acked, live, faults, robbed>>

Token(w) == <<w, tries[w]>>

TypeOK ==
    /\ pc \in [Writers -> Labels]
    /\ tries \in [Writers -> Nat]
    /\ jobs \in [Writers -> Nat]
    /\ again \in SUBSET Writers
    /\ oldStart \in SUBSET Writers
    /\ spins \in [Writers -> Nat]
    /\ seen \in [Writers -> Tokens \union {None}]
    /\ base \in [Writers -> SUBSET Tokens]
    /\ result \in [Writers -> Results]
    /\ queue \in [Processes -> Seq(NodeWriters)]
    /\ mutex \in FoldWriters \union {None}
    /\ pending \in Tokens \union {None}
    /\ lock \in Locks \union {None}
    /\ doc \in SUBSET Tokens
    /\ acked \in SUBSET Tokens
    /\ live \in SUBSET Processes
    /\ faults \in Nat
    /\ robbed \in SUBSET Tokens

Init ==
    /\ pc = [w \in Writers |-> "idle"]
    /\ tries = [w \in Writers |-> 0]
    /\ jobs = [w \in Writers |-> 0]
    /\ again = {}
    /\ oldStart = {}
    /\ spins = [w \in Writers |-> 0]
    /\ seen = [w \in Writers |-> None]
    /\ base = [w \in Writers |-> {}]
    /\ result = [w \in Writers |-> "none"]
    /\ queue = [p \in Processes |-> <<>>]
    /\ mutex = None
    /\ pending = None
    /\ lock = None
    /\ doc = {}
    /\ acked = {}
    /\ live = Processes
    /\ faults = 0
    /\ robbed = {}

-----------------------------------------------------------------------------
(* Helpers *)

locals == <<oldStart, spins, seen, base>>

Goto(w, label) == pc' = [pc EXCEPT ![w] = label]

(* The local variables of an attempt go out of scope.                       *)
Forget(w) ==
    /\ oldStart' = oldStart \ {w}
    /\ spins' = [spins EXCEPT ![w] = 0]
    /\ seen' = [seen EXCEPT ![w] = None]
    /\ base' = [base EXCEPT ![w] = {}]

(* A mutation ends: a Node writer finishes its turn in every case (the two  *)
(* finally blocks of withStateLock), a fold gives the Mutex back.           *)
Leave(w, outcome) ==
    /\ Goto(w, "idle")
    /\ result' = [result EXCEPT ![w] = outcome]
    /\ queue' = IF w \in NodeWriters
                  THEN [queue EXCEPT ![ProcessOf[w]] = Tail(@)]
                  ELSE queue
    /\ mutex' = IF w \in FoldWriters THEN None ELSE mutex
    /\ again' = again \ {w}
    /\ Forget(w)

(* A writer of attempt Token(w) that has made the lock directory and has    *)
(* not yet removed it, lost its session or died.                            *)
Owning(w) ==
    \/ pc[w] \in {"stamp", "unmake", "read", "possess", "write",
                  "relcheck", "relremove"}
    \/ pc[w] = "fold" /\ pending = Token(w)

(* A directory somebody still relies on: its owner, or the begin that is    *)
(* about to remove the session it superseded.                               *)
InUse(d) ==
    \E w \in Writers :
        \/ Owning(w) /\ Token(w) = d
        \/ pc[w] \in {"supcheck", "supremove"} /\ seen[w] = d

(* What a staleness test will make of the startedAt a writer stamps.        *)
StampAge(w) == IF w \in oldStart THEN "stale" ELSE "fresh"

Stamped(t) == lock # None /\ lock.stamp = t

-----------------------------------------------------------------------------
(* Starting a mutation *)

(* withStateLock: join the FIFO of this process and the directory.          *)
Enqueue(w) ==
    /\ w \in NodeWriters /\ pc[w] = "idle" /\ jobs[w] < MaxJobs
    /\ jobs' = [jobs EXCEPT ![w] = @ + 1]
    /\ queue' = [queue EXCEPT ![ProcessOf[w]] = Append(@, w)]
    /\ Goto(w, "queued")
    /\ UNCHANGED <<tries, again, oldStart, spins, seen, base, result, mutex,
                   pending, lock, doc, acked, live, faults, robbed>>

(* Entering acquireLock / acquire_lock: a fresh token; the Rust stamp's     *)
(* startedAt is read here, before the loop.                                 *)
EnterAcquire(w) ==
    /\ Goto(w, "acquire")
    /\ tries' = [tries EXCEPT ![w] = @ + 1]
    /\ Forget(w)


(* Mutant: a turn starts without waiting for the previous one. *)
StartTurn_NoWait(w) ==
    /\ w \in NodeWriters /\ pc[w] = "queued"
    /\ EnterAcquire(w)
    /\ UNCHANGED <<jobs, again, result, queue, mutex, pending, lock, doc, acked,
                   live, faults, robbed>>

(* withStateLock: the previous turn has finished.                           *)
StartTurn(w) ==
    /\ w \in NodeWriters /\ pc[w] = "queued"
    /\ queue[ProcessOf[w]] # <<>> /\ Head(queue[ProcessOf[w]]) = w
    /\ EnterAcquire(w)
    /\ UNCHANGED <<jobs, again, result, queue, mutex, pending,
                   lock, doc, acked, live, faults, robbed>>

(* policy_transaction: a CacheWriter of its own, so no session and no Mutex *)
(* to contend for.                                                          *)
StartPolicy(w) ==
    /\ w \in PolicyWriters /\ pc[w] = "idle" /\ jobs[w] < MaxJobs
    /\ jobs' = [jobs EXCEPT ![w] = @ + 1]
    /\ EnterAcquire(w)
    /\ UNCHANGED <<again, result, queue, mutex, pending, lock,
                   doc, acked, live, faults, robbed>>


(* Mutant: begin does not wait for the CacheWriter's Mutex. *)
Begin_NoMutex(w) ==
    /\ w \in FoldWriters /\ pc[w] = "idle"
    /\ w \in again \/ jobs[w] < MaxJobs
    /\ jobs' = IF w \in again THEN jobs ELSE [jobs EXCEPT ![w] = @ + 1]
    /\ mutex' = w
    /\ pending' = None
    /\ EnterAcquire(w)
    /\ UNCHANGED <<again, result, queue, lock, doc, acked, live, faults, robbed>>

(* begin on the shared CacheWriter: takes the Mutex and takes out a session *)
(* an earlier begin left open, whose lock it will release.                  *)
Begin(w) ==
    /\ w \in FoldWriters /\ pc[w] = "idle" /\ mutex = None
    /\ w \in again \/ jobs[w] < MaxJobs
    /\ jobs' = IF w \in again THEN jobs ELSE [jobs EXCEPT ![w] = @ + 1]
    /\ mutex' = w
    /\ pending' = None
    /\ \/ pending = None /\ EnterAcquire(w)
       \/ /\ pending # None
          /\ Goto(w, "supcheck")
          /\ seen' = [seen EXCEPT ![w] = pending]
          /\ UNCHANGED <<tries, spins, oldStart, base>>
    /\ UNCHANGED <<again, result, queue, lock, doc, acked, live, faults,
                   robbed>>

(* release_session of the superseded session: the check ...                 *)
SupersedeCheck(w) ==
    /\ w \in FoldWriters /\ pc[w] = "supcheck"
    /\ \/ /\ Stamped(seen[w])
          /\ Goto(w, "supremove") /\ UNCHANGED <<tries, locals>>
       \/ ~Stamped(seen[w]) /\ EnterAcquire(w)
    /\ UNCHANGED <<jobs, again, result, queue, mutex, pending,
                   lock, doc, acked, live, faults, robbed>>

(* ... and the removal, which trusts it.                                    *)
SupersedeRemove(w) ==
    /\ w \in FoldWriters /\ pc[w] = "supremove"
    /\ lock' = None
    /\ EnterAcquire(w)
    /\ UNCHANGED <<jobs, again, result, queue, mutex, pending,
                   doc, acked, live, faults, robbed>>

-----------------------------------------------------------------------------
(* acquireLock / acquire_lock: one round of the loop *)


(* Mutant: a recursive mkdir, which succeeds on an existing directory. *)
MakeLock_Recursive(w) ==
    /\ pc[w] = "acquire" /\ spins[w] < AttemptLimit
    /\ lock' = [dir |-> Token(w), stamp |-> None, age |-> "fresh"]
    /\ oldStart' = oldStart
    /\ Goto(w, "stamp")
    /\ UNCHANGED <<tries, jobs, again, spins, seen, base, result, queue, mutex,
                   pending, doc, acked, live, faults, robbed>>

(* mkdir succeeds only on an absent lock.  The Node stamp's startedAt is    *)
(* read right after it.                                                     *)
MakeLock(w) ==
    /\ pc[w] = "acquire" /\ lock = None
    /\ spins[w] < AttemptLimit
    /\ lock' = [dir |-> Token(w), stamp |-> None, age |-> "fresh"]
    /\ oldStart' = IF w \in NodeWriters THEN oldStart \ {w} ELSE oldStart
    /\ Goto(w, "stamp")
    /\ UNCHANGED <<tries, jobs, again, spins, seen, base, result, queue, mutex,
                   pending, doc, acked, live, faults, robbed>>

(* mkdir fails with EEXIST.  Node first asks whether the path still exists. *)
Collide(w) ==
    /\ pc[w] = "acquire" /\ lock # None
    /\ spins[w] < AttemptLimit
    /\ Goto(w, IF w \in NodeWriters THEN "exists" ELSE "inspect")
    /\ UNCHANGED <<tries, jobs, again, oldStart, spins, seen, base, result,
                   queue, mutex, pending, lock, doc, acked, live, faults,
                   robbed>>

(* acquire_lock gives up: Busy.  A Node writer never spins up to the limit. *)
GiveUp(w) ==
    /\ pc[w] = "acquire" /\ spins[w] = AttemptLimit
    /\ Leave(w, "busy")
    /\ UNCHANGED <<tries, jobs, pending, lock,
                   doc, acked, live, faults, robbed>>


(* Mutant: the error escapes without finishing the turn. *)
PathExists_KeepsTurn(w) ==
    /\ pc[w] = "exists"
    /\ \/ /\ lock = None
          /\ Goto(w, "idle") /\ result' = [result EXCEPT ![w] = "thrown"]
       \/ lock # None /\ Goto(w, "inspect") /\ UNCHANGED result
    /\ UNCHANGED <<queue, mutex, again, locals, tries, jobs, pending, lock, doc, acked, live, faults, robbed>>

(* lockPathExists in the catch of acquireLock: a lock released since the    *)
(* collision makes the EEXIST escape to the caller.                         *)
PathExists(w) ==
    /\ pc[w] = "exists"
    /\ \/ lock = None /\ Leave(w, "thrown")
       \/ /\ lock # None /\ Goto(w, "inspect")
          /\ UNCHANGED <<result, queue, mutex, again, locals>>
    /\ UNCHANGED <<tries, jobs, pending, lock,
                   doc, acked, live, faults, robbed>>

(* The next round of the loop; only the desktop counts its rounds.          *)
Retry(w) ==
    /\ Goto(w, "acquire")
    /\ spins' = IF w \in Desktop THEN [spins EXCEPT ![w] = @ + 1] ELSE spins

(* Node takes the stamp's age or the death of its process for staleness,    *)
(* the desktop the age alone; an unstamped lock is judged by its mtime.     *)
Stale(w) ==
    \/ lock.age = "stale"
    \/ /\ w \in NodeWriters
       /\ lock.stamp # None
       /\ ProcessOf[lock.stamp[1]] \notin live

(* reclaimStaleLock up to its verdict: stat, read the owner, decide.        *)
Inspect(w) ==
    /\ pc[w] = "inspect"
    /\ \/ /\ lock # None /\ Stale(w)
          /\ seen' = [seen EXCEPT ![w] = lock.stamp]
          /\ Goto(w, "displace")
          /\ UNCHANGED spins
       \/ ~(lock # None /\ Stale(w)) /\ Retry(w) /\ UNCHANGED seen
    /\ UNCHANGED <<tries, jobs, again, oldStart, base, result, queue, mutex,
                   pending, lock, doc, acked, live, faults, robbed>>

(* reclaimStaleLock from the rename on: whatever the path names NOW is      *)
(* moved away.  A displaced lock that is not the observed one is kept on    *)
(* disk but not put back, and either way the lock path is free.             *)
Displace(w) ==
    /\ pc[w] = "displace"
    /\ robbed' = IF lock # None /\ InUse(lock.dir)
                   THEN robbed \union {lock.dir} ELSE robbed
    /\ lock' = None
    /\ Retry(w)
    /\ seen' = [seen EXCEPT ![w] = None]
    /\ UNCHANGED <<tries, jobs, again, oldStart, base, result, queue, mutex,
                   pending, doc, acked, live, faults>>


(* Mutant: the stamp names its writer but carries no token. *)
WriteStamp_NoToken(w) ==
    /\ pc[w] = "stamp" /\ lock # None
    /\ lock' = [lock EXCEPT !.stamp = w, !.age = StampAge(w)]
    /\ Goto(w, "read")
    /\ Forget(w)
    /\ UNCHANGED <<tries, jobs, again, result, queue, mutex, pending, doc,
                   acked, live, faults, robbed>>

(* The owner stamp is written through the lock PATH, so it lands in         *)
(* whichever directory the path names now.                                  *)
WriteStamp(w) ==
    /\ pc[w] = "stamp" /\ lock # None
    /\ lock' = [lock EXCEPT !.stamp = Token(w), !.age = StampAge(w)]
    /\ Goto(w, "read")
    /\ Forget(w)
    /\ UNCHANGED <<tries, jobs, again, result, queue, mutex, pending, doc,
                   acked, live, faults, robbed>>

(* The stamp cannot be written: the directory is gone, or the disk refuses. *)
(* Node goes on to remove the lock path; Rust returns at once and leaves    *)
(* its unstamped directory to the stale window.                             *)
StampFails(w) ==
    /\ pc[w] = "stamp"
    /\ \/ lock = None /\ UNCHANGED faults
       \/ lock # None /\ faults < MaxFaults /\ faults' = faults + 1
    /\ \/ /\ w \in NodeWriters /\ Goto(w, "unmake")
          /\ UNCHANGED <<result, queue, mutex, again, locals>>
       \/ w \in Desktop /\ Leave(w, "thrown")
    /\ UNCHANGED <<tries, jobs, pending, lock,
                   doc, acked, live, robbed>>

(* acquireLock's inner catch: remove the lock path and rethrow.             *)
Unmake(w) ==
    /\ pc[w] = "unmake"
    /\ lock' = None
    /\ Leave(w, "thrown")
    /\ UNCHANGED <<tries, jobs, pending, doc,
                   acked, live, faults, robbed>>

-----------------------------------------------------------------------------
(* Inside the lock *)


(* Mutant: the fold starts from an empty document instead of the file. *)
ReadDoc_Empty(w) ==
    /\ pc[w] = "read"
    /\ base' = [base EXCEPT ![w] = {}]
    /\ \/ /\ w \in FoldWriters /\ Goto(w, "fold")
          /\ pending' = Token(w) /\ mutex' = None
       \/ /\ w \notin FoldWriters /\ Goto(w, "write")
          /\ UNCHANGED <<pending, mutex>>
    /\ UNCHANGED <<tries, jobs, again, oldStart, spins, seen, result, queue,
                   lock, doc, acked, live, faults, robbed>>

(* The document is read.  A fold's begin returns here: the session is       *)
(* opened and the Mutex given back before the fold runs.                    *)
ReadDoc(w) ==
    /\ pc[w] = "read"
    /\ base' = [base EXCEPT ![w] = doc]
    /\ \/ /\ w \in FoldWriters /\ Goto(w, "fold")
          /\ pending' = Token(w) /\ mutex' = None
       \/ /\ w \notin FoldWriters /\ Goto(w, "write")
          /\ UNCHANGED <<pending, mutex>>
    /\ UNCHANGED <<tries, jobs, again, oldStart, spins, seen, result, queue,
                   lock, doc, acked, live, faults, robbed>>

(* A Node action or a policy action that throws or decides not to write.    *)
Abandon(w) ==
    /\ pc[w] = "write" /\ w \notin FoldWriters
    /\ Goto(w, "relcheck")
    /\ result' = [result EXCEPT ![w] = "aborted"]
    /\ UNCHANGED <<tries, jobs, again, oldStart, spins, seen, base, queue,
                   mutex, pending, lock, doc, acked, live, faults, robbed>>

(* commit_parts under the Mutex: the generation is compared and the session *)
(* taken out.                                                               *)
Commit(w) ==
    /\ w \in FoldWriters
    /\ pc[w] = "fold" /\ mutex = None /\ pending = Token(w)
    /\ mutex' = w
    /\ pending' = None
    /\ Goto(w, "possess")
    /\ UNCHANGED <<tries, jobs, again, oldStart, spins, seen, base, result,
                   queue, lock, doc, acked, live, faults, robbed>>

(* The report's one retry: StaleGeneration in the first round begins again, *)
(* in the second it is the caller's answer.                                 *)
FoldRefused(w) ==
    \/ w \in again /\ Leave(w, "stale")
    \/ /\ w \notin again
       /\ Goto(w, "idle")
       /\ again' = again \union {w}
       /\ mutex' = None
       /\ Forget(w)
       /\ UNCHANGED <<result, queue>>

(* commit_parts: another begin superseded this generation.                  *)
CommitSuperseded(w) ==
    /\ w \in FoldWriters
    /\ pc[w] = "fold" /\ mutex = None /\ pending # Token(w)
    /\ FoldRefused(w)
    /\ UNCHANGED <<tries, jobs, pending, lock,
                   doc, acked, live, faults, robbed>>

(* abort: the fold failed.  Only the open session's lock is released.       *)
AbortFold(w) ==
    /\ w \in FoldWriters /\ pc[w] = "fold" /\ mutex = None
    /\ \/ /\ pending = Token(w)
          /\ mutex' = w
          /\ pending' = None
          /\ Goto(w, "relcheck")
          /\ result' = [result EXCEPT ![w] = "aborted"]
          /\ UNCHANGED <<queue, again, locals>>
       \/ pending # Token(w) /\ Leave(w, "aborted") /\ UNCHANGED pending
    /\ UNCHANGED <<tries, jobs, lock, doc, acked,
                   live, faults, robbed>>

(* still_possessed in commit_parts.                                         *)
CheckPossession(w) ==
    /\ w \in FoldWriters /\ pc[w] = "possess"
    /\ \/ /\ Stamped(Token(w)) /\ Goto(w, "write")
          /\ UNCHANGED <<result, queue, mutex, again, locals>>
       \/ ~Stamped(Token(w)) /\ FoldRefused(w)
    /\ UNCHANGED <<tries, jobs, pending, lock,
                   doc, acked, live, faults, robbed>>

(* The merged document replaces the file.                                   *)
WriteDoc(w) ==
    /\ pc[w] = "write"
    /\ doc' = base[w] \union {Token(w)}
    /\ acked' = acked \union {Token(w)}
    /\ result' = [result EXCEPT ![w] = "ok"]
    /\ Goto(w, "relcheck")
    /\ Forget(w)
    /\ UNCHANGED <<tries, jobs, again, queue, mutex, pending, lock, live,
                   faults, robbed>>

(* Mutant: a lock that is lost after the write is taken for a refusal. *)
ReleaseCheck_Again(w) ==
    /\ pc[w] = "relcheck"
    /\ \/ /\ Stamped(Token(w)) /\ Goto(w, "relremove")
          /\ UNCHANGED <<result, queue, mutex, again, locals>>
       \/ ~Stamped(Token(w)) /\ w \in FoldWriters /\ FoldRefused(w)
       \/ ~Stamped(Token(w)) /\ w \notin FoldWriters /\ Leave(w, result[w])
    /\ UNCHANGED <<tries, jobs, pending, lock, doc, acked, live, faults, robbed>>

(* releaseLock / release_session: the check ...                             *)
ReleaseCheck(w) ==
    /\ pc[w] = "relcheck"
    /\ \/ /\ Stamped(Token(w)) /\ Goto(w, "relremove")
          /\ UNCHANGED <<result, queue, mutex, again, locals>>
       \/ ~Stamped(Token(w)) /\ Leave(w, result[w])
    /\ UNCHANGED <<tries, jobs, pending, lock,
                   doc, acked, live, faults, robbed>>

(* ... and the removal.                                                     *)
ReleaseRemove(w) ==
    /\ pc[w] = "relremove"
    /\ lock' = None
    /\ Leave(w, result[w])
    /\ UNCHANGED <<tries, jobs, pending, doc,
                   acked, live, faults, robbed>>

-----------------------------------------------------------------------------
(* The environment *)

(* Between the read of a start instant and the stamp that carries it.       *)
Acquiring == {"acquire", "exists", "inspect", "displace", "stamp"}

(* The stale window passes: the lock and every start instant already read   *)
(* are old now.                                                             *)
Elapse ==
    /\ MayElapse
    /\ lock' = IF lock = None THEN lock ELSE [lock EXCEPT !.age = "stale"]
    /\ oldStart' = {w \in Writers : pc[w] \in Acquiring}
    /\ UNCHANGED <<pc, tries, jobs, again, spins, seen, base, result, queue,
                   mutex, pending, doc, acked, live, faults, robbed>>

(* A process dies where it stands; its lock, if any, stays on disk.         *)
Crash(p) ==
    /\ p \in live
    /\ Cardinality(Processes \ live) < MaxCrashes
    /\ live' = live \ {p}
    /\ pc' = [w \in Writers |-> IF ProcessOf[w] = p THEN "dead" ELSE pc[w]]
    /\ queue' = [queue EXCEPT ![p] = <<>>]
    /\ \/ /\ \E w \in FoldWriters : ProcessOf[w] = p
          /\ mutex' = None /\ pending' = None
       \/ /\ ~\E w \in FoldWriters : ProcessOf[w] = p
          /\ UNCHANGED <<mutex, pending>>
    /\ UNCHANGED <<tries, jobs, again, oldStart, spins, seen, base, result,
                   lock, doc, acked, faults, robbed>>

Step(w) ==
    \/ StartTurn(w) \/ SupersedeCheck(w) \/ SupersedeRemove(w)
    \/ MakeLock(w) \/ Collide(w) \/ GiveUp(w) \/ PathExists(w)
    \/ Inspect(w) \/ Displace(w) \/ WriteStamp(w) \/ StampFails(w)
    \/ Unmake(w) \/ ReadDoc(w) \/ Abandon(w) \/ Commit(w)
    \/ CommitSuperseded(w) \/ AbortFold(w) \/ CheckPossession(w)
    \/ WriteDoc(w) \/ ReleaseCheck(w) \/ ReleaseRemove(w)

Next ==
    \/ \E w \in Writers : Enqueue(w) \/ StartPolicy(w) \/ Begin(w) \/ Step(w)
    \/ Elapse
    \/ \E p \in Processes : Crash(p)

(* A process that is running keeps running its writers, and time passes.    *)
(* Nothing makes a new mutation start, a disk fail or a process die.        *)
Fairness ==
    /\ \A w \in Writers : WF_vars(Step(w)) /\ WF_vars(w \in again /\ Begin(w))
    /\ WF_vars(Elapse)

Spec == Init /\ [][Next]_vars /\ Fairness

-----------------------------------------------------------------------------
(* Properties *)

(* A writer that may read or replace the document right now. *)
Inside(w) ==
    \/ pc[w] \in {"read", "possess", "write"}
    \/ pc[w] = "fold" /\ pending = Token(w)

(* The lock keeps two writers from interleaving, whichever processes they   *)
(* run in, whatever crashed and however long anything took, until a reclaim *)
(* takes a lock that is still in use (withStateLock, CacheWriter).          *)
ExclusiveUnlessRobbed ==
    robbed = {} => \A v, w \in Writers : Inside(v) /\ Inside(w) => v = w

(* No update that was reported as written is missing from the document,     *)
(* again until a lock in use is reclaimed: the read, the merge and the      *)
(* write of one writer never straddle another's.                            *)
NoLostUpdateUnlessRobbed == robbed = {} => acked \subseteq doc

(* Until then the readers and writers of both languages see one store: the  *)
(* read, the merge and the replacement of the file are together one update, *)
(* and only the update of the writer is added by it.                        *)
Store == INSTANCE DocumentStore WITH broken <- robbed # {}
ActsAsStore == Store!Spec

(* No mutation is written twice, robbed or not: a fold that is refused for  *)
(* a stale generation begins again only because it has not been written.    *)
WrittenOnce == \A w \in Writers : Cardinality({t \in acked : t[1] = w}) <= jobs[w]

(* Two mutations of one Node process never overlap, even when their lock    *)
(* was reclaimed from under them: the in-process FIFO alone sees to it.     *)
TurnsExclude ==
    \A v, w \in NodeWriters :
        /\ ProcessOf[v] = ProcessOf[w]
        /\ pc[v] \notin {"idle", "queued", "dead"}
        /\ pc[w] \notin {"idle", "queued", "dead"}
        => v = w

(* At most one fold of the shared CacheWriter has an open session or is     *)
(* committing one, even after a reclaim: the Mutex and the generation stamp *)
(* serialise the desktop's folds without the help of the lock directory.    *)
OneSession ==
    \A v, w \in FoldWriters :
        Owning(v) /\ Owning(w) => v = w

(* cache.ts, acquireLock: `Contention has no deadline. A live owner releases *)
(* the lock and an abandoned owner becomes stale, so neither case should     *)
(* discard this write.'                                                      *)
ContentionNeverDiscards == \A w \in NodeWriters : result[w] # "thrown"

(* A lock whose owner is dead or has left does not wedge the directory:     *)
(* every writer that asked for the lock gets an answer or dies.             *)
EveryRequestEnds ==
    \A w \in Writers :
        pc[w] # "idle" ~> pc[w] \in {"idle", "dead"}

=============================================================================
