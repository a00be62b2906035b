---------------------------- MODULE RefreshLock ----------------------------
(***************************************************************************)
(* The lock file whose modification time is its heartbeat, and the reading *)
(* and rewriting of a document that runs under it.                         *)
(*                                                                         *)
(*   packages/core/src/acquire/coordination.ts  acquireRefreshLock         *)
(*   packages/cli/src/cli.ts                    refreshCommand             *)
(*   packages/cli/src/session.ts                withSessionLock            *)
(*   packages/cli/src/terminal-backup.ts        withFileLock               *)
(*                                                                         *)
(* One lock name.  Two kinds of process take it:                           *)
(*   Refreshers  a refresh round: leaves when the lock is held, and asks   *)
(*               stillOwned before it writes                               *)
(*   Waiters     a session or configuration transaction: tries again while *)
(*               the lock is held, and writes without asking               *)
(*                                                                         *)
(* Every file system call is an action.  acquireRefreshLock reads the      *)
(* clock once and judges every file it meets with that reading, so a file  *)
(* is stale for a process when it had been silent for the whole of         *)
(* REFRESH_LOCK_STALE_MILLISECONDS at that reading: `stale' is the set of  *)
(* those processes, `old' says that one reading the clock now would join.  *)
(***************************************************************************)
EXTENDS Naturals, FiniteSets

CONSTANTS
    Refreshers,   \* processes that run a refresh round
    Waiters,      \* processes in withSessionLock or withFileLock
    MaxJobs,      \* bound: how often each process asks for the lock
    MaxFaults,    \* bound: processes that die and tokens the disk refuses
    None          \* no lock, no token

Procs == Refreshers \union Waiters

(* A request makes at most one lock file: the request names the file, the   *)
(* token written into it and the update it leads to.                        *)
Tokens == Procs \X Nat

Files == [by : Tokens, token : Tokens \union {None}, old : BOOLEAN,
          stale : SUBSET Procs]

ASSUME ConstantsAssumption ==
    /\ Refreshers \intersect Waiters = {}
    /\ {MaxJobs, MaxFaults} \subseteq Nat
    /\ None \notin Tokens \union Files

Labels == {"idle", "open", "check1", "check2", "remove", "check3", "wait",
           "token", "read", "owned", "write", "relcheck", "relremove", "dead"}

VARIABLES
    pc,       \* where each process is
    jobs,     \* requests each process has made
    second,   \* processes in the second round of the acquisition's loop
    base,     \* the document a process read
    lock,     \* the lock file
    beating,  \* processes whose heartbeat has checked and not yet touched
    doc,      \* the document: the set of updates it contains
    acked,    \* ghost: updates written
    faults,   \* tokens the disk refused so far
    robbed    \* ghost: lock files a reclaim removed while in use

vars == <<pc, jobs, second, base, lock, beating, doc, acked, faults, robbed>>

Token(p) == <<p, jobs[p]>>

TypeOK ==
    /\ pc \in [Procs -> Labels]
    /\ jobs \in [Procs -> Nat]
    /\ second \subseteq Procs
    /\ base \in [Procs -> SUBSET Tokens]
    /\ lock \in Files \union {None}
    /\ beating \subseteq Procs
    /\ doc \subseteq Tokens
    /\ acked \subseteq Tokens
    /\ faults \in Nat
    /\ robbed \subseteq Tokens

Init ==
    /\ pc = [p \in Procs |-> "idle"]
    /\ jobs = [p \in Procs |-> 0]
    /\ second = {}
    /\ base = [p \in Procs |-> {}]
    /\ lock = None
    /\ beating = {}
    /\ doc = {}
    /\ acked = {}
    /\ faults = 0
    /\ robbed = {}

document == <<doc, acked>>

----------------------------------------------------------------------------
(* Helpers.                                                                 *)

Goto(p, label) == pc' = [pc EXCEPT ![p] = label]

(* A process that has made the lock file and has not given it up.           *)
Using(p) == pc[p] \in {"token", "read", "owned", "write", "relcheck", "relremove"}

(* owns: the file at the path holds this process's token.                   *)
Owns(p) == lock # None /\ lock.token = Token(p)

(* refreshLockHeld, with the clock reading of the acquisition.              *)
Held(p) == lock # None /\ p \notin lock.stale

(* The file's modification time becomes now.                                *)
Touched(file) ==
    IF file = None THEN None ELSE [file EXCEPT !.old = FALSE, !.stale = {}]

(* acquireRefreshLock reads the clock.                                      *)
Enter(p) ==
    /\ Goto(p, "open")
    /\ second' = second \ {p}
    /\ lock' = IF lock = None THEN None
               ELSE [lock EXCEPT !.stale = IF lock.old THEN @ \union {p}
                                                       ELSE @ \ {p}]

(* Something else may go wrong. *)
MayFail == faults + Cardinality({q \in Procs : pc[q] = "dead"}) < MaxFaults

Leave(p) ==
    /\ Goto(p, "idle")
    /\ second' = second \ {p}
    /\ base' = [base EXCEPT ![p] = {}]

----------------------------------------------------------------------------
(* acquireRefreshLock.                                                      *)

Request(p) ==
    /\ pc[p] = "idle"
    /\ jobs[p] < MaxJobs
    /\ jobs' = [jobs EXCEPT ![p] = @ + 1]
    /\ Enter(p)
    /\ UNCHANGED <<base, beating, document, faults, robbed>>

(* Mutant: the file is opened without the exclusive flag. *)
Create_NotExclusive(p) ==
    /\ pc[p] = "open"
    /\ lock' = [by |-> Token(p), token |-> None, old |-> FALSE, stale |-> {}]
    /\ Goto(p, "token")
    /\ UNCHANGED <<jobs, second, base, beating, document, faults, robbed>>

(* open with "wx" makes the file only where there is none.                  *)
Create(p) ==
    /\ pc[p] = "open" /\ lock = None
    /\ lock' = [by |-> Token(p), token |-> None, old |-> FALSE, stale |-> {}]
    /\ Goto(p, "token")
    /\ UNCHANGED <<jobs, second, base, beating, document, faults, robbed>>

(* "held": a refresh round is skipped, a transaction waits a moment.        *)
Refused(p) ==
    \/ p \in Refreshers /\ Leave(p)
    \/ p \in Waiters /\ Goto(p, "wait") /\ UNCHANGED <<second, base>>

(* EEXIST: the second round gives up at once.                               *)
Collide(p) ==
    /\ pc[p] = "open" /\ lock # None
    /\ \/ p \in second /\ Refused(p)
       \/ p \notin second /\ Goto(p, "check1") /\ UNCHANGED <<second, base>>
    /\ UNCHANGED <<jobs, lock, beating, document, faults, robbed>>

(* Mutant: a stale lock is waited for instead of reclaimed. *)
Check_NeverStale(p) ==
    /\ \/ pc[p] \in {"check1", "check2", "check3"} /\ lock # None /\ Refused(p)
       \/ /\ pc[p] \in {"check1", "check2", "check3"} /\ lock = None
          /\ Goto(p, "open") /\ UNCHANGED <<second, base>>
    /\ UNCHANGED <<jobs, lock, beating, document, faults, robbed>>

(* The three looks at the file: on the collision, after a backoff, and      *)
(* after the removal and another backoff.                                   *)
Check(p) ==
    /\ \/ /\ pc[p] \in {"check1", "check2", "check3"} /\ Held(p)
          /\ Refused(p)
       \/ /\ pc[p] = "check1" /\ ~Held(p)
          /\ Goto(p, "check2") /\ UNCHANGED <<second, base>>
       \/ /\ pc[p] = "check2" /\ ~Held(p)
          /\ Goto(p, "remove") /\ UNCHANGED <<second, base>>
       \/ /\ pc[p] = "check3" /\ ~Held(p)
          /\ Goto(p, "open")
          /\ second' = second \union {p} /\ UNCHANGED base
    /\ UNCHANGED <<jobs, lock, beating, document, faults, robbed>>

(* unlink removes whatever file the path names now.                         *)
Remove(p) ==
    /\ pc[p] = "remove"
    /\ lock' = None
    /\ robbed' = IF lock # None /\ \E q \in Procs : Using(q) /\ Token(q) = lock.by
                   THEN robbed \union {lock.by} ELSE robbed
    /\ Goto(p, "check3")
    /\ UNCHANGED <<jobs, second, base, beating, document, faults>>

(* Mutant: the file names its process but carries no token. *)
WriteToken_NoToken(p) ==
    /\ pc[p] = "token"
    /\ lock' = IF lock # None /\ lock.by = Token(p)
                 THEN Touched([lock EXCEPT !.token = p]) ELSE lock
    /\ Goto(p, "read")
    /\ UNCHANGED <<jobs, second, base, beating, document, faults, robbed>>

(* handle.writeFile goes to the file this process made, wherever it is now. *)
(* When it fails the file stays behind, empty.                              *)
WriteToken(p) ==
    /\ pc[p] = "token"
    /\ \/ /\ lock' = IF lock # None /\ lock.by = Token(p)
                       THEN Touched([lock EXCEPT !.token = Token(p)]) ELSE lock
          /\ Goto(p, "read")
          /\ UNCHANGED <<second, base, faults>>
       \/ /\ MayFail /\ faults' = faults + 1
          /\ Leave(p)
          /\ UNCHANGED lock
    /\ UNCHANGED <<jobs, beating, document, robbed>>

(* withSessionLock, withFileLock: held, so once more with a new reading of  *)
(* the clock.  The session gives up after SESSION_LOCK_WAIT_MILLISECONDS.   *)
Again(p) ==
    /\ pc[p] = "wait"
    /\ Enter(p)
    /\ UNCHANGED <<jobs, base, beating, document, faults, robbed>>

Timeout(p) ==
    /\ pc[p] = "wait"
    /\ Leave(p)
    /\ UNCHANGED <<jobs, lock, beating, document, faults, robbed>>

----------------------------------------------------------------------------
(* Under the lock.                                                          *)

(* Mutant: the round works on what an earlier round left in memory. *)
ReadDoc_Stale(p) ==
    /\ pc[p] = "read"
    /\ Goto(p, IF p \in Refreshers THEN "owned" ELSE "write")
    /\ UNCHANGED <<base, jobs, second, lock, beating, document, faults, robbed>>

(* The schedule, the session or the configuration is read.                  *)
ReadDoc(p) ==
    /\ pc[p] = "read"
    /\ base' = [base EXCEPT ![p] = doc]
    /\ Goto(p, IF p \in Refreshers THEN "owned" ELSE "write")
    /\ UNCHANGED <<jobs, second, lock, beating, document, faults, robbed>>

(* The action throws, or there is nothing to do.                            *)
Abandon(p) ==
    /\ pc[p] \in {"owned", "write"}
    /\ Goto(p, "relcheck")
    /\ UNCHANGED <<jobs, second, base, lock, beating, document, faults, robbed>>

(* refreshCommand asks stillOwned after the round and before its write.     *)
StillOwned(p) ==
    /\ pc[p] = "owned"
    /\ Goto(p, IF Owns(p) THEN "write" ELSE "relcheck")
    /\ UNCHANGED <<jobs, second, base, lock, beating, document, faults, robbed>>

(* The whole document is replaced by what was read and the update to it.    *)
WriteDoc(p) ==
    /\ pc[p] = "write"
    /\ doc' = base[p] \union {Token(p)}
    /\ acked' = acked \union {Token(p)}
    /\ Goto(p, "relcheck")
    /\ UNCHANGED <<jobs, second, base, lock, beating, faults, robbed>>

(* release: the check ...                                                   *)
ReleaseCheck(p) ==
    /\ pc[p] = "relcheck"
    /\ \/ Owns(p)  /\ Goto(p, "relremove") /\ UNCHANGED <<second, base>>
       \/ ~Owns(p) /\ Leave(p)
    /\ UNCHANGED <<jobs, lock, beating, document, faults, robbed>>

(* ... and the unlink that trusts it.                                       *)
ReleaseRemove(p) ==
    /\ pc[p] = "relremove"
    /\ lock' = None
    /\ Leave(p)
    /\ UNCHANGED <<jobs, beating, document, faults, robbed>>

(* The heartbeat of a holder: the check; release stops the timer.           *)
BeatCheck(p) ==
    /\ pc[p] \in {"read", "owned", "write"}
    /\ p \notin beating
    /\ Owns(p)
    /\ beating' = beating \union {p}
    /\ UNCHANGED <<pc, jobs, second, base, lock, document, faults, robbed>>

(* utimes on the path, which may name another's file by now.                *)
BeatTouch(p) ==
    /\ p \in beating
    /\ beating' = beating \ {p}
    /\ lock' = Touched(lock)
    /\ UNCHANGED <<pc, jobs, second, base, document, faults, robbed>>

----------------------------------------------------------------------------
(* The environment.                                                         *)

(* The file has been silent for REFRESH_LOCK_STALE_MILLISECONDS: its owner  *)
(* is dead, or the machine slept.                                           *)
Elapse ==
    /\ lock' = IF lock = None THEN None ELSE [lock EXCEPT !.old = TRUE]
    /\ UNCHANGED <<pc, jobs, second, base, beating, document, faults, robbed>>

Crash(p) ==
    /\ pc[p] # "dead"
    /\ MayFail
    /\ Goto(p, "dead")
    /\ beating' = beating \ {p}
    /\ UNCHANGED <<jobs, second, base, lock, document, faults, robbed>>

Step(p) ==
    \/ Create(p) \/ Collide(p) \/ Check(p) \/ Remove(p) \/ WriteToken(p)
    \/ Again(p) \/ Timeout(p) \/ ReadDoc(p) \/ Abandon(p) \/ StillOwned(p)
    \/ WriteDoc(p) \/ ReleaseCheck(p) \/ ReleaseRemove(p)

Next ==
    \/ \E p \in Procs : Request(p) \/ Step(p) \/ BeatCheck(p) \/ BeatTouch(p) \/ Crash(p)
    \/ Elapse

(* A process that runs keeps running, an unlink or utimes it has issued is  *)
(* carried out, and time passes.  Nothing makes a process ask, beat, time   *)
(* out or die.                                                              *)
Fairness ==
    /\ \A p \in Procs : WF_vars(Step(p)) /\ WF_vars(BeatTouch(p))
    /\ WF_vars(Elapse)

Spec == Init /\ [][Next]_vars /\ Fairness

----------------------------------------------------------------------------
(* Properties.                                                              *)

(* "Two terminals starting a refresh in the same millisecond produce        *)
(* exactly one round": no two processes are between making the lock file    *)
(* and giving it up, whatever died, stalled or was reclaimed before, until  *)
(* a reclaim removes a file that is in use.                                 *)
OneRoundUnlessRobbed ==
    robbed = {} => \A p, q \in Procs : Using(p) /\ Using(q) => p = q

(* Until then the document is one store: what is read under the lock and    *)
(* the write that replaces it are together one update, which is applied     *)
(* once however long its process waited for the lock.                       *)
Store == INSTANCE DocumentStore WITH broken <- robbed # {}
ActsAsStore == Store!Spec

(* A lock file left by a dead process, with its token or without, stops     *)
(* nobody for good: a transaction that waits without deadline comes to its  *)
(* turn, and everybody else to an answer.                                   *)
EveryoneIsAnswered ==
    \A p \in Procs : pc[p] # "idle" ~> pc[p] \in {"idle", "dead"}

============================================================================
