-------------------------- MODULE StateLockProofs --------------------------
(***************************************************************************)
(* Proofs about StateLock, for any number of writers and processes and any *)
(* bounds.  The properties are not inductive; the invariant that is says   *)
(*                                                                         *)
(*   TurnInv     a Node writer past the queue is the head of its turns     *)
(*   SessionInv  a fold that is neither idle nor folding holds the Mutex,  *)
(*               a held Mutex means no open session, and an open session   *)
(*               belongs to a fold that is still folding                   *)
(*   LockInv     until a lock in use is reclaimed, whoever owns an attempt *)
(*               finds its own directory at the lock path, stamped once it *)
(*               has stamped it                                            *)
(*   DocInv      until then, what a writer read is still the document      *)
(*   WrittenInv  an attempt that has not written is in no document read or *)
(*               written, and an open request has a write to spare         *)
(***************************************************************************)
EXTENDS StateLock, SequenceTheorems, FiniteSetTheorems, TLAPS

TurnInv ==
    \A w \in NodeWriters :
        pc[w] \notin {"idle", "queued", "dead"} =>
            /\ queue[ProcessOf[w]] # <<>>
            /\ Head(queue[ProcessOf[w]]) = w

SessionInv ==
    /\ \A w \in Writers :
          pc[w] \in {"fold", "possess", "supcheck", "supremove"} =>
              w \in FoldWriters
    /\ \A w \in FoldWriters :
          pc[w] \notin {"idle", "fold", "dead"} => mutex = w
    /\ mutex # None => pending = None
    /\ pending # None =>
          \E w \in FoldWriters : pc[w] = "fold" /\ pending = Token(w)
    /\ \A w \in Writers :
          pc[w] \in {"supcheck", "supremove"} =>
              seen[w] \in FoldWriters \X Nat

LockInv ==
    robbed = {} =>
        /\ \A w \in Writers : Owning(w) =>
              /\ lock # None
              /\ lock.dir = Token(w)
              /\ pc[w] \notin {"stamp", "unmake"} => lock.stamp = Token(w)
        /\ \A w \in Writers : pc[w] \in {"supcheck", "supremove"} =>
              /\ lock # None
              /\ lock.dir = seen[w]

DocInv ==
    robbed = {} =>
        /\ acked \subseteq doc
        /\ \A w \in Writers :
              Inside(w) /\ pc[w] # "read" => base[w] = doc

IInv == TypeOK /\ TurnInv /\ SessionInv /\ LockInv /\ DocInv

-----------------------------------------------------------------------------
(* The initial state satisfies the whole invariant. *)
LEMMA InitInv == Init => IInv
<1> SUFFICES ASSUME Init PROVE IInv
  OBVIOUS
<1>1. TypeOK
  BY ConstantsAssumption DEF Init, TypeOK, Labels, Results
<1>2. TurnInv /\ SessionInv /\ LockInv /\ DocInv
  BY <1>1 DEF Init, TurnInv, SessionInv, LockInv, DocInv, Owning, Inside,
     Writers, Desktop
<1> QED
  BY <1>1, <1>2 DEF IInv

(* The types Leave touches. *)
LocalsOK ==
    /\ oldStart \in SUBSET Writers
    /\ spins \in [Writers -> Nat]
    /\ seen \in [Writers -> Tokens \union {None}]
    /\ base \in [Writers -> SUBSET Tokens]

(* Joining the queue of a process keeps the queues well formed. *)
LEMMA EnqueueType ==
    ASSUME TypeOK, NEW w \in NodeWriters
    PROVE  [queue EXCEPT ![ProcessOf[w]] = Append(@, w)]
               \in [Processes -> Seq(NodeWriters)]
<1>1. ProcessOf[w] \in Processes
  BY ConstantsAssumption DEF Writers
<1>2. Append(queue[ProcessOf[w]], w) \in Seq(NodeWriters)
  BY <1>1, AppendProperties DEF TypeOK
<1> QED
  BY <1>1, <1>2 DEF TypeOK

(* So does finishing a turn, by a writer that is past the queue. *)
LEMMA TurnType ==
    ASSUME TypeOK, TurnInv, NEW w \in NodeWriters,
           pc[w] \notin {"idle", "queued", "dead"}
    PROVE  [queue EXCEPT ![ProcessOf[w]] = Tail(@)]
               \in [Processes -> Seq(NodeWriters)]
<1>1. ProcessOf[w] \in Processes
  BY ConstantsAssumption DEF Writers
<1>2. Tail(queue[ProcessOf[w]]) \in Seq(NodeWriters)
  BY <1>1, HeadTailProperties DEF TypeOK, TurnInv
<1> QED
  BY <1>1, <1>2 DEF TypeOK

(* Ending a mutation, in whichever of the ways it can end. *)
LEMMA LeaveType ==
    ASSUME TypeOK, TurnInv, NEW w \in Writers,
           pc[w] \notin {"idle", "queued", "dead"},
           NEW outcome \in Results, Leave(w, outcome)
    PROVE  /\ pc' \in [Writers -> Labels]
           /\ result' \in [Writers -> Results]
           /\ queue' \in [Processes -> Seq(NodeWriters)]
           /\ mutex' \in FoldWriters \union {None}
           /\ again' \in SUBSET Writers
           /\ LocalsOK'
<1>1. queue' \in [Processes -> Seq(NodeWriters)]
  BY TurnType DEF Leave, TypeOK
<1> QED
  BY <1>1 DEF Leave, Forget, Goto, TypeOK, Labels, LocalsOK

(* The token of an attempt is a token. *)
LEMMA TokenType == ASSUME TypeOK, NEW w \in Writers PROVE Token(w) \in Tokens
  BY DEF TypeOK, Token, Tokens


(* Entering the acquisition loop. *)
LEMMA EnterType ==
    ASSUME TypeOK, NEW w \in Writers, EnterAcquire(w)
    PROVE  pc' \in [Writers -> Labels] /\ tries' \in [Writers -> Nat] /\ LocalsOK'
  BY DEF EnterAcquire, Forget, Goto, TypeOK, Labels, LocalsOK

(* Going round it again. *)
LEMMA RetryType ==
    ASSUME TypeOK, NEW w \in Writers, Retry(w)
    PROVE  pc' \in [Writers -> Labels] /\ spins' \in [Writers -> Nat]
  BY DEF Retry, Goto, TypeOK, Labels

(* A refused commit, retried or not. *)
LEMMA RefusedType ==
    ASSUME TypeOK, TurnInv, NEW w \in Writers, pc[w] \in {"fold", "possess"},
           FoldRefused(w)
    PROVE  /\ pc' \in [Writers -> Labels]
           /\ result' \in [Writers -> Results]
           /\ queue' \in [Processes -> Seq(NodeWriters)]
           /\ mutex' \in FoldWriters \union {None}
           /\ again' \in SUBSET Writers
           /\ LocalsOK'
<1>1. CASE Leave(w, "stale")
  BY <1>1, LeaveType DEF Results
<1>2. CASE ~Leave(w, "stale")
  <2>1. /\ pc' = [pc EXCEPT ![w] = "idle"]
        /\ again' = again \union {w}
        /\ mutex' = None
        /\ UNCHANGED <<result, queue>>
        /\ Forget(w)
    BY <1>2 DEF FoldRefused, Goto
  <2> QED
    BY <2>1 DEF Forget, TypeOK, Labels, LocalsOK
<1> QED
  BY <1>1, <1>2

(* The invariant's first part: every step of the lock protocol keeps every  *)
(* variable in its type.  A finished turn needs TurnInv: its queue is not   *)
(* empty.                                                                   *)
LEMMA TypeStep == TypeOK /\ TurnInv /\ [Next]_vars => TypeOK'
<1> SUFFICES ASSUME TypeOK, TurnInv, [Next]_vars PROVE TypeOK'
  OBVIOUS
<1> USE DEF TypeOK
<1>1. ASSUME NEW w \in Writers, Enqueue(w) PROVE TypeOK'
  BY <1>1, EnqueueType DEF Enqueue, Goto, Labels
<1>2. ASSUME NEW w \in Writers, StartTurn(w) PROVE TypeOK'
  BY <1>2 DEF StartTurn, EnterAcquire, Forget, Goto, Labels
<1>3. ASSUME NEW w \in Writers, StartPolicy(w) PROVE TypeOK'
  BY <1>3 DEF StartPolicy, EnterAcquire, Forget, Goto, Labels
<1>4. ASSUME NEW w \in Writers, Begin(w) PROVE TypeOK'
  <2>0. jobs' \in [Writers -> Nat] /\ mutex' \in FoldWriters /\ pending' = None
    BY <1>4 DEF Begin
  <2>1. CASE EnterAcquire(w)
    BY <1>4, <2>0, <2>1, EnterType DEF Begin, LocalsOK
  <2>2. CASE ~EnterAcquire(w)
    <3>1. /\ UNCHANGED <<tries, spins, oldStart, base>>
          /\ seen' = [seen EXCEPT ![w] = pending]
          /\ pc' = [pc EXCEPT ![w] = "supcheck"]
      BY <1>4, <2>2 DEF Begin, Goto
    <3> QED
      BY <1>4, <2>0, <3>1 DEF Begin, Labels
  <2> QED
    BY <2>1, <2>2
<1>5. ASSUME NEW w \in Writers, SupersedeCheck(w) PROVE TypeOK'
  <2>1. CASE Stamped(seen[w])
    BY <1>5, <2>1 DEF SupersedeCheck, Goto, Labels, locals
  <2>2. CASE ~Stamped(seen[w])
    BY <1>5, <2>2, EnterType DEF SupersedeCheck, LocalsOK
  <2> QED
    BY <2>1, <2>2
<1>6. ASSUME NEW w \in Writers, SupersedeRemove(w) PROVE TypeOK'
  BY <1>6, EnterType DEF SupersedeRemove, LocalsOK
<1>7. ASSUME NEW w \in Writers, MakeLock(w) PROVE TypeOK'
  BY <1>7, TokenType DEF MakeLock, Goto, Labels, Locks
<1>8. ASSUME NEW w \in Writers, Collide(w) PROVE TypeOK'
  BY <1>8 DEF Collide, Goto, Labels
<1>9. ASSUME NEW w \in Writers, GiveUp(w) PROVE TypeOK'
  BY <1>9, LeaveType DEF GiveUp, LocalsOK, Results
<1>10. ASSUME NEW w \in Writers, PathExists(w) PROVE TypeOK'
  BY <1>10, LeaveType DEF PathExists, LocalsOK, Results, Labels, locals,
          Goto
<1>11. ASSUME NEW w \in Writers, Inspect(w) PROVE TypeOK'
  <2>1. CASE lock # None /\ Stale(w)
    BY <1>11, <2>1, NoneAssumption DEF Inspect, Goto, Labels, Locks
  <2>2. CASE ~(lock # None /\ Stale(w))
    BY <1>11, <2>2, RetryType DEF Inspect
  <2> QED
    BY <2>1, <2>2
<1>12. ASSUME NEW w \in Writers, Displace(w) PROVE TypeOK'
  BY <1>12, NoneAssumption DEF Displace, Retry, Goto, Labels, Locks
<1>13. ASSUME NEW w \in Writers, WriteStamp(w) PROVE TypeOK'
  BY <1>13, NoneAssumption, TokenType DEF WriteStamp, StampAge, Forget,
          Goto, Labels, Locks
<1>14. ASSUME NEW w \in Writers, StampFails(w) PROVE TypeOK'
  <2>1. faults' \in Nat
    BY <1>14 DEF StampFails
  <2>2. CASE Leave(w, "thrown")
    BY <1>14, <2>1, <2>2, LeaveType DEF StampFails, LocalsOK, Results
  <2>3. CASE ~Leave(w, "thrown")
    <3>1. /\ UNCHANGED <<result, queue, mutex, again, locals>>
          /\ pc' = [pc EXCEPT ![w] = "unmake"]
      BY <1>14, <2>3 DEF StampFails, Goto
    <3>2. UNCHANGED <<tries, jobs, pending, lock, doc, acked, live, robbed>>
      BY <1>14 DEF StampFails
    <3> QED
      BY <2>1, <3>1, <3>2 DEF Labels, locals
  <2> QED
    BY <2>2, <2>3
<1>15. ASSUME NEW w \in Writers, Unmake(w) PROVE TypeOK'
  BY <1>15, LeaveType DEF Unmake, LocalsOK, Results
<1>16. ASSUME NEW w \in Writers, ReadDoc(w) PROVE TypeOK'
  BY <1>16, TokenType DEF ReadDoc, Goto, Labels
<1>17. ASSUME NEW w \in Writers, Abandon(w) PROVE TypeOK'
  BY <1>17 DEF Abandon, Goto, Labels, Results
<1>18. ASSUME NEW w \in Writers, Commit(w) PROVE TypeOK'
  BY <1>18 DEF Commit, Goto, Labels
<1>19. ASSUME NEW w \in Writers, CommitSuperseded(w) PROVE TypeOK'
  BY <1>19, RefusedType DEF CommitSuperseded, LocalsOK
<1>20. ASSUME NEW w \in Writers, AbortFold(w) PROVE TypeOK'
  <2>1. CASE pending = Token(w)
    BY <1>20, <2>1 DEF AbortFold, Goto, Labels, Results, locals
  <2>2. CASE pending # Token(w)
    BY <1>20, <2>2, LeaveType DEF AbortFold, LocalsOK, Results
  <2> QED
    BY <2>1, <2>2
<1>21. ASSUME NEW w \in Writers, CheckPossession(w) PROVE TypeOK'
  <2>1. CASE Stamped(Token(w))
    BY <1>21, <2>1 DEF CheckPossession, Goto, Labels, locals
  <2>2. CASE ~Stamped(Token(w))
    BY <1>21, <2>2, RefusedType DEF CheckPossession, LocalsOK
  <2> QED
    BY <2>1, <2>2
<1>22. ASSUME NEW w \in Writers, WriteDoc(w) PROVE TypeOK'
  BY <1>22, TokenType DEF WriteDoc, Forget, Goto, Labels, Results
<1>23. ASSUME NEW w \in Writers, ReleaseCheck(w) PROVE TypeOK'
  BY <1>23, LeaveType DEF ReleaseCheck, LocalsOK, Labels, locals, Goto
<1>24. ASSUME NEW w \in Writers, ReleaseRemove(w) PROVE TypeOK'
  BY <1>24, LeaveType DEF ReleaseRemove, LocalsOK
<1>25. ASSUME Elapse PROVE TypeOK'
  BY <1>25 DEF Elapse, Locks
<1>26. ASSUME NEW p \in Processes, Crash(p) PROVE TypeOK'
  BY <1>26 DEF Crash, Labels
<1>27. ASSUME UNCHANGED vars PROVE TypeOK'
  BY <1>27 DEF vars
<1> QED
  BY <1>1, <1>2, <1>3, <1>4, <1>5, <1>6, <1>7, <1>8, <1>9, <1>10, <1>11,
          <1>12, <1>13, <1>14, <1>15, <1>16, <1>17, <1>18, <1>19, <1>20,
          <1>21, <1>22, <1>23, <1>24, <1>25, <1>26, <1>27 DEF Next, Step

(* A step inside a turn, or of a desktop writer, disturbs no turn. *)
LEMMA TurnKeep ==
    ASSUME TypeOK, TurnInv, NEW w \in Writers, NEW l,
           pc' = [pc EXCEPT ![w] = l], queue' = queue,
           pc[w] \notin {"idle", "queued", "dead"} \/ w \notin NodeWriters
    PROVE  TurnInv'
  BY DEF TypeOK, TurnInv, Writers

(* Finishing a turn leaves nobody in a turn of that process. *)
LEMMA TurnLeave ==
    ASSUME TypeOK, TurnInv, NEW w \in Writers, NEW outcome, Leave(w, outcome),
           pc[w] \notin {"idle", "queued", "dead"}
    PROVE  TurnInv'
<1> SUFFICES ASSUME NEW v \in NodeWriters,
                    pc'[v] \notin {"idle", "queued", "dead"}
             PROVE  /\ queue'[ProcessOf[v]] # <<>>
                    /\ Head(queue'[ProcessOf[v]]) = v
  BY DEF TurnInv
<1>1. v # w /\ pc'[v] = pc[v] /\ v \in Writers
  BY DEF Leave, Goto, TypeOK, Writers
<1>2. queue[ProcessOf[v]] # <<>> /\ Head(queue[ProcessOf[v]]) = v
  BY <1>1 DEF TurnInv
<1>3. queue'[ProcessOf[v]] = queue[ProcessOf[v]]
  <2>1. CASE w \in NodeWriters
    <3>1. ProcessOf[v] # ProcessOf[w]
      BY <1>1, <1>2, <2>1 DEF TurnInv
    <3> QED
      BY <2>1, <3>1 DEF Leave, TypeOK
  <2>2. CASE w \notin NodeWriters
    BY <2>2 DEF Leave
  <2> QED
    BY <2>1, <2>2
<1> QED
  BY <1>2, <1>3

(* Every step keeps the in-process turns: whoever is past the queue is its  *)
(* head.                                                                    *)
LEMMA TurnStep == TypeOK /\ TurnInv /\ [Next]_vars => TurnInv'
<1> SUFFICES ASSUME TypeOK, TurnInv, [Next]_vars PROVE TurnInv'
  OBVIOUS
<1>1. ASSUME NEW w \in Writers, Enqueue(w) PROVE TurnInv'
  <2> SUFFICES ASSUME NEW v \in NodeWriters,
                      pc'[v] \notin {"idle", "queued", "dead"}
               PROVE  /\ queue'[ProcessOf[v]] # <<>>
                      /\ Head(queue'[ProcessOf[v]]) = v
    BY DEF TurnInv
  <2>1. v \in Writers /\ ProcessOf[v] \in Processes /\ ProcessOf[w] \in Processes
    BY ConstantsAssumption DEF Writers
  <2>2. v # w /\ pc'[v] = pc[v]
    BY <1>1, <2>1 DEF Enqueue, Goto, TypeOK
  <2>3. queue[ProcessOf[v]] # <<>> /\ Head(queue[ProcessOf[v]]) = v
    BY <2>2 DEF TurnInv
  <2>4. CASE ProcessOf[v] = ProcessOf[w]
    <3>1. /\ queue[ProcessOf[w]] \in Seq(NodeWriters)
          /\ w \in NodeWriters
          /\ queue'[ProcessOf[w]] = Append(queue[ProcessOf[w]], w)
      BY <1>1, <2>1 DEF Enqueue, TypeOK
    <3> QED
      BY <2>3, <2>4, <3>1, AppendProperties
  <2>5. CASE ProcessOf[v] # ProcessOf[w]
    BY <1>1, <2>1, <2>3, <2>5 DEF Enqueue, TypeOK
  <2> QED
    BY <2>4, <2>5
<1>2. ASSUME NEW w \in Writers, StartTurn(w) PROVE TurnInv'
  BY <1>2 DEF StartTurn, EnterAcquire, Goto, TypeOK, TurnInv, Writers
<1>3. ASSUME NEW w \in Writers, StartPolicy(w) PROVE TurnInv'
  BY <1>3, TurnKeep, ConstantsAssumption DEF StartPolicy, EnterAcquire,
          Goto, Desktop
<1>4. ASSUME NEW w \in Writers, Begin(w) PROVE TurnInv'
  BY <1>4, TurnKeep, ConstantsAssumption DEF Begin, EnterAcquire, Goto,
          Desktop
<1>5. ASSUME NEW w \in Writers, SupersedeCheck(w) PROVE TurnInv'
  BY <1>5, TurnKeep DEF SupersedeCheck, EnterAcquire, Goto
<1>6. ASSUME NEW w \in Writers, SupersedeRemove(w) PROVE TurnInv'
  BY <1>6, TurnKeep DEF SupersedeRemove, EnterAcquire, Goto
<1>7. ASSUME NEW w \in Writers, MakeLock(w) PROVE TurnInv'
  BY <1>7, TurnKeep DEF MakeLock, Goto
<1>8. ASSUME NEW w \in Writers, Collide(w) PROVE TurnInv'
  BY <1>8, TurnKeep DEF Collide, Goto
<1>9. ASSUME NEW w \in Writers, GiveUp(w) PROVE TurnInv'
  BY <1>9, TurnKeep, TurnLeave DEF GiveUp
<1>10. ASSUME NEW w \in Writers, PathExists(w) PROVE TurnInv'
  BY <1>10, TurnKeep, TurnLeave DEF PathExists, Goto
<1>11. ASSUME NEW w \in Writers, Inspect(w) PROVE TurnInv'
  BY <1>11, TurnKeep DEF Inspect, Retry, Goto
<1>12. ASSUME NEW w \in Writers, Displace(w) PROVE TurnInv'
  BY <1>12, TurnKeep DEF Displace, Retry, Goto
<1>13. ASSUME NEW w \in Writers, WriteStamp(w) PROVE TurnInv'
  BY <1>13, TurnKeep DEF WriteStamp, Goto
<1>14. ASSUME NEW w \in Writers, StampFails(w) PROVE TurnInv'
  BY <1>14, TurnKeep, TurnLeave DEF StampFails, Goto
<1>15. ASSUME NEW w \in Writers, Unmake(w) PROVE TurnInv'
  BY <1>15, TurnKeep, TurnLeave DEF Unmake
<1>16. ASSUME NEW w \in Writers, ReadDoc(w) PROVE TurnInv'
  BY <1>16, TurnKeep DEF ReadDoc, Goto
<1>17. ASSUME NEW w \in Writers, Abandon(w) PROVE TurnInv'
  BY <1>17, TurnKeep DEF Abandon, Goto
<1>18. ASSUME NEW w \in Writers, Commit(w) PROVE TurnInv'
  BY <1>18, TurnKeep DEF Commit, Goto
<1>19. ASSUME NEW w \in Writers, CommitSuperseded(w) PROVE TurnInv'
  BY <1>19, TurnKeep, TurnLeave DEF CommitSuperseded, FoldRefused, Goto
<1>20. ASSUME NEW w \in Writers, AbortFold(w) PROVE TurnInv'
  BY <1>20, TurnKeep, TurnLeave DEF AbortFold, Goto
<1>21. ASSUME NEW w \in Writers, CheckPossession(w) PROVE TurnInv'
  BY <1>21, TurnKeep, TurnLeave DEF CheckPossession, FoldRefused, Goto
<1>22. ASSUME NEW w \in Writers, WriteDoc(w) PROVE TurnInv'
  BY <1>22, TurnKeep DEF WriteDoc, Goto
<1>23. ASSUME NEW w \in Writers, ReleaseCheck(w) PROVE TurnInv'
  BY <1>23, TurnKeep, TurnLeave DEF ReleaseCheck, Goto
<1>24. ASSUME NEW w \in Writers, ReleaseRemove(w) PROVE TurnInv'
  BY <1>24, TurnKeep, TurnLeave DEF ReleaseRemove
<1>25. ASSUME Elapse PROVE TurnInv'
  BY <1>25 DEF Elapse, TurnInv
<1>26. ASSUME NEW p \in Processes, Crash(p) PROVE TurnInv'
  BY <1>26, ConstantsAssumption DEF Crash, TurnInv, TypeOK, Writers
<1>27. ASSUME UNCHANGED vars PROVE TurnInv'
  BY <1>27 DEF vars, TurnInv
<1> QED
  BY <1>1, <1>2, <1>3, <1>4, <1>5, <1>6, <1>7, <1>8, <1>9, <1>10, <1>11,
          <1>12, <1>13, <1>14, <1>15, <1>16, <1>17, <1>18, <1>19, <1>20,
          <1>21, <1>22, <1>23, <1>24, <1>25, <1>26, <1>27 DEF Next, Step

(* Labels that belong to folds alone. *)
FoldLabels == {"fold", "possess", "supcheck", "supremove"}

(* A step that touches neither the Mutex nor the session, by a writer that  *)
(* is not folding, disturbs no session.                                     *)
LEMMA SessionKeep ==
    ASSUME TypeOK, SessionInv, NEW w \in Writers, NEW l, l \notin FoldLabels,
           pc' = [pc EXCEPT ![w] = l], mutex' = mutex, pending' = pending,
           \A v \in Writers : v # w => tries'[v] = tries[v] /\ seen'[v] = seen[v],
           pc[w] \notin {"idle", "fold", "dead"}
               \/ (w \notin FoldWriters /\ pc[w] # "fold")
    PROVE  SessionInv'
  BY DEF TypeOK, SessionInv, Token, FoldLabels, Writers, Desktop

(* A mutation that ends gives up the Mutex it held and no other's session.  *)
LEMMA SessionEnd ==
    ASSUME TypeOK, SessionInv, NEW w \in Writers,
           pc' = [pc EXCEPT ![w] = "idle"],
           mutex' = IF w \in FoldWriters THEN None ELSE mutex,
           pending' = pending, tries' = tries,
           \A v \in Writers : v # w => seen'[v] = seen[v],
           \/ pc[w] \notin {"idle", "fold", "dead"}
           \/ pc[w] = "fold" /\ mutex = None /\ pending # Token(w)
    PROVE  SessionInv'
  BY NoneAssumption DEF TypeOK, SessionInv, Token, Writers, Desktop

(* Its two uses. *)
LEMMA SessionLeave ==
    ASSUME TypeOK, SessionInv, NEW w \in Writers, NEW outcome,
           Leave(w, outcome), pending' = pending, tries' = tries,
           \/ pc[w] \notin {"idle", "fold", "dead"}
           \/ pc[w] = "fold" /\ mutex = None /\ pending # Token(w)
    PROVE  SessionInv'
<1>1. \A v \in Writers : v # w => seen'[v] = seen[v]
  BY DEF Leave, Forget, TypeOK
<1> QED
  BY <1>1, SessionEnd DEF Leave, Goto

LEMMA SessionRefused ==
    ASSUME TypeOK, SessionInv, NEW w \in FoldWriters, FoldRefused(w),
           pending' = pending, tries' = tries,
           \/ pc[w] \notin {"idle", "fold", "dead"}
           \/ pc[w] = "fold" /\ mutex = None /\ pending # Token(w)
    PROVE  SessionInv'
<1>1. CASE Leave(w, "stale")
  BY <1>1, SessionLeave DEF Writers, Desktop
<1>2. CASE ~Leave(w, "stale")
  <2>1. pc' = [pc EXCEPT ![w] = "idle"] /\ mutex' = None /\ Forget(w)
    BY <1>2 DEF FoldRefused, Goto
  <2>2. \A v \in Writers : v # w => seen'[v] = seen[v]
    BY <2>1 DEF Forget, TypeOK
  <2> QED
    BY <2>1, <2>2, SessionEnd DEF Writers, Desktop
<1> QED
  BY <1>1, <1>2

(* Every step keeps the shared CacheWriter's Mutex and session discipline.  *)
LEMMA SessionStep == TypeOK /\ SessionInv /\ [Next]_vars => SessionInv'
<1> SUFFICES ASSUME TypeOK, SessionInv, [Next]_vars PROVE SessionInv'
  OBVIOUS
<1>1. ASSUME NEW w \in Writers, Enqueue(w) PROVE SessionInv'
  BY <1>1, SessionKeep, ConstantsAssumption DEF Enqueue, FoldLabels, TypeOK,
          Goto, Desktop
<1>2. ASSUME NEW w \in Writers, StartTurn(w) PROVE SessionInv'
  BY <1>2, SessionKeep, ConstantsAssumption DEF StartTurn, FoldLabels,
          TypeOK, EnterAcquire, Forget, Goto, Desktop
<1>3. ASSUME NEW w \in Writers, StartPolicy(w) PROVE SessionInv'
  BY <1>3, SessionKeep, ConstantsAssumption DEF StartPolicy, FoldLabels,
          TypeOK, EnterAcquire, Forget, Goto, Desktop
<1>4. ASSUME NEW w \in Writers, Begin(w) PROVE SessionInv'
  <2>1. /\ w \in FoldWriters /\ pc[w] = "idle" /\ mutex = None
        /\ mutex' = w /\ pending' = None
    BY <1>4 DEF Begin
  <2>2. \A v \in FoldWriters : v # w => pc[v] \in {"idle", "fold", "dead"}
    BY <2>1, NoneAssumption DEF SessionInv
  <2>3. CASE EnterAcquire(w)
    BY <2>1, <2>2, <2>3, NoneAssumption
       DEF SessionInv, EnterAcquire, Forget, Goto, TypeOK, Writers, Desktop
  <2>4. CASE ~EnterAcquire(w)
    <3>1. /\ pending # None
          /\ pc' = [pc EXCEPT ![w] = "supcheck"]
          /\ seen' = [seen EXCEPT ![w] = pending]
      BY <1>4, <2>4 DEF Begin, Goto
    <3>2. pending \in FoldWriters \X Nat
      BY <3>1 DEF SessionInv, Token, TypeOK, Writers, Desktop
    <3> QED
      BY <2>1, <2>2, <3>1, <3>2, NoneAssumption
         DEF SessionInv, TypeOK, Writers, Desktop
  <2> QED
    BY <2>3, <2>4
<1>5. ASSUME NEW w \in Writers, SupersedeCheck(w) PROVE SessionInv'
  <2>1. CASE EnterAcquire(w)
    BY <1>5, <2>1, SessionKeep
       DEF SupersedeCheck, EnterAcquire, Forget, Goto, FoldLabels, TypeOK
  <2>2. CASE ~EnterAcquire(w)
    <3>1. /\ pc[w] = "supcheck" /\ pc' = [pc EXCEPT ![w] = "supremove"]
          /\ UNCHANGED <<tries, seen, mutex, pending>>
      BY <1>5, <2>2 DEF SupersedeCheck, Goto, locals
    <3> QED
      BY <3>1 DEF SessionInv, Token, TypeOK, Writers, Desktop
  <2> QED
    BY <2>1, <2>2
<1>6. ASSUME NEW w \in Writers, SupersedeRemove(w) PROVE SessionInv'
  BY <1>6, SessionKeep DEF SupersedeRemove, FoldLabels, TypeOK,
          EnterAcquire, Forget, Goto
<1>7. ASSUME NEW w \in Writers, MakeLock(w) PROVE SessionInv'
  BY <1>7, SessionKeep DEF MakeLock, FoldLabels, TypeOK, Goto
<1>8. ASSUME NEW w \in Writers, Collide(w) PROVE SessionInv'
  BY <1>8, SessionKeep DEF Collide, FoldLabels, TypeOK, Goto
<1>9. ASSUME NEW w \in Writers, GiveUp(w) PROVE SessionInv'
  BY <1>9, SessionLeave DEF GiveUp
<1>10. ASSUME NEW w \in Writers, PathExists(w) PROVE SessionInv'
  BY <1>10, SessionKeep, SessionLeave DEF PathExists, FoldLabels, Goto,
          locals
<1>11. ASSUME NEW w \in Writers, Inspect(w) PROVE SessionInv'
  BY <1>11, SessionKeep DEF Inspect, FoldLabels, TypeOK, Retry, Goto
<1>12. ASSUME NEW w \in Writers, Displace(w) PROVE SessionInv'
  BY <1>12, SessionKeep DEF Displace, FoldLabels, TypeOK, Retry, Goto
<1>13. ASSUME NEW w \in Writers, WriteStamp(w) PROVE SessionInv'
  BY <1>13, SessionKeep DEF WriteStamp, FoldLabels, TypeOK, Forget, Goto
<1>14. ASSUME NEW w \in Writers, StampFails(w) PROVE SessionInv'
  BY <1>14, SessionKeep, SessionLeave DEF StampFails, FoldLabels, Goto,
          locals
<1>15. ASSUME NEW w \in Writers, Unmake(w) PROVE SessionInv'
  BY <1>15, SessionLeave DEF Unmake
<1>16. ASSUME NEW w \in Writers, ReadDoc(w) PROVE SessionInv'
  <2>1. CASE w \in FoldWriters
    <3>1. /\ pc[w] = "read" /\ pc' = [pc EXCEPT ![w] = "fold"]
          /\ pending' = Token(w) /\ mutex' = None
          /\ UNCHANGED <<tries, seen>>
      BY <1>16, <2>1 DEF ReadDoc, Goto
    <3>2. mutex = w
      BY <2>1, <3>1 DEF SessionInv
    <3> QED
      BY <2>1, <3>1, <3>2, NoneAssumption
         DEF SessionInv, Token, TypeOK, Writers, Desktop
  <2>2. CASE w \notin FoldWriters
    BY <1>16, <2>2, SessionKeep DEF ReadDoc, Goto, FoldLabels, TypeOK
  <2> QED
    BY <2>1, <2>2
<1>17. ASSUME NEW w \in Writers, Abandon(w) PROVE SessionInv'
  BY <1>17, SessionKeep DEF Abandon, FoldLabels, TypeOK, Goto
<1>18. ASSUME NEW w \in Writers, Commit(w) PROVE SessionInv'
  BY <1>18, NoneAssumption DEF Commit, Goto, SessionInv, Token, TypeOK,
          Writers, Desktop
<1>19. ASSUME NEW w \in Writers, CommitSuperseded(w) PROVE SessionInv'
  BY <1>19, SessionRefused DEF CommitSuperseded
<1>20. ASSUME NEW w \in Writers, AbortFold(w) PROVE SessionInv'
  <2>1. CASE pending # Token(w)
    BY <1>20, <2>1, SessionLeave DEF AbortFold
  <2>2. CASE pending = Token(w)
    <3>1. /\ w \in FoldWriters /\ pc[w] = "fold" /\ mutex = None
          /\ mutex' = w /\ pending' = None
          /\ pc' = [pc EXCEPT ![w] = "relcheck"]
          /\ UNCHANGED <<tries, seen>>
      BY <1>20, <2>2 DEF AbortFold, Goto, locals
    <3> QED
      BY <3>1, NoneAssumption DEF SessionInv, Token, TypeOK, Writers, Desktop
  <2> QED
    BY <2>1, <2>2
<1>21. ASSUME NEW w \in Writers, CheckPossession(w) PROVE SessionInv'
  <2>1. CASE FoldRefused(w)
    BY <1>21, <2>1, SessionRefused DEF CheckPossession
  <2>2. CASE ~FoldRefused(w)
    BY <1>21, <2>2, SessionKeep DEF CheckPossession, Goto, FoldLabels, locals
  <2> QED
    BY <2>1, <2>2
<1>22. ASSUME NEW w \in Writers, WriteDoc(w) PROVE SessionInv'
  BY <1>22, SessionKeep DEF WriteDoc, FoldLabels, TypeOK, Forget, Goto
<1>23. ASSUME NEW w \in Writers, ReleaseCheck(w) PROVE SessionInv'
  BY <1>23, SessionKeep, SessionLeave DEF ReleaseCheck, FoldLabels, Goto,
          locals
<1>24. ASSUME NEW w \in Writers, ReleaseRemove(w) PROVE SessionInv'
  BY <1>24, SessionLeave DEF ReleaseRemove
<1>25. ASSUME Elapse PROVE SessionInv'
  BY <1>25 DEF Elapse, SessionInv, Token
<1>26. ASSUME NEW p \in Processes, Crash(p) PROVE SessionInv'
  <2>1. CASE \E w \in FoldWriters : ProcessOf[w] = p
    <3>1. \A w \in FoldWriters : ProcessOf[w] = p
      BY <2>1, ConstantsAssumption
    <3>2. mutex' = None /\ pending' = None /\ UNCHANGED <<tries, seen>>
      BY <1>26, <2>1 DEF Crash
    <3>3. \A w \in Writers : pc'[w] = IF ProcessOf[w] = p THEN "dead" ELSE pc[w]
      BY <1>26 DEF Crash
    <3> QED
      BY <3>1, <3>2, <3>3 DEF SessionInv, Writers, Desktop
  <2>2. CASE ~\E w \in FoldWriters : ProcessOf[w] = p
    <3>2. UNCHANGED <<tries, seen, mutex, pending>>
      BY <1>26, <2>2 DEF Crash
    <3>3. \A w \in Writers : pc'[w] = IF ProcessOf[w] = p THEN "dead" ELSE pc[w]
      BY <1>26 DEF Crash
    <3> QED
      BY <2>2, <3>2, <3>3 DEF SessionInv, Token, Writers, Desktop
  <2> QED
    BY <2>1, <2>2
<1>27. ASSUME UNCHANGED vars PROVE SessionInv'
  BY <1>27 DEF vars, SessionInv, Token
<1> QED
  BY <1>1, <1>2, <1>3, <1>4, <1>5, <1>6, <1>7, <1>8, <1>9, <1>10, <1>11,
          <1>12, <1>13, <1>14, <1>15, <1>16, <1>17, <1>18, <1>19, <1>20,
          <1>21, <1>22, <1>23, <1>24, <1>25, <1>26, <1>27 DEF Next, Step

(* Until a lock in use is reclaimed: two owners are one, nobody owns the    *)
(* directory a superseding begin is about to remove, and an absent lock has *)
(* no owner.                                                                *)
LEMMA OneOwner ==
    ASSUME TypeOK, SessionInv, LockInv, robbed = {}
    PROVE  /\ \A v, w \in Writers : Owning(v) /\ Owning(w) => v = w
           /\ \A v, w \in Writers :
                 ~(Owning(v) /\ pc[w] \in {"supcheck", "supremove"})
<1>1. \A v, w \in Writers : Owning(v) /\ Owning(w) => v = w
  BY DEF LockInv, Token
<1>2. ASSUME NEW v \in Writers, NEW w \in Writers, Owning(v),
             pc[w] \in {"supcheck", "supremove"}
      PROVE  FALSE
  <2>1. w \in FoldWriters /\ mutex = w /\ pending = None
    BY <1>2, NoneAssumption DEF SessionInv
  <2>2. Token(v) = seen[w] /\ seen[w] \in FoldWriters \X Nat
    BY <1>2 DEF LockInv, SessionInv
  <2>3. v \in FoldWriters
    BY <2>2 DEF Token
  <2>4. pc[v] \notin {"idle", "fold", "dead"}
    BY <1>2, <2>1, NoneAssumption, TokenType DEF Owning, Tokens
  <2>5. v = w
    BY <2>1, <2>3, <2>4 DEF SessionInv
  <2> QED
    BY <1>2, <2>5 DEF Owning
<1> QED
  BY <1>1, <1>2

(* One writer's step makes no other writer an owner. *)
LEMMA OthersKeep ==
    ASSUME TypeOK, NEW w \in Writers, NEW l, pc' = [pc EXCEPT ![w] = l],
           pending' \in {pending, None, Token(w)},
           \A v \in Writers : v # w => tries'[v] = tries[v]
    PROVE  /\ pc'[w] = l
           /\ \A v \in Writers : v # w =>
                 pc'[v] = pc[v] /\ Token(v)' = Token(v) /\ (Owning(v)' => Owning(v))
<1>1. pc'[w] = l
  BY DEF TypeOK
<1>2. ASSUME NEW v \in Writers, v # w
      PROVE  pc'[v] = pc[v] /\ Token(v)' = Token(v) /\ (Owning(v)' => Owning(v))
  <2>1. pc'[v] = pc[v] /\ Token(v)' = Token(v)
    BY <1>2 DEF TypeOK, Token
  <2>2. Token(v) # None /\ Token(v) # Token(w)
    BY <1>2, TokenType, NoneAssumption DEF Token
  <2> QED
    BY <2>1, <2>2 DEF Owning
<1> QED
  BY <1>1, <1>2

(* A step that leaves the directory at the lock path alone and makes its    *)
(* writer own nothing new.                                                  *)
LEMMA LockKeep ==
    ASSUME TypeOK, LockInv, NEW w \in Writers, NEW l,
           pc' = [pc EXCEPT ![w] = l], lock' = lock, robbed' = robbed,
           pending' \in {pending, None, Token(w)},
           \A v \in Writers : v # w => tries'[v] = tries[v] /\ seen'[v] = seen[v],
           \/ l \in {"idle", "queued", "acquire", "exists", "inspect",
                     "displace", "dead"}
           \/ /\ Owning(w) /\ tries'[w] = tries[w]
              /\ pc[w] \notin {"stamp", "unmake"} \/ l = "unmake"
              /\ l \notin {"supcheck", "supremove"}
    PROVE  LockInv'
<1> SUFFICES ASSUME robbed = {} PROVE LockInv'
  BY DEF LockInv
<1>1. /\ pc'[w] = l
      /\ \A v \in Writers : v # w =>
            pc'[v] = pc[v] /\ Token(v)' = Token(v) /\ (Owning(v)' => Owning(v))
  BY OthersKeep
<1>2. CASE l \in {"idle", "queued", "acquire", "exists", "inspect",
                  "displace", "dead"}
  <2>1. ~Owning(w)'
    BY <1>1, <1>2 DEF Owning
  <2> QED
    BY <1>1, <1>2, <2>1 DEF LockInv
<1>3. CASE /\ Owning(w) /\ tries'[w] = tries[w]
           /\ pc[w] \notin {"stamp", "unmake"} \/ l = "unmake"
           /\ l \notin {"supcheck", "supremove"}
  <2>1. Token(w)' = Token(w)
    BY <1>3 DEF Token
  <2> QED
    BY <1>1, <1>3, <2>1 DEF LockInv
<1> QED
  BY <1>2, <1>3

(* Removing the directory is safe for the one who owns it or supersedes its *)
(* owner: nobody else relies on it.                                         *)
LEMMA LockRemoved ==
    ASSUME TypeOK, SessionInv, LockInv, NEW w \in Writers, NEW l,
           l \in {"idle", "acquire"}, robbed' = robbed,
           pc' = [pc EXCEPT ![w] = l], pending' = pending,
           \A v \in Writers : v # w => tries'[v] = tries[v] /\ seen'[v] = seen[v],
           Owning(w) \/ pc[w] \in {"supcheck", "supremove"}
    PROVE  LockInv'
<1> SUFFICES ASSUME robbed = {} PROVE LockInv'
  BY DEF LockInv
<1>1. /\ pc'[w] = l
      /\ \A v \in Writers : v # w =>
            pc'[v] = pc[v] /\ Token(v)' = Token(v) /\ (Owning(v)' => Owning(v))
  BY OthersKeep
<1>2. ~Owning(w)'
  BY <1>1 DEF Owning
<1>3. \A v \in Writers : v # w =>
         ~Owning(v) /\ pc[v] \notin {"supcheck", "supremove"}
  BY OneOwner DEF SessionInv
<1> QED
  BY <1>1, <1>2, <1>3 DEF LockInv

(* Every step keeps the lock directory in the hands of its one owner, until *)
(* a lock in use is reclaimed.                                              *)
LEMMA LockStep == TypeOK /\ SessionInv /\ LockInv /\ [Next]_vars => LockInv'
<1> SUFFICES ASSUME TypeOK, SessionInv, LockInv, [Next]_vars PROVE LockInv'
  OBVIOUS
<1>1. ASSUME NEW w \in Writers, Enqueue(w) PROVE LockInv'
  BY <1>1, LockKeep DEF Enqueue, Goto
<1>2. ASSUME NEW w \in Writers, StartTurn(w) PROVE LockInv'
  BY <1>2, LockKeep DEF StartTurn, Goto, EnterAcquire, Forget, TypeOK
<1>3. ASSUME NEW w \in Writers, StartPolicy(w) PROVE LockInv'
  BY <1>3, LockKeep DEF StartPolicy, Goto, EnterAcquire, Forget, TypeOK
<1>4. ASSUME NEW w \in Writers, Begin(w) PROVE LockInv'
  <2>1. w \in FoldWriters /\ pc[w] = "idle" /\ mutex = None /\ pending' = None
        /\ lock' = lock /\ robbed' = robbed
    BY <1>4 DEF Begin
  <2>2. CASE EnterAcquire(w)
    BY <2>1, <2>2, LockKeep DEF EnterAcquire, Forget, Goto, TypeOK
  <2>3. CASE ~EnterAcquire(w)
    <3> SUFFICES ASSUME robbed = {} PROVE LockInv'
      BY <2>1 DEF LockInv
    <3>1. /\ pending # None
          /\ pc' = [pc EXCEPT ![w] = "supcheck"]
          /\ seen' = [seen EXCEPT ![w] = pending]
          /\ tries' = tries
      BY <1>4, <2>3 DEF Begin, Goto
    <3>2. /\ pc'[w] = "supcheck"
          /\ \A v \in Writers : v # w =>
                /\ pc'[v] = pc[v] /\ Token(v)' = Token(v)
                /\ Owning(v)' => Owning(v)
      BY <2>1, <3>1, OthersKeep
    <3>3. PICK u \in FoldWriters : pc[u] = "fold" /\ pending = Token(u)
      BY <3>1 DEF SessionInv
    <3>4. lock # None /\ lock.dir = pending
      BY <3>3 DEF LockInv, Owning, Writers, Desktop
    <3>5. ~Owning(w)'
      BY <3>2 DEF Owning
    <3>6. /\ seen'[w] = pending
          /\ \A v \in Writers : v # w => seen'[v] = seen[v]
      BY <3>1 DEF TypeOK
    <3> QED
      BY <2>1, <3>2, <3>4, <3>5, <3>6 DEF LockInv
  <2> QED
    BY <2>2, <2>3
<1>5. ASSUME NEW w \in Writers, SupersedeCheck(w) PROVE LockInv'
  <2>1. CASE EnterAcquire(w)
    BY <1>5, <2>1, LockKeep
       DEF SupersedeCheck, EnterAcquire, Forget, Goto, TypeOK
  <2>2. CASE ~EnterAcquire(w)
    <3>1. /\ pc[w] = "supcheck" /\ pc' = [pc EXCEPT ![w] = "supremove"]
          /\ UNCHANGED <<tries, seen, mutex, pending, lock, robbed>>
      BY <1>5, <2>2 DEF SupersedeCheck, Goto, locals
    <3> QED
      BY <3>1 DEF LockInv, Owning, Token, TypeOK
  <2> QED
    BY <2>1, <2>2
<1>6. ASSUME NEW w \in Writers, SupersedeRemove(w) PROVE LockInv'
  BY <1>6, LockRemoved DEF SupersedeRemove, EnterAcquire, Forget, Goto,
          TypeOK
<1>7. ASSUME NEW w \in Writers, MakeLock(w) PROVE LockInv'
  <2> SUFFICES ASSUME robbed = {} PROVE LockInv'
    BY <1>7 DEF MakeLock, LockInv
  <2>1. /\ lock = None /\ pc' = [pc EXCEPT ![w] = "stamp"]
        /\ lock' = [dir |-> Token(w), stamp |-> None, age |-> "fresh"]
        /\ UNCHANGED <<tries, seen, pending>>
    BY <1>7 DEF MakeLock, Goto
  <2>2. /\ pc'[w] = "stamp"
        /\ \A v \in Writers : v # w =>
              /\ pc'[v] = pc[v] /\ Token(v)' = Token(v)
              /\ Owning(v)' => Owning(v)
    BY <2>1, OthersKeep
  <2>3. \A v \in Writers : ~Owning(v) /\ pc[v] \notin {"supcheck", "supremove"}
    BY <2>1 DEF LockInv
  <2>4. lock' # None /\ lock'.dir = Token(w)'
    <3>1. lock' \in Locks
      BY <2>1, TokenType DEF Locks
    <3> QED
      BY <2>1, <3>1, NoneAssumption DEF Token
  <2> QED
    BY <2>2, <2>3, <2>4 DEF LockInv
<1>8. ASSUME NEW w \in Writers, Collide(w) PROVE LockInv'
  BY <1>8, LockKeep DEF Collide, Goto
<1>9. ASSUME NEW w \in Writers, GiveUp(w) PROVE LockInv'
  BY <1>9, LockKeep DEF GiveUp, Leave, Forget, Goto, TypeOK
<1>10. ASSUME NEW w \in Writers, PathExists(w) PROVE LockInv'
  BY <1>10, LockKeep DEF PathExists, Leave, Forget, Goto, TypeOK, locals
<1>11. ASSUME NEW w \in Writers, Inspect(w) PROVE LockInv'
  BY <1>11, LockKeep DEF Inspect, Retry, Goto, TypeOK
<1>12. ASSUME NEW w \in Writers, Displace(w) PROVE LockInv'
  <2>1. pc' = [pc EXCEPT ![w] = "acquire"] /\ UNCHANGED <<tries, pending>>
    BY <1>12 DEF Displace, Retry, Goto
  <2>2. CASE lock # None /\ InUse(lock.dir)
    BY <1>12, <2>2 DEF Displace, LockInv
  <2>3. CASE ~(lock # None /\ InUse(lock.dir))
    <3> SUFFICES ASSUME robbed = {} PROVE LockInv'
      BY <1>12, <2>3 DEF Displace, LockInv
    <3>1. \A v \in Writers : ~Owning(v) /\ pc[v] \notin {"supcheck", "supremove"}
      BY <2>3 DEF LockInv, InUse
    <3>2. /\ pc'[w] = "acquire"
          /\ \A v \in Writers : v # w =>
                /\ pc'[v] = pc[v] /\ Token(v)' = Token(v)
                /\ Owning(v)' => Owning(v)
      BY <2>1, OthersKeep
    <3>3. ~Owning(w)'
      BY <3>2 DEF Owning
    <3> QED
      BY <3>1, <3>2, <3>3 DEF LockInv
  <2> QED
    BY <2>2, <2>3
<1>13. ASSUME NEW w \in Writers, WriteStamp(w) PROVE LockInv'
  <2> SUFFICES ASSUME robbed = {} PROVE LockInv'
    BY <1>13 DEF WriteStamp, LockInv
  <2>1. /\ pc[w] = "stamp" /\ lock # None
        /\ pc' = [pc EXCEPT ![w] = "read"]
        /\ lock' = [lock EXCEPT !.stamp = Token(w), !.age = StampAge(w)]
        /\ UNCHANGED <<tries, pending>>
    BY <1>13 DEF WriteStamp, Goto
  <2>2. /\ pc'[w] = "read"
        /\ \A v \in Writers : v # w =>
              /\ pc'[v] = pc[v] /\ Token(v)' = Token(v)
              /\ Owning(v)' => Owning(v)
    BY <2>1, OthersKeep
  <2>3. Owning(w)
    BY <2>1 DEF Owning
  <2>4. \A v \in Writers : v # w =>
           ~Owning(v) /\ pc[v] \notin {"supcheck", "supremove"}
    BY <2>3, OneOwner
  <2>5. lock' # None /\ lock'.dir = Token(w)' /\ lock'.stamp = Token(w)'
    <3>1. lock \in Locks /\ lock.dir = Token(w)
      BY <2>1, <2>3 DEF LockInv, TypeOK
    <3>2. lock' \in Locks /\ lock'.dir = lock.dir /\ lock'.stamp = Token(w)
      BY <2>1, <3>1, TokenType DEF Locks, StampAge
    <3>3. Token(w)' = Token(w)
      BY <2>1 DEF Token
    <3> QED
      BY <3>1, <3>2, <3>3, NoneAssumption
  <2> QED
    BY <2>2, <2>4, <2>5 DEF LockInv
<1>14. ASSUME NEW w \in Writers, StampFails(w) PROVE LockInv'
  <2>1. CASE Leave(w, "thrown")
    BY <1>14, <2>1, LockKeep DEF StampFails, Leave, Forget, Goto, TypeOK
  <2>2. CASE ~Leave(w, "thrown")
    BY <1>14, <2>2, LockKeep DEF StampFails, Goto, Owning, locals
  <2> QED
    BY <2>1, <2>2
<1>15. ASSUME NEW w \in Writers, Unmake(w) PROVE LockInv'
  BY <1>15, LockRemoved DEF Unmake, Leave, Forget, Goto, Owning, TypeOK
<1>16. ASSUME NEW w \in Writers, ReadDoc(w) PROVE LockInv'
  BY <1>16, LockKeep DEF ReadDoc, Goto, Owning
<1>17. ASSUME NEW w \in Writers, Abandon(w) PROVE LockInv'
  BY <1>17, LockKeep DEF Abandon, Goto, Owning
<1>18. ASSUME NEW w \in Writers, Commit(w) PROVE LockInv'
  BY <1>18, LockKeep DEF Commit, Goto, Owning
<1>19. ASSUME NEW w \in Writers, CommitSuperseded(w) PROVE LockInv'
  BY <1>19, LockKeep DEF CommitSuperseded, FoldRefused, Leave, Forget, Goto,
          TypeOK
<1>20. ASSUME NEW w \in Writers, AbortFold(w) PROVE LockInv'
  BY <1>20, LockKeep DEF AbortFold, Leave, Forget, Goto, Owning, TypeOK,
          locals
<1>21. ASSUME NEW w \in Writers, CheckPossession(w) PROVE LockInv'
  <2>1. CASE FoldRefused(w)
    BY <1>21, <2>1, LockKeep
       DEF CheckPossession, FoldRefused, Leave, Forget, Goto, TypeOK
  <2>2. CASE ~FoldRefused(w)
    BY <1>21, <2>2, LockKeep DEF CheckPossession, Goto, Owning, locals
  <2> QED
    BY <2>1, <2>2
<1>22. ASSUME NEW w \in Writers, WriteDoc(w) PROVE LockInv'
  BY <1>22, LockKeep DEF WriteDoc, Forget, Goto, Owning, TypeOK
<1>23. ASSUME NEW w \in Writers, ReleaseCheck(w) PROVE LockInv'
  BY <1>23, LockKeep DEF ReleaseCheck, Leave, Forget, Goto, Owning, TypeOK,
          locals
<1>24. ASSUME NEW w \in Writers, ReleaseRemove(w) PROVE LockInv'
  BY <1>24, LockRemoved DEF ReleaseRemove, Leave, Forget, Goto, Owning,
          TypeOK
<1>25. ASSUME Elapse PROVE LockInv'
  <2>1. \A w \in Writers : Owning(w)' = Owning(w) /\ Token(w)' = Token(w)
    BY <1>25 DEF Elapse, Owning, Token
  <2>2. CASE lock = None
    BY <1>25, <2>1, <2>2 DEF Elapse, LockInv
  <2>3. CASE lock # None
    <3>1. lock \in Locks
      BY <2>3 DEF TypeOK
    <3>2. lock' \in Locks /\ lock'.dir = lock.dir /\ lock'.stamp = lock.stamp
      BY <1>25, <2>3, <3>1 DEF Elapse, Locks
    <3> QED
      BY <1>25, <2>1, <2>3, <3>2, NoneAssumption DEF Elapse, LockInv
  <2> QED
    BY <2>2, <2>3
<1>26. ASSUME NEW p \in Processes, Crash(p) PROVE LockInv'
  <2>1. /\ \A w \in Writers : pc'[w] \in {pc[w], "dead"}
        /\ pending' \in {pending, None}
        /\ UNCHANGED <<tries, seen, lock, robbed>>
    BY <1>26 DEF Crash
  <2>2. \A w \in Writers : Token(w)' = Token(w) /\ Token(w) # None
    BY <2>1, TokenType, NoneAssumption DEF Token
  <2>3. \A w \in Writers : Owning(w)' => Owning(w) /\ pc'[w] = pc[w]
    BY <2>1, <2>2 DEF Owning
  <2> QED
    BY <2>1, <2>2, <2>3 DEF LockInv
<1>27. ASSUME UNCHANGED vars PROVE LockInv'
  BY <1>27 DEF vars, LockInv, Owning, Token
<1> QED
  BY <1>1, <1>2, <1>3, <1>4, <1>5, <1>6, <1>7, <1>8, <1>9, <1>10, <1>11,
          <1>12, <1>13, <1>14, <1>15, <1>16, <1>17, <1>18, <1>19, <1>20,
          <1>21, <1>22, <1>23, <1>24, <1>25, <1>26, <1>27 DEF Next, Step

(* A step that leaves the document alone, by a writer that comes to hold a  *)
(* copy of it only if the copy is current.                                  *)
LEMMA DocKeep ==
    ASSUME TypeOK, DocInv, NEW w \in Writers, NEW l,
           pc' = [pc EXCEPT ![w] = l], doc' = doc, acked' = acked,
           robbed' = {} => robbed = {},
           pending' \in {pending, None, Token(w)},
           \A v \in Writers : v # w => tries'[v] = tries[v] /\ base'[v] = base[v],
           \/ l \notin {"fold", "possess", "write"}
           \/ robbed = {} => base'[w] = doc
    PROVE  DocInv'
<1> SUFFICES ASSUME robbed = {} PROVE DocInv'
  BY DEF DocInv
<1>1. /\ pc'[w] = l
      /\ \A v \in Writers : v # w =>
            pc'[v] = pc[v] /\ Token(v)' = Token(v) /\ (Owning(v)' => Owning(v))
  BY OthersKeep
<1>2. \A v \in Writers : v # w => (Inside(v)' => Inside(v))
  BY <1>1 DEF Inside, Owning
<1>3. (Inside(w)' /\ pc'[w] # "read") => l \in {"fold", "possess", "write"}
  BY <1>1 DEF Inside
<1> QED
  BY <1>1, <1>2, <1>3 DEF DocInv

(* Every step keeps what the writers inside have read current and what was  *)
(* acknowledged in the document, until a lock in use is reclaimed.          *)
LEMMA DocStep ==
    TypeOK /\ SessionInv /\ LockInv /\ DocInv /\ [Next]_vars => DocInv'
<1> SUFFICES ASSUME TypeOK, SessionInv, LockInv, DocInv, [Next]_vars
             PROVE  DocInv'
  OBVIOUS
<1>1. ASSUME NEW w \in Writers, Enqueue(w) PROVE DocInv'
  BY <1>1, DocKeep DEF Enqueue, Goto
<1>2. ASSUME NEW w \in Writers, StartTurn(w) PROVE DocInv'
  BY <1>2, DocKeep DEF StartTurn, EnterAcquire, Forget, Goto, TypeOK
<1>3. ASSUME NEW w \in Writers, StartPolicy(w) PROVE DocInv'
  BY <1>3, DocKeep DEF StartPolicy, EnterAcquire, Forget, Goto, TypeOK
<1>4. ASSUME NEW w \in Writers, Begin(w) PROVE DocInv'
  <2>1. /\ pending' = None
        /\ UNCHANGED <<doc, acked, robbed>>
    BY <1>4 DEF Begin
  <2>2. CASE EnterAcquire(w)
    BY <2>1, <2>2, DocKeep DEF EnterAcquire, Forget, Goto, TypeOK
  <2>3. CASE ~EnterAcquire(w)
    <3>1. pc' = [pc EXCEPT ![w] = "supcheck"] /\ UNCHANGED <<tries, base>>
      BY <1>4, <2>3 DEF Begin, Goto
    <3> QED
      BY <2>1, <3>1, DocKeep
  <2> QED
    BY <2>2, <2>3
<1>5. ASSUME NEW w \in Writers, SupersedeCheck(w) PROVE DocInv'
  <2>1. CASE EnterAcquire(w)
    BY <1>5, <2>1, DocKeep
       DEF SupersedeCheck, EnterAcquire, Forget, Goto, TypeOK
  <2>2. CASE ~EnterAcquire(w)
    BY <1>5, <2>2, DocKeep DEF SupersedeCheck, Goto, locals
  <2> QED
    BY <2>1, <2>2
<1>6. ASSUME NEW w \in Writers, SupersedeRemove(w) PROVE DocInv'
  BY <1>6, DocKeep DEF SupersedeRemove, EnterAcquire, Forget, Goto, TypeOK
<1>7. ASSUME NEW w \in Writers, MakeLock(w) PROVE DocInv'
  BY <1>7, DocKeep DEF MakeLock, Goto
<1>8. ASSUME NEW w \in Writers, Collide(w) PROVE DocInv'
  BY <1>8, DocKeep DEF Collide, Goto
<1>9. ASSUME NEW w \in Writers, GiveUp(w) PROVE DocInv'
  BY <1>9, DocKeep DEF GiveUp, Leave, Forget, Goto, TypeOK
<1>10. ASSUME NEW w \in Writers, PathExists(w) PROVE DocInv'
  BY <1>10, DocKeep DEF PathExists, Leave, Forget, Goto, TypeOK, locals
<1>11. ASSUME NEW w \in Writers, Inspect(w) PROVE DocInv'
  BY <1>11, DocKeep DEF Inspect, Retry, Goto
<1>12. ASSUME NEW w \in Writers, Displace(w) PROVE DocInv'
  BY <1>12, DocKeep DEF Displace, Retry, Goto
<1>13. ASSUME NEW w \in Writers, WriteStamp(w) PROVE DocInv'
  BY <1>13, DocKeep DEF WriteStamp, Forget, Goto, TypeOK
<1>14. ASSUME NEW w \in Writers, StampFails(w) PROVE DocInv'
  <2>1. CASE Leave(w, "thrown")
    BY <1>14, <2>1, DocKeep DEF StampFails, Leave, Forget, Goto, TypeOK
  <2>2. CASE ~Leave(w, "thrown")
    BY <1>14, <2>2, DocKeep DEF StampFails, Goto, locals
  <2> QED
    BY <2>1, <2>2
<1>15. ASSUME NEW w \in Writers, Unmake(w) PROVE DocInv'
  BY <1>15, DocKeep DEF Unmake, Leave, Forget, Goto, TypeOK
<1>16. ASSUME NEW w \in Writers, ReadDoc(w) PROVE DocInv'
  BY <1>16, DocKeep DEF ReadDoc, Goto, TypeOK
<1>17. ASSUME NEW w \in Writers, Abandon(w) PROVE DocInv'
  BY <1>17, DocKeep DEF Abandon, Goto
<1>18. ASSUME NEW w \in Writers, Commit(w) PROVE DocInv'
  BY <1>18, DocKeep DEF Commit, Goto, DocInv, Inside
<1>19. ASSUME NEW w \in Writers, CommitSuperseded(w) PROVE DocInv'
  BY <1>19, DocKeep DEF CommitSuperseded, FoldRefused, Leave, Forget, Goto,
          TypeOK
<1>20. ASSUME NEW w \in Writers, AbortFold(w) PROVE DocInv'
  BY <1>20, DocKeep DEF AbortFold, Leave, Forget, Goto, TypeOK, locals
<1>21. ASSUME NEW w \in Writers, CheckPossession(w) PROVE DocInv'
  <2>1. CASE FoldRefused(w)
    BY <1>21, <2>1, DocKeep
       DEF CheckPossession, FoldRefused, Leave, Forget, Goto, TypeOK
  <2>2. CASE ~FoldRefused(w)
    BY <1>21, <2>2, DocKeep DEF CheckPossession, Goto, DocInv, Inside, locals
  <2> QED
    BY <2>1, <2>2
<1>22. ASSUME NEW w \in Writers, WriteDoc(w) PROVE DocInv'
  <2> SUFFICES ASSUME robbed = {} PROVE DocInv'
    BY <1>22 DEF WriteDoc, DocInv
  <2>1. /\ pc[w] = "write" /\ pc' = [pc EXCEPT ![w] = "relcheck"]
        /\ doc' = base[w] \union {Token(w)} /\ acked' = acked \union {Token(w)}
        /\ UNCHANGED <<tries, pending>>
    BY <1>22 DEF WriteDoc, Goto
  <2>2. base[w] = doc /\ acked \subseteq doc
    BY <2>1 DEF DocInv, Inside
  <2>3. \A v \in Writers : v # w => ~Owning(v)
    BY <2>1, OneOwner DEF Owning
  <2>4. /\ pc'[w] = "relcheck"
        /\ \A v \in Writers : v # w => (Owning(v)' => Owning(v))
    BY <2>1, OthersKeep
  <2>5. \A v \in Writers : ~Inside(v)'
    BY <2>3, <2>4 DEF Inside, Owning
  <2> QED
    BY <2>1, <2>2, <2>5 DEF DocInv
<1>23. ASSUME NEW w \in Writers, ReleaseCheck(w) PROVE DocInv'
  BY <1>23, DocKeep DEF ReleaseCheck, Leave, Forget, Goto, TypeOK, locals
<1>24. ASSUME NEW w \in Writers, ReleaseRemove(w) PROVE DocInv'
  BY <1>24, DocKeep DEF ReleaseRemove, Leave, Forget, Goto, TypeOK
<1>25. ASSUME Elapse PROVE DocInv'
  BY <1>25 DEF Elapse, DocInv, Inside, Token
<1>26. ASSUME NEW p \in Processes, Crash(p) PROVE DocInv'
  <2>1. /\ \A w \in Writers : pc'[w] \in {pc[w], "dead"}
        /\ pending' \in {pending, None}
        /\ UNCHANGED <<tries, base, doc, acked, robbed>>
    BY <1>26 DEF Crash
  <2>2. \A w \in Writers : Token(w)' = Token(w) /\ Token(w) # None
    BY <2>1, TokenType, NoneAssumption DEF Token
  <2>3. \A w \in Writers : Inside(w)' => Inside(w) /\ pc'[w] = pc[w]
    BY <2>1, <2>2 DEF Inside
  <2> QED
    BY <2>1, <2>3 DEF DocInv
<1>27. ASSUME UNCHANGED vars PROVE DocInv'
  BY <1>27 DEF vars, DocInv, Inside, Token
<1> QED
  BY <1>1, <1>2, <1>3, <1>4, <1>5, <1>6, <1>7, <1>8, <1>9, <1>10, <1>11,
          <1>12, <1>13, <1>14, <1>15, <1>16, <1>17, <1>18, <1>19, <1>20,
          <1>21, <1>22, <1>23, <1>24, <1>25, <1>26, <1>27 DEF Next, Step

-----------------------------------------------------------------------------
(* The invariant is inductive and holds of every behaviour of the lock.     *)
THEOREM Invariance == Spec => []IInv
<1>1. Init => IInv
  BY InitInv
<1>2. IInv /\ [Next]_vars => IInv'
  BY TypeStep, TurnStep, SessionStep, LockStep, DocStep DEF IInv
<1> QED
  BY <1>1, <1>2, PTL DEF Spec

(* Every variable of the lock keeps its type, whatever crashes and however  *)
(* long anything takes.                                                     *)
THEOREM TypeCorrect == Spec => []TypeOK
<1>1. IInv => TypeOK
  BY DEF IInv
<1> QED
  BY <1>1, Invariance, PTL

(* withStateLock and CacheWriter keep any two writers of any processes from *)
(* interleaving until a reclaim displaces a lock that is in use; crashes    *)
(* and the passing of the stale window do not break exclusion by themselves.*)
THEOREM Exclusion == Spec => []ExclusiveUnlessRobbed
<1>1. IInv => ExclusiveUnlessRobbed
  <2> SUFFICES ASSUME IInv, robbed = {}, NEW v \in Writers, NEW w \in Writers,
                      Inside(v), Inside(w)
               PROVE  v = w
    BY DEF ExclusiveUnlessRobbed
  <2>1. Owning(v) /\ Owning(w)
    BY DEF Inside, Owning
  <2> QED
    BY <2>1, OneOwner DEF IInv
<1> QED
  BY <1>1, Invariance, PTL

(* Until then no update reported as written is dropped from the document.   *)
THEOREM NothingLost == Spec => []NoLostUpdateUnlessRobbed
<1>1. IInv => NoLostUpdateUnlessRobbed
  BY DEF IInv, DocInv, NoLostUpdateUnlessRobbed
<1> QED
  BY <1>1, Invariance, PTL

(* The FIFO of withStateLock alone keeps the mutations of one Node process  *)
(* apart, reclaimed locks or not.                                           *)
THEOREM TurnExclusion == Spec => []TurnsExclude
<1>1. IInv => TurnsExclude
  BY DEF IInv, TurnInv, TurnsExclude
<1> QED
  BY <1>1, Invariance, PTL

(* The Mutex and the generation alone keep the folds of the shared          *)
(* CacheWriter apart, reclaimed locks or not.                               *)
THEOREM SessionExclusion == Spec => []OneSession
<1>1. IInv => OneSession
  <2> SUFFICES ASSUME IInv, NEW v \in FoldWriters, NEW w \in FoldWriters,
                      Owning(v), Owning(w)
               PROVE  v = w
    BY DEF OneSession
  <2>1. v \in Writers /\ w \in Writers
    BY DEF Writers, Desktop
  <2>2. Token(v) # None /\ Token(w) # None
    BY <2>1, TokenType, NoneAssumption DEF IInv
  <2>3. CASE pc[v] = "fold" /\ pc[w] = "fold"
    BY <2>3 DEF Owning, Token
  <2>4. CASE pc[v] # "fold" /\ pc[w] # "fold"
    BY <2>4 DEF IInv, SessionInv, Owning
  <2>5. CASE pc[v] = "fold" /\ pc[w] # "fold"
    BY <2>2, <2>5, NoneAssumption DEF IInv, SessionInv, Owning
  <2>6. CASE pc[v] # "fold" /\ pc[w] = "fold"
    BY <2>2, <2>6, NoneAssumption DEF IInv, SessionInv, Owning
  <2> QED
    BY <2>3, <2>4, <2>5, <2>6
<1> QED
  BY <1>1, Invariance, PTL

-----------------------------------------------------------------------------
(* The document as one store. *)

(* Attempts that have not come to their write, and mutations that wait for  *)
(* one.                                                                     *)
Unwritten == {"acquire", "exists", "inspect", "displace", "stamp", "unmake",
              "read", "fold", "possess", "write"}
Waiting == {"queued", "supcheck", "supremove"}

(* A mutation of w has been asked for and not been written. *)
Open(w) == pc[w] \in Unwritten \union Waiting \/ (pc[w] = "idle" /\ w \in again)

(* The updates of w. *)
Mine(w) == {t \in acked : t[1] = w}

(* The document and every copy of it hold nothing but what was written, an  *)
(* attempt that has not come to its write is in none, and a writer has      *)
(* written no more than it was asked, less if it still has to.              *)
WrittenInv ==
    /\ doc \subseteq acked
    /\ \A w \in Writers : base[w] \subseteq acked
    /\ \A t \in acked : t[2] <= tries[t[1]]
    /\ \A w \in Writers : pc[w] \in Unwritten => Token(w) \notin acked
    /\ \A w \in Writers :
          /\ IsFiniteSet(Mine(w)) /\ Cardinality(Mine(w)) <= jobs[w]
          /\ Open(w) => Cardinality(Mine(w)) < jobs[w]

(* A step of w that writes nothing: it goes on with its attempt or draws a  *)
(* new token, and goes on with its mutation or takes up a new one.          *)
LEMMA WrittenGo ==
    ASSUME TypeOK, WrittenInv, NEW w \in Writers, NEW l, pc' = [pc EXCEPT ![w] = l],
           UNCHANGED <<doc, acked>>, again' \ {w} \subseteq again,
           \A v \in Writers : base'[v] \in {base[v], doc, {}},
           \/ tries' = tries /\ (l \in Unwritten => pc[w] \in Unwritten)
           \/ tries' = [tries EXCEPT ![w] = @ + 1],
           \/ jobs' = jobs /\ (l \in Unwritten \union Waiting \/ (l = "idle" /\ w \in again') => Open(w))
           \/ jobs' = [jobs EXCEPT ![w] = @ + 1]
    PROVE  WrittenInv'
<1>1. /\ \A v \in Writers : tries[v] \in Nat /\ jobs[v] \in Nat
      /\ \A t \in acked : t[1] \in Writers /\ t[2] \in Nat /\ t[2] <= tries[t[1]]
  BY DEF TypeOK, Tokens, WrittenInv
<1>2. \A v \in Writers : pc'[v] = IF v = w THEN l ELSE pc[v]
  BY DEF TypeOK
<1>3. /\ \A v \in Writers : v # w => tries'[v] = tries[v] /\ jobs'[v] = jobs[v]
      /\ tries'[w] \in {tries[w], tries[w] + 1} /\ jobs'[w] \in {jobs[w], jobs[w] + 1}
  BY DEF TypeOK
<1>4. \A t \in acked' : t[2] <= tries'[t[1]]
  BY <1>1, <1>3
<1>5. ASSUME NEW v \in Writers, pc'[v] \in Unwritten
      PROVE  Token(v)' \notin acked'
  <2>1. CASE v # w
    BY <1>2, <1>3, <1>5, <2>1 DEF WrittenInv, Token
  <2>2. CASE v = w /\ tries'[w] = tries[w] + 1
    <3> SUFFICES ASSUME <<w, tries[w] + 1>> \in acked
                 PROVE  FALSE
      BY <2>2 DEF Token
    <3>1. tries[w] + 1 <= tries[w]
      BY <1>1
    <3> QED
      BY <1>1, <3>1
  <2>3. CASE v = w /\ tries' = tries /\ (l \in Unwritten => pc[w] \in Unwritten)
    BY <1>2, <1>5, <2>3 DEF WrittenInv, Token
  <2> QED
    BY <2>1, <2>2, <2>3 DEF TypeOK
<1>6. ASSUME NEW v \in Writers
      PROVE  /\ IsFiniteSet(Mine(v))' /\ Cardinality(Mine(v))' <= jobs'[v]
             /\ Open(v)' => Cardinality(Mine(v))' < jobs'[v]
  <2>1. Mine(v)' = Mine(v)
    BY DEF Mine
  <2>2. /\ IsFiniteSet(Mine(v)) /\ Cardinality(Mine(v)) <= jobs[v] /\ Cardinality(Mine(v)) \in Nat
        /\ Open(v) => Cardinality(Mine(v)) < jobs[v]
    BY FS_CardinalityType DEF WrittenInv
  <2> HIDE DEF Mine
  <2>3. CASE v # w
    <3>1. Open(v)' => Open(v)
      BY <1>2, <2>3 DEF Open
    <3> QED
      BY <1>3, <2>1, <2>2, <2>3, <3>1
  <2>4. CASE v = w /\ jobs' = jobs
                   /\ (l \in Unwritten \union Waiting \/ (l = "idle" /\ w \in again') => Open(w))
    <3>1. Open(v)' => Open(v)
      BY <1>2, <2>4 DEF Open
    <3> QED
      BY <2>1, <2>2, <2>4, <3>1
  <2>5. CASE v = w /\ jobs' = [jobs EXCEPT ![w] = @ + 1]
    <3>1. jobs'[v] = jobs[v] + 1
      BY <2>5 DEF TypeOK
    <3> QED
      BY <1>1, <2>1, <2>2, <3>1
  <2> QED
    BY <2>3, <2>4, <2>5
<1>7. \A v \in Writers : base'[v] \subseteq acked'
  BY DEF WrittenInv
<1>8. doc' \subseteq acked'
  BY DEF WrittenInv
<1> QED
  BY <1>4, <1>5, <1>6, <1>7, <1>8 DEF WrittenInv

(* Forgetting an attempt empties its copy of the document. *)
LEMMA Emptied ==
    ASSUME TypeOK, NEW w \in Writers, Forget(w)
    PROVE  \A v \in Writers : base'[v] \in {base[v], doc, {}}
  BY DEF Forget, TypeOK

(* Entering an acquisition, and ending a mutation. *)
LEMMA WrittenEnter ==
    ASSUME TypeOK, WrittenInv, NEW w \in Writers, EnterAcquire(w), UNCHANGED <<doc, acked, again>>,
           (jobs' = jobs /\ Open(w)) \/ jobs' = [jobs EXCEPT ![w] = @ + 1]
    PROVE  WrittenInv'
  BY WrittenGo, Emptied DEF EnterAcquire, Goto

LEMMA WrittenLeave ==
    ASSUME TypeOK, WrittenInv, NEW w \in Writers, NEW outcome, Leave(w, outcome),
           UNCHANGED <<tries, jobs, doc, acked>>
    PROVE  WrittenInv'
<1>1. /\ pc' = [pc EXCEPT ![w] = "idle"] /\ again' = again \ {w}
      /\ \A v \in Writers : base'[v] \in {base[v], doc, {}}
  BY Emptied DEF Leave, Goto
<1> QED
  BY <1>1, WrittenGo DEF Unwritten, Waiting

LEMMA WrittenRefused ==
    ASSUME TypeOK, WrittenInv, NEW w \in Writers, FoldRefused(w), pc[w] \in Unwritten,
           UNCHANGED <<tries, jobs, doc, acked>>
    PROVE  WrittenInv'
<1>1. CASE Leave(w, "stale")
  BY <1>1, WrittenLeave
<1>2. CASE ~Leave(w, "stale")
  <2>1. /\ pc' = [pc EXCEPT ![w] = "idle"] /\ again' = again \union {w}
        /\ \A v \in Writers : base'[v] \in {base[v], doc, {}}
    BY <1>2, Emptied DEF FoldRefused, Goto
  <2> QED
    BY <2>1, WrittenGo DEF Unwritten, Waiting, Open
<1> QED
  BY <1>1, <1>2

(* Every step keeps it. *)
LEMMA WrittenStep == ASSUME TypeOK, WrittenInv, [Next]_vars PROVE WrittenInv'
<1>1. ASSUME NEW w \in Writers, Enqueue(w) PROVE WrittenInv'
  BY <1>1, WrittenGo DEF Enqueue, Goto, Unwritten
<1>2. ASSUME NEW w \in Writers, StartTurn(w) PROVE WrittenInv'
  BY <1>2, WrittenEnter DEF StartTurn, Open, Waiting
<1>3. ASSUME NEW w \in Writers, StartPolicy(w) PROVE WrittenInv'
  BY <1>3, WrittenEnter DEF StartPolicy
<1>4. ASSUME NEW w \in Writers, Begin(w) PROVE WrittenInv'
  <2>1. /\ pc[w] = "idle" /\ UNCHANGED <<again, doc, acked>>
        /\ (jobs' = jobs /\ Open(w)) \/ jobs' = [jobs EXCEPT ![w] = @ + 1]
    BY <1>4 DEF Begin, Open
  <2>2. CASE EnterAcquire(w)
    BY <2>1, <2>2, WrittenEnter
  <2>3. CASE ~EnterAcquire(w)
    <3>1. pc' = [pc EXCEPT ![w] = "supcheck"] /\ UNCHANGED <<tries, base>>
      BY <1>4, <2>3 DEF Begin, Goto
    <3> QED
      BY <2>1, <3>1, WrittenGo DEF Unwritten
  <2> QED
    BY <2>2, <2>3
<1>5. ASSUME NEW w \in Writers, SupersedeCheck(w) PROVE WrittenInv'
  <2>1. CASE EnterAcquire(w)
    BY <1>5, <2>1, WrittenEnter DEF SupersedeCheck, Open, Waiting
  <2>2. CASE ~EnterAcquire(w)
    BY <1>5, <2>2, WrittenGo DEF SupersedeCheck, Goto, locals, Unwritten, Open, Waiting
  <2> QED
    BY <2>1, <2>2
<1>6. ASSUME NEW w \in Writers, SupersedeRemove(w) PROVE WrittenInv'
  BY <1>6, WrittenEnter DEF SupersedeRemove, Open, Waiting
<1>7. ASSUME NEW w \in Writers, MakeLock(w) PROVE WrittenInv'
  BY <1>7, WrittenGo DEF MakeLock, Goto, Unwritten, Open
<1>8. ASSUME NEW w \in Writers, Collide(w) PROVE WrittenInv'
  BY <1>8, WrittenGo DEF Collide, Goto, Unwritten, Open
<1>9. ASSUME NEW w \in Writers, GiveUp(w) PROVE WrittenInv'
  BY <1>9, WrittenLeave DEF GiveUp
<1>10. ASSUME NEW w \in Writers, PathExists(w) PROVE WrittenInv'
  <2>1. CASE Leave(w, "thrown")
    BY <1>10, <2>1, WrittenLeave DEF PathExists
  <2>2. CASE ~Leave(w, "thrown")
    BY <1>10, <2>2, WrittenGo DEF PathExists, Goto, locals, Unwritten, Open
  <2> QED
    BY <2>1, <2>2
<1>11. ASSUME NEW w \in Writers, Inspect(w) PROVE WrittenInv'
  BY <1>11, WrittenGo DEF Inspect, Retry, Goto, Unwritten, Open
<1>12. ASSUME NEW w \in Writers, Displace(w) PROVE WrittenInv'
  BY <1>12, WrittenGo DEF Displace, Retry, Goto, Unwritten, Open
<1>13. ASSUME NEW w \in Writers, WriteStamp(w) PROVE WrittenInv'
  BY <1>13, WrittenGo, Emptied DEF WriteStamp, Goto, Unwritten, Open
<1>14. ASSUME NEW w \in Writers, StampFails(w) PROVE WrittenInv'
  <2>1. CASE Leave(w, "thrown")
    BY <1>14, <2>1, WrittenLeave DEF StampFails
  <2>2. CASE ~Leave(w, "thrown")
    BY <1>14, <2>2, WrittenGo DEF StampFails, Goto, locals, Unwritten, Open
  <2> QED
    BY <2>1, <2>2
<1>15. ASSUME NEW w \in Writers, Unmake(w) PROVE WrittenInv'
  BY <1>15, WrittenLeave DEF Unmake
<1>16. ASSUME NEW w \in Writers, ReadDoc(w) PROVE WrittenInv'
  <2>1. \A v \in Writers : base'[v] \in {base[v], doc, {}}
    BY <1>16 DEF ReadDoc, TypeOK
  <2> QED
    BY <1>16, <2>1, WrittenGo DEF ReadDoc, Goto, Unwritten, Open
<1>17. ASSUME NEW w \in Writers, Abandon(w) PROVE WrittenInv'
  BY <1>17, WrittenGo DEF Abandon, Goto, Unwritten, Open, Waiting
<1>18. ASSUME NEW w \in Writers, Commit(w) PROVE WrittenInv'
  BY <1>18, WrittenGo DEF Commit, Goto, Unwritten, Open
<1>19. ASSUME NEW w \in Writers, CommitSuperseded(w) PROVE WrittenInv'
  BY <1>19, WrittenRefused DEF CommitSuperseded, Unwritten
<1>20. ASSUME NEW w \in Writers, AbortFold(w) PROVE WrittenInv'
  <2>1. CASE Leave(w, "aborted")
    BY <1>20, <2>1, WrittenLeave DEF AbortFold
  <2>2. CASE ~Leave(w, "aborted")
    BY <1>20, <2>2, WrittenGo DEF AbortFold, Goto, locals, Unwritten, Open, Waiting
  <2> QED
    BY <2>1, <2>2
<1>21. ASSUME NEW w \in Writers, CheckPossession(w) PROVE WrittenInv'
  <2>1. CASE FoldRefused(w)
    BY <1>21, <2>1, WrittenRefused DEF CheckPossession, Unwritten
  <2>2. CASE ~FoldRefused(w)
    BY <1>21, <2>2, WrittenGo DEF CheckPossession, Goto, locals, Unwritten, Open
  <2> QED
    BY <2>1, <2>2
<1>22. ASSUME NEW w \in Writers, WriteDoc(w) PROVE WrittenInv'
  <2>1. /\ pc[w] = "write" /\ pc' = [pc EXCEPT ![w] = "relcheck"] /\ Forget(w)
        /\ doc' = base[w] \union {Token(w)} /\ acked' = acked \union {Token(w)}
        /\ UNCHANGED <<tries, jobs, again>>
    BY <1>22 DEF WriteDoc, Goto
  <2>2. /\ \A v \in Writers : pc'[v] = IF v = w THEN "relcheck" ELSE pc[v]
        /\ \A v \in Writers : Token(v)' = Token(v) /\ tries[v] \in Nat /\ jobs[v] \in Nat
    BY <2>1 DEF TypeOK, Token
  <2>3. doc' \subseteq acked' /\ \A v \in Writers : base'[v] \subseteq acked'
    BY <2>1, Emptied DEF WrittenInv
  <2>4. \A t \in acked' : t[2] <= tries'[t[1]]
    BY <2>1, <2>2 DEF WrittenInv, Token
  <2>5. \A v \in Writers : pc'[v] \in Unwritten => Token(v)' \notin acked'
    BY <2>1, <2>2 DEF WrittenInv, Unwritten, Token
  <2>6. ASSUME NEW v \in Writers
        PROVE  /\ IsFiniteSet(Mine(v))' /\ Cardinality(Mine(v))' <= jobs'[v]
               /\ Open(v)' => Cardinality(Mine(v))' < jobs'[v]
    <3>1. /\ IsFiniteSet(Mine(v)) /\ Cardinality(Mine(v)) <= jobs[v] /\ Cardinality(Mine(v)) \in Nat
          /\ Open(v) => Cardinality(Mine(v)) < jobs[v]
      BY FS_CardinalityType DEF WrittenInv
    <3>2. CASE v # w
      <4>1. Mine(v)' = Mine(v)
        BY <2>1, <3>2 DEF Mine, Token
      <4>2. Open(v)' => Open(v)
        BY <2>1, <2>2, <3>2 DEF Open
      <4> QED
        BY <2>1, <3>1, <4>1, <4>2
    <3>3. CASE v = w
      <4>1. Mine(v)' = Mine(v) \union {Token(w)}
        BY <2>1, <3>3 DEF Mine, Token
      <4>2. Open(v) /\ ~Open(v)'
        BY <2>1, <2>2, <3>3 DEF Open, Unwritten, Waiting
      <4> HIDE DEF Mine
      <4>3. /\ IsFiniteSet(Mine(v) \union {Token(w)})
            /\ Cardinality(Mine(v) \union {Token(w)}) =
                 IF Token(w) \in Mine(v) THEN Cardinality(Mine(v)) ELSE Cardinality(Mine(v)) + 1
        BY <3>1, FS_AddElement, Zenon
      <4>4. Cardinality(Mine(v) \union {Token(w)}) \in Nat
        BY <4>3, FS_CardinalityType
      <4> QED
        BY <2>1, <2>2, <3>1, <4>1, <4>2, <4>3, <4>4
    <3> QED
      BY <3>2, <3>3
  <2> QED
    BY <2>3, <2>4, <2>5, <2>6 DEF WrittenInv
<1>23. ASSUME NEW w \in Writers, ReleaseCheck(w) PROVE WrittenInv'
  <2>1. CASE Leave(w, result[w])
    BY <1>23, <2>1, WrittenLeave DEF ReleaseCheck
  <2>2. CASE ~Leave(w, result[w])
    BY <1>23, <2>2, WrittenGo DEF ReleaseCheck, Goto, locals, Unwritten, Waiting
  <2> QED
    BY <2>1, <2>2
<1>24. ASSUME NEW w \in Writers, ReleaseRemove(w) PROVE WrittenInv'
  BY <1>24, WrittenLeave DEF ReleaseRemove
<1>25. ASSUME Elapse PROVE WrittenInv'
  BY <1>25 DEF Elapse, WrittenInv, Token, Open, Mine
<1>26. ASSUME NEW p \in Processes, Crash(p) PROVE WrittenInv'
  <2>1. /\ \A w \in Writers : pc'[w] \in {pc[w], "dead"}
        /\ UNCHANGED <<tries, jobs, again, base, doc, acked>>
    BY <1>26 DEF Crash
  <2>2. \A w \in Writers : (Open(w)' => Open(w)) /\ (pc'[w] \in Unwritten => pc[w] \in Unwritten)
    BY <2>1 DEF Open, Unwritten, Waiting
  <2>3. \A w \in Writers : Mine(w)' = Mine(w) /\ Token(w)' = Token(w)
    BY <2>1 DEF Mine, Token
  <2> QED
    BY <2>1, <2>2, <2>3 DEF WrittenInv
<1>27. ASSUME UNCHANGED vars PROVE WrittenInv'
  BY <1>27 DEF vars, WrittenInv, Token, Open, Mine
<1> QED
  BY <1>1, <1>2, <1>3, <1>4, <1>5, <1>6, <1>7, <1>8, <1>9, <1>10, <1>11,
          <1>12, <1>13, <1>14, <1>15, <1>16, <1>17, <1>18, <1>19, <1>20,
          <1>21, <1>22, <1>23, <1>24, <1>25, <1>26, <1>27 DEF Next, Step

(* Nothing is written at first. *)
LEMMA WrittenInit == Init => WrittenInv
<1> SUFFICES ASSUME Init PROVE WrittenInv
  OBVIOUS
<1>1. \A w \in Writers : Mine(w) = {} /\ ~Open(w) /\ pc[w] \notin Unwritten /\ jobs[w] = 0
  BY DEF Init, Mine, Open, Unwritten, Waiting
<1>2. IsFiniteSet({}) /\ Cardinality({}) = 0
  BY FS_EmptySet
<1>3. \A w \in Writers : IsFiniteSet(Mine(w)) /\ Cardinality(Mine(w)) <= jobs[w]
  <2> SUFFICES ASSUME NEW w \in Writers
               PROVE  IsFiniteSet(Mine(w)) /\ Cardinality(Mine(w)) <= jobs[w]
    OBVIOUS
  <2>1. Mine(w) = {} /\ jobs[w] = 0
    BY <1>1
  <2>2. IsFiniteSet(Mine(w)) /\ Cardinality(Mine(w)) = 0
    BY <1>2, <2>1, Zenon
  <2> QED
    BY <2>1, <2>2
<1> QED
  BY <1>1, <1>3 DEF Init, WrittenInv

(* No mutation is written twice by withStateLock or CacheWriter, reclaimed  *)
(* or not: the retry of a report begins only what was refused unwritten.    *)
THEOREM OneWrite == Spec => []WrittenOnce
<1>1. WrittenInv => WrittenOnce
  BY DEF WrittenInv, WrittenOnce, Mine
<1>2. IInv /\ WrittenInv /\ [Next]_vars => WrittenInv'
  BY WrittenStep DEF IInv
<1> QED
  BY <1>1, <1>2, WrittenInit, Invariance, PTL DEF Spec

(* The write of a writer whose lock was not taken is one update of the      *)
(* store; no other step touches the document.                               *)
LEMMA RefinedStep ==
    ASSUME TypeOK, DocInv, WrittenInv, [Next]_vars
    PROVE  [Store!Next]_<<doc, robbed # {}>>
<1>1. robbed' = {} => robbed = {}
  BY DEF Next, Step, vars, Enqueue, StartTurn, StartPolicy, Begin, SupersedeCheck, SupersedeRemove,
         MakeLock, Collide, GiveUp, PathExists, Inspect, Displace, WriteStamp, StampFails, Unmake,
         ReadDoc, Abandon, Commit, CommitSuperseded, AbortFold, CheckPossession, WriteDoc,
         ReleaseCheck, ReleaseRemove, Elapse, Crash
<1>2. ASSUME NEW w \in Writers, WriteDoc(w)
      PROVE  Store!Next
  <2>1. pc[w] = "write" /\ doc' = base[w] \union {Token(w)} /\ robbed' = robbed
    BY <1>2 DEF WriteDoc
  <2>2. CASE robbed = {}
    <3>1. base[w] = doc /\ Token(w) \notin doc
      BY <2>1, <2>2 DEF DocInv, WrittenInv, Inside, Unwritten
    <3>2. Store!Update
      BY <2>1, <2>2, <3>1 DEF Store!Update
    <3> QED
      BY <3>2 DEF Store!Next
  <2>3. CASE robbed # {}
    BY <2>1, <2>3 DEF Store!Next, Store!Adrift
  <2> QED
    BY <2>2, <2>3
<1>3. ASSUME doc' = doc
      PROVE  [Store!Next]_<<doc, robbed # {}>>
  <2>1. CASE (robbed # {})' = (robbed # {})
    BY <1>3, <2>1
  <2>2. CASE (robbed # {})' # (robbed # {})
    <3>1. (robbed # {})' = TRUE
      BY <1>1, <2>2
    <3> QED
      BY <1>3, <3>1 DEF Store!Next, Store!Break
  <2> QED
    BY <2>1, <2>2
<1>4. doc' = doc \/ \E w \in Writers : WriteDoc(w)
  BY DEF Next, Step, vars, Enqueue, StartTurn, StartPolicy, Begin, SupersedeCheck, SupersedeRemove,
         MakeLock, Collide, GiveUp, PathExists, Inspect, Displace, WriteStamp, StampFails, Unmake,
         ReadDoc, Abandon, Commit, CommitSuperseded, AbortFold, CheckPossession,
         ReleaseCheck, ReleaseRemove, Elapse, Crash
<1> QED
  BY <1>2, <1>3, <1>4

(* withStateLock and CacheWriter make the document one store until a lock   *)
(* in use is reclaimed: every write, of whichever language and process, is  *)
(* one update of what is there.                                             *)
THEOREM Refines == Spec => ActsAsStore
<1>1. Init => Store!Init
  BY DEF Init, Store!Init
<1>2. IInv /\ WrittenInv /\ [Next]_vars => WrittenInv'
  BY WrittenStep DEF IInv
<1>3. IInv /\ WrittenInv /\ [Next]_vars => [Store!Next]_<<doc, robbed # {}>>
  BY RefinedStep DEF IInv
<1> QED
  BY <1>1, <1>2, <1>3, WrittenInit, Invariance, PTL DEF Spec, ActsAsStore, Store!Spec

=============================================================================
