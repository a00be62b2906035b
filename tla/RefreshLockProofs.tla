------------------------- MODULE RefreshLockProofs -------------------------
(***************************************************************************)
(* Proofs about RefreshLock, for any number of processes and any bounds.   *)
(* Exclusion is not inductive; what is says where the lock file stands:    *)
(*                                                                         *)
(*   LockInv  until a file in use is reclaimed, whoever is using the lock  *)
(*            finds its own file at the path, with its token in it once it *)
(*            has written it                                               *)
(*   DocInv   until then, what a process read is still the document        *)
(*   WrittenInv  what a process is about to write is not written yet       *)
(***************************************************************************)
EXTENDS RefreshLock, TLAPS

LockInv ==
    robbed = {} =>
        \A p \in Procs : Using(p) =>
            /\ lock # None
            /\ lock.by = Token(p)
            /\ pc[p] # "token" => lock.token = Token(p)

DocInv ==
    robbed = {} =>
        /\ acked \subseteq doc
        /\ \A p \in Procs : pc[p] \in {"owned", "write"} => base[p] = doc

IInv == TypeOK /\ LockInv /\ DocInv

(* The initial state satisfies the invariant. *)
LEMMA Initially == Init => IInv
  BY ConstantsAssumption
  DEF Init, IInv, TypeOK, LockInv, DocInv, Labels, Using

(* The token of a request is a token. *)
LEMMA TokenType == ASSUME TypeOK, NEW p \in Procs PROVE Token(p) \in Tokens
  BY DEF TypeOK, Token, Tokens

(* Reading the clock changes what a file is for the reader and nothing      *)
(* else of it.                                                              *)
LEMMA EnterType ==
    ASSUME TypeOK, NEW p \in Procs, Enter(p)
    PROVE  /\ pc' \in [Procs -> Labels]
           /\ second' \subseteq Procs
           /\ lock' \in Files \union {None}
           /\ lock # None => /\ lock' # None
                             /\ lock'.by = lock.by
                             /\ lock'.token = lock.token
<1>1. CASE lock = None
  BY <1>1 DEF Enter, Goto, TypeOK, Labels
<1>2. CASE lock # None
  <2>1. lock \in Files
    BY <1>2 DEF TypeOK
  <2>2. lock' \in Files /\ lock'.by = lock.by /\ lock'.token = lock.token
    <3>1. CASE lock.old
      BY <1>2, <2>1, <3>1 DEF Enter, Files
    <3>2. CASE ~lock.old
      BY <1>2, <2>1, <3>2 DEF Enter, Files
    <3> QED
      BY <3>1, <3>2
  <2>3. lock' # None
    BY <2>2, ConstantsAssumption
  <2> QED
    BY <2>2, <2>3 DEF Enter, Goto, TypeOK, Labels
<1> QED
  BY <1>1, <1>2

(* A touch keeps the file and its token. *)
LEMMA TouchType ==
    ASSUME NEW f \in Files \union {None}
    PROVE  /\ Touched(f) \in Files \union {None}
           /\ f # None => /\ Touched(f) # None
                          /\ Touched(f).by = f.by
                          /\ Touched(f).token = f.token
  BY ConstantsAssumption DEF Touched, Files

(* Ending a request keeps the types. *)
LEMMA LeaveType ==
    ASSUME TypeOK, NEW p \in Procs, Leave(p)
    PROVE  /\ pc' \in [Procs -> Labels]
           /\ second' \subseteq Procs
           /\ base' \in [Procs -> SUBSET Tokens]
  BY DEF Leave, Goto, TypeOK, Labels

(* So does being refused. *)
LEMMA RefusedType ==
    ASSUME TypeOK, NEW p \in Procs, Refused(p)
    PROVE  /\ pc' \in [Procs -> Labels]
           /\ second' \subseteq Procs
           /\ base' \in [Procs -> SUBSET Tokens]
  BY LeaveType DEF Refused, Goto, TypeOK, Labels

(* A fresh lock file is a file. *)
LEMMA CreateType ==
    ASSUME TypeOK, NEW p \in Procs
    PROVE  [by |-> Token(p), token |-> None, old |-> FALSE, stale |-> {}] \in Files
  BY TokenType DEF Files

(* Writing the token leaves a file a file. *)
LEMMA WriteTokenType ==
    ASSUME TypeOK, NEW p \in Procs, lock # None
    PROVE  /\ [lock EXCEPT !.token = Token(p)] \in Files
           /\ [lock EXCEPT !.token = Token(p)].by = lock.by
           /\ [lock EXCEPT !.token = Token(p)].token = Token(p)
  BY TokenType DEF TypeOK, Files

(* Every step keeps the types. *)
LEMMA TypeStep == ASSUME TypeOK, [Next]_vars PROVE TypeOK'
<1> USE DEF document
<1>1. CASE UNCHANGED vars
  BY <1>1 DEF vars, TypeOK
<1>2. CASE Elapse
  BY <1>2 DEF Elapse, TypeOK, Files
<1>3. ASSUME NEW p \in Procs, Request(p) PROVE TypeOK'
  BY <1>3, EnterType DEF Request, TypeOK
<1>4. ASSUME NEW p \in Procs, BeatCheck(p) \/ BeatTouch(p) \/ Crash(p) PROVE TypeOK'
  <2>1. CASE BeatCheck(p)
    BY <2>1 DEF BeatCheck, TypeOK
  <2>2. CASE BeatTouch(p)
    BY <2>2, TouchType DEF BeatTouch, TypeOK
  <2>3. CASE Crash(p)
    BY <2>3 DEF Crash, Goto, TypeOK, Labels
  <2> QED
    BY <1>4, <2>1, <2>2, <2>3
<1>5. ASSUME NEW p \in Procs, Step(p) PROVE TypeOK'
  <2>1. CASE Create(p)
    BY <2>1, CreateType DEF Create, Goto, TypeOK, Labels
  <2>2. CASE Collide(p)
    BY <2>2, RefusedType DEF Collide, Goto, TypeOK, Labels
  <2>3. CASE Check(p)
    BY <2>3, RefusedType DEF Check, Goto, TypeOK, Labels
  <2>4. CASE Remove(p)
    <3>1. robbed' \subseteq Tokens
      BY <2>4 DEF Remove, TypeOK, Files
    <3> QED
      BY <2>4, <3>1 DEF Remove, Goto, TypeOK, Labels
  <2>5. CASE WriteToken(p)
    <3>1. lock' \in Files \union {None}
      BY <2>5, WriteTokenType, TouchType DEF WriteToken, TypeOK
    <3> QED
      BY <2>5, <3>1, LeaveType DEF WriteToken, Goto, TypeOK, Labels
  <2>6. CASE Again(p)
    BY <2>6, EnterType DEF Again, TypeOK
  <2>7. CASE Timeout(p)
    BY <2>7, LeaveType DEF Timeout, TypeOK
  <2>8. CASE ReadDoc(p)
    BY <2>8 DEF ReadDoc, Goto, TypeOK, Labels
  <2>9. CASE Abandon(p)
    BY <2>9 DEF Abandon, Goto, TypeOK, Labels
  <2>10. CASE StillOwned(p)
    BY <2>10 DEF StillOwned, Goto, TypeOK, Labels
  <2>11. CASE WriteDoc(p)
    <3>1. doc' \subseteq Tokens /\ acked' \subseteq Tokens
      BY <2>11, TokenType DEF WriteDoc, TypeOK
    <3> QED
      BY <2>11, <3>1 DEF WriteDoc, Goto, TypeOK, Labels
  <2>12. CASE ReleaseCheck(p)
    BY <2>12, LeaveType DEF ReleaseCheck, Goto, TypeOK, Labels
  <2>13. CASE ReleaseRemove(p)
    BY <2>13, LeaveType DEF ReleaseRemove, TypeOK
  <2> QED
    BY <1>5, <2>1, <2>2, <2>3, <2>4, <2>5, <2>6, <2>7, <2>8, <2>9, <2>10,
       <2>11, <2>12, <2>13 DEF Step
<1> QED
  BY <1>1, <1>2, <1>3, <1>4, <1>5 DEF Next

(* Until a robbery the user of the lock is one: its file is at the path.    *)
LEMMA OneUser ==
    ASSUME TypeOK, LockInv, robbed = {}, NEW p \in Procs, NEW q \in Procs,
           Using(p), Using(q)
    PROVE  p = q
<1>1. Token(p) = Token(q)
  BY DEF LockInv
<1> QED
  BY <1>1 DEF Token

(* A robbery is never undone. *)
LEMMA RobbedStays ==
    ASSUME [Next]_vars, robbed' = {} PROVE robbed = {}
  BY DEF Next, vars, Step, Elapse, Request, BeatCheck, BeatTouch, Crash, Create,
         Collide, Check, Remove, WriteToken, Again, Timeout, ReadDoc, Abandon,
         StillOwned, WriteDoc, ReleaseCheck, ReleaseRemove

(* Every step keeps the file of whoever uses the lock in its place. *)
LEMMA LockStep == ASSUME TypeOK, LockInv, [Next]_vars PROVE LockInv'
<1> USE DEF document, Using
<1> SUFFICES ASSUME robbed' = {}, NEW q \in Procs, Using(q)'
             PROVE  /\ lock' # None
                    /\ lock'.by = Token(q)'
                    /\ pc'[q] # "token" => lock'.token = Token(q)'
  BY DEF LockInv
<1>0. robbed = {}
  BY RobbedStays
<1>a. ASSUME Using(q)
      PROVE  /\ lock # None /\ lock.by = Token(q)
             /\ pc[q] # "token" => lock.token = Token(q)
  BY <1>0, <1>a DEF LockInv
<1>1. CASE UNCHANGED vars
  BY <1>1, <1>a DEF vars, Token
<1>2. CASE Elapse
  <2>1. /\ Using(q) /\ pc' = pc /\ jobs' = jobs
        /\ lock # None /\ lock' = [lock EXCEPT !.old = TRUE]
    BY <1>2, <1>a DEF Elapse
  <2>2. lock \in Files
    BY <2>1 DEF TypeOK
  <2>3. lock' \in Files /\ lock'.by = lock.by /\ lock'.token = lock.token
    BY <2>1, <2>2 DEF Files
  <2> QED
    BY <2>1, <2>3, <1>a, ConstantsAssumption DEF Token
<1> DEFINE Kept == /\ lock' # None
                   /\ lock'.by = Token(q)'
                   /\ pc'[q] # "token" => lock'.token = Token(q)'
<1>3. ASSUME NEW p \in Procs, Request(p) \/ Again(p) PROVE Kept
  <2>1. Enter(p) /\ pc'[p] = "open"
    BY <1>3 DEF Request, Again, Enter, Goto, TypeOK
  <2>2. q # p
    BY <2>1
  <2>3. pc'[q] = pc[q] /\ Token(q)' = Token(q)
    BY <1>3, <2>2 DEF Request, Again, Enter, Goto, TypeOK, Token
  <2> QED
    BY <1>a, <2>1, <2>3, EnterType
<1>4. ASSUME NEW p \in Procs, BeatCheck(p) \/ BeatTouch(p) \/ Crash(p) PROVE Kept
  <2>1. pc'[q] = pc[q] /\ Token(q)' = Token(q)
    BY <1>4 DEF BeatCheck, BeatTouch, Crash, Goto, TypeOK, Token
  <2>2. lock' = lock \/ lock' = Touched(lock)
    BY <1>4 DEF BeatCheck, BeatTouch, Crash
  <2> QED
    BY <1>a, <2>1, <2>2, TouchType DEF TypeOK
<1>5. ASSUME NEW p \in Procs, Create(p) PROVE Kept
  <2>1. jobs' = jobs /\ lock = None /\ lock' \in Files /\ lock'.by = Token(p)
    BY <1>5, CreateType DEF Create
  <2>2. pc' = [pc EXCEPT ![p] = "token"]
    BY <1>5 DEF Create, Goto
  <2>3. q = p
    BY <1>a, <2>1, <2>2 DEF TypeOK
  <2> QED
    BY <2>1, <2>2, <2>3, ConstantsAssumption DEF TypeOK, Token
<1>6. ASSUME NEW p \in Procs,
             Collide(p) \/ Check(p) \/ Timeout(p) \/ ReadDoc(p) \/ Abandon(p)
               \/ StillOwned(p) \/ WriteDoc(p) \/ ReleaseCheck(p)
      PROVE  Kept
  <2>1. lock' = lock /\ Token(q)' = Token(q)
    BY <1>6 DEF Collide, Check, Timeout, ReadDoc, Abandon, StillOwned, WriteDoc,
                ReleaseCheck, Token
  <2>2. Using(q) /\ (pc[q] = "token" => pc'[q] = "token")
    BY <1>6 DEF Collide, Check, Timeout, ReadDoc, Abandon, StillOwned, WriteDoc,
                ReleaseCheck, Refused, Leave, Goto, TypeOK
  <2> QED
    BY <1>a, <2>1, <2>2
<1>7. ASSUME NEW p \in Procs, Remove(p) PROVE Kept
  <2>1. Using(q) /\ Token(q) = lock.by
    BY <1>7, <1>a DEF Remove, Goto, TypeOK
  <2>2. robbed' = robbed \union {lock.by}
    BY <1>7, <1>a, <2>1 DEF Remove
  <2> QED
    BY <2>2
<1>8. ASSUME NEW p \in Procs, WriteToken(p) PROVE Kept
  <2>1. Using(p) /\ Using(q) /\ Token(q)' = Token(q)
    BY <1>8 DEF WriteToken, Leave, Goto, TypeOK, Token
  <2>2. q = p
    BY <1>0, <2>1, OneUser
  <2>3. lock # None /\ lock.by = Token(p)
    BY <1>a, <2>1, <2>2
  <2>4. lock' = Touched([lock EXCEPT !.token = Token(p)])
    BY <1>8, <2>2, <2>3 DEF WriteToken, Leave, Goto, TypeOK
  <2> QED
    BY <2>1, <2>2, <2>3, <2>4, WriteTokenType, TouchType, ConstantsAssumption
<1>9. ASSUME NEW p \in Procs, ReleaseRemove(p) PROVE Kept
  <2>1. Using(p) /\ Using(q) /\ q # p
    BY <1>9 DEF ReleaseRemove, Leave, Goto, TypeOK
  <2> QED
    BY <1>0, <2>1, OneUser
<1> QED
  BY <1>1, <1>2, <1>3, <1>4, <1>5, <1>6, <1>7, <1>8, <1>9 DEF Next, Step

(* Every step keeps what was read equal to the document. *)
LEMMA DocStep == ASSUME TypeOK, LockInv, DocInv, [Next]_vars PROVE DocInv'
<1> USE DEF document
<1> DEFINE Fresh == /\ acked' \subseteq doc'
                    /\ \A q \in Procs :
                          pc'[q] \in {"owned", "write"} => base'[q] = doc'
<1> SUFFICES ASSUME robbed' = {} PROVE Fresh
  BY DEF DocInv
<1>0. robbed = {}
  BY RobbedStays
<1>a. /\ acked \subseteq doc
      /\ \A q \in Procs : pc[q] \in {"owned", "write"} => base[q] = doc
  BY <1>0 DEF DocInv
<1>1. CASE UNCHANGED vars
  BY <1>1, <1>a DEF vars
<1>2. CASE Elapse
  BY <1>2, <1>a DEF Elapse
<1>3. ASSUME NEW p \in Procs,
             Request(p) \/ Again(p) \/ BeatCheck(p) \/ BeatTouch(p) \/ Crash(p)
               \/ Create(p) \/ Remove(p)
      PROVE  Fresh
  BY <1>3, <1>a DEF Request, Again, Enter, BeatCheck, BeatTouch, Crash, Create,
                    Remove, Goto, TypeOK
<1>4. ASSUME NEW p \in Procs,
             Collide(p) \/ Check(p) \/ Timeout(p) \/ WriteToken(p)
               \/ ReleaseCheck(p) \/ ReleaseRemove(p)
      PROVE  Fresh
  BY <1>4, <1>a DEF Collide, Check, Timeout, WriteToken, ReleaseCheck,
                    ReleaseRemove, Refused, Leave, Goto, TypeOK
<1>5. ASSUME NEW p \in Procs, ReadDoc(p) PROVE Fresh
  BY <1>5, <1>a DEF ReadDoc, Goto, TypeOK
<1>6. ASSUME NEW p \in Procs, Abandon(p) \/ StillOwned(p) PROVE Fresh
  BY <1>6, <1>a DEF Abandon, StillOwned, Goto, TypeOK
<1>7. ASSUME NEW p \in Procs, WriteDoc(p) PROVE Fresh
  <2>1. base[p] = doc
    BY <1>7, <1>a DEF WriteDoc
  <2>2. ASSUME NEW q \in Procs PROVE pc'[q] \notin {"owned", "write"}
    <3>1. CASE q = p
      BY <1>7, <3>1 DEF WriteDoc, Goto, TypeOK
    <3>2. CASE q # p
      BY <1>0, <1>7, <3>2, OneUser DEF WriteDoc, Goto, TypeOK, Using
    <3> QED
      BY <3>1, <3>2
  <2> QED
    BY <1>7, <1>a, <2>1, <2>2 DEF WriteDoc
<1> QED
  BY <1>1, <1>2, <1>3, <1>4, <1>5, <1>6, <1>7 DEF Next, Step

(* The invariant holds throughout. *)
THEOREM Invariance == Spec => []IInv
<1>1. Init => IInv
  BY Initially
<1>2. IInv /\ [Next]_vars => IInv'
  BY TypeStep, LockStep, DocStep DEF IInv
<1> QED
  BY <1>1, <1>2, PTL DEF Spec

(* Every variable of the refresh lock (acquireRefreshLock) keeps its type.  *)
THEOREM TypeCorrect == Spec => []TypeOK
<1>1. IInv => TypeOK
  BY DEF IInv
<1> QED
  BY <1>1, Invariance, PTL

(* Any two processes that took the lock through acquireRefreshLock exclude  *)
(* each other until a reclaim unlinks a file in use; deaths, refused tokens,*)
(* stalls and late heartbeats alone never break that.                       *)
THEOREM OneRound == Spec => []OneRoundUnlessRobbed
<1>1. IInv => OneRoundUnlessRobbed
  BY OneUser DEF IInv, OneRoundUnlessRobbed
<1> QED
  BY <1>1, Invariance, PTL

----------------------------------------------------------------------------
(* The document as one store.                                               *)

(* Before the write of a request. *)
Unwritten == {"open", "check1", "check2", "remove", "check3", "wait", "token",
              "read", "owned", "write"}

(* The document and every copy of it hold nothing but what was written, and *)
(* a request that has not come to its write is in none.                     *)
WrittenInv ==
    /\ doc \subseteq acked
    /\ \A p \in Procs : base[p] \subseteq acked
    /\ \A t \in acked : t[2] <= jobs[t[1]]
    /\ \A p \in Procs : pc[p] \in Unwritten => Token(p) \notin acked

(* A step that writes nothing and asks for nothing. *)
LEMMA WrittenKeep ==
    ASSUME TypeOK, WrittenInv, UNCHANGED <<jobs, doc, acked>>,
           \A p \in Procs : base'[p] \in {base[p], doc, {}},
           \A p \in Procs : pc'[p] \in Unwritten => pc[p] \in Unwritten
    PROVE  WrittenInv'
  BY DEF WrittenInv, Token

(* Every step keeps it. *)
LEMMA WrittenStep == ASSUME TypeOK, WrittenInv, [Next]_vars PROVE WrittenInv'
<1> USE DEF document
<1>0. ASSUME NEW p \in Procs PROVE jobs[p] \in Nat /\ Token(p) = <<p, jobs[p]>>
  BY DEF TypeOK, Token
<1>1. CASE UNCHANGED vars
  BY <1>1 DEF vars, WrittenInv, Token
<1>2. CASE Elapse
  BY <1>2 DEF Elapse, WrittenInv, Token
<1>3. ASSUME NEW p \in Procs, Request(p)
      PROVE  WrittenInv'
  <2>1. /\ jobs' = [jobs EXCEPT ![p] = @ + 1] /\ pc' = [pc EXCEPT ![p] = "open"]
        /\ UNCHANGED <<base, doc, acked>>
    BY <1>3 DEF Request, Enter, Goto
  <2>2. \A q \in Procs : jobs'[q] = IF q = p THEN jobs[q] + 1 ELSE jobs[q]
    BY <2>1 DEF TypeOK
  <2>3. ASSUME NEW t \in acked
        PROVE  t[1] \in Procs /\ t[2] \in Nat /\ t[2] <= jobs[t[1]]
    BY DEF TypeOK, Tokens, WrittenInv
  <2>4. \A t \in acked : t[2] <= jobs'[t[1]]
    BY <1>0, <2>2, <2>3
  <2>5. Token(p)' \notin acked
    <3> SUFFICES ASSUME <<p, jobs'[p]>> \in acked
                 PROVE  FALSE
      BY DEF Token
    <3>1. jobs'[p] <= jobs[p]
      BY <2>3
    <3> QED
      BY <1>0, <2>2, <3>1
  <2>6. \A q \in Procs : q # p /\ pc'[q] \in Unwritten => Token(q)' \notin acked
    BY <2>1, <2>2 DEF WrittenInv, Token, TypeOK
  <2> QED
    BY <2>1, <2>4, <2>5, <2>6 DEF WrittenInv
<1>4. ASSUME NEW p \in Procs,
             Again(p) \/ BeatCheck(p) \/ BeatTouch(p) \/ Crash(p) \/ Create(p) \/ Remove(p)
      PROVE  WrittenInv'
  BY <1>4, WrittenKeep DEF Again, Enter, BeatCheck, BeatTouch, Crash, Create, Remove, Goto,
                           TypeOK, Unwritten
<1>5. ASSUME NEW p \in Procs,
             Collide(p) \/ Check(p) \/ Timeout(p) \/ WriteToken(p)
               \/ ReleaseCheck(p) \/ ReleaseRemove(p)
      PROVE  WrittenInv'
  BY <1>5, WrittenKeep DEF Collide, Check, Timeout, WriteToken, ReleaseCheck, ReleaseRemove,
                           Refused, Leave, Goto, TypeOK, Unwritten
<1>6. ASSUME NEW p \in Procs, ReadDoc(p) \/ Abandon(p) \/ StillOwned(p)
      PROVE  WrittenInv'
  BY <1>6, WrittenKeep DEF ReadDoc, Abandon, StillOwned, Goto, TypeOK, Unwritten
<1>7. ASSUME NEW p \in Procs, WriteDoc(p)
      PROVE  WrittenInv'
  <2>1. /\ doc' = base[p] \union {Token(p)} /\ acked' = acked \union {Token(p)}
        /\ pc' = [pc EXCEPT ![p] = "relcheck"] /\ UNCHANGED <<jobs, base>>
    BY <1>7 DEF WriteDoc, Goto
  <2>2. \A q \in Procs : pc'[q] \in Unwritten => q # p /\ pc[q] \in Unwritten
    BY <2>1 DEF TypeOK, Unwritten
  <2>3. \A q \in Procs : q # p => Token(q) # Token(p)
    BY DEF Token
  <2>4. \A t \in acked' : t[2] <= jobs[t[1]]
    BY <1>0, <2>1 DEF WrittenInv
  <2>5. \A q \in Procs : Token(q)' = Token(q)
    BY <2>1 DEF Token
  <2> QED
    BY <2>1, <2>2, <2>3, <2>4, <2>5 DEF WrittenInv
<1> QED
  BY <1>1, <1>2, <1>3, <1>4, <1>5, <1>6, <1>7 DEF Next, Step

(* The write of a process whose lock was not taken is one update of the     *)
(* store; no other step touches the document.                               *)
LEMMA RefinedStep ==
    ASSUME TypeOK, DocInv, WrittenInv, [Next]_vars
    PROVE  [Store!Next]_<<doc, robbed # {}>>
<1> USE DEF document
<1>1. robbed' = {} => robbed = {}
  BY RobbedStays
<1>2. ASSUME NEW p \in Procs, WriteDoc(p)
      PROVE  Store!Next
  <2>1. /\ pc[p] = "write" /\ doc' = base[p] \union {Token(p)} /\ robbed' = robbed
    BY <1>2 DEF WriteDoc
  <2>2. CASE robbed = {}
    <3>1. base[p] = doc /\ Token(p) \notin doc
      BY <2>1, <2>2 DEF DocInv, WrittenInv, Unwritten
    <3>2. Store!Update
      BY <2>1, <2>2, <3>1 DEF Store!Update
    <3> QED
      BY <3>2 DEF Store!Next
  <2>3. CASE robbed # {}
    BY <2>1, <2>3 DEF Store!Next, Store!Adrift
  <2> QED
    BY <2>2, <2>3
<1>3. ASSUME doc' = doc
      PROVE  [Store!Next]_<<doc, robbed # {}>>
  <2>1. CASE (robbed # {})' = (robbed # {})
    BY <1>3, <2>1
  <2>2. CASE (robbed # {})' # (robbed # {})
    <3>1. (robbed # {})' = TRUE
      BY <1>1, <2>2
    <3> QED
      BY <1>3, <3>1 DEF Store!Next, Store!Break
  <2> QED
    BY <2>1, <2>2
<1>4. doc' = doc \/ \E p \in Procs : WriteDoc(p)
  BY DEF Next, Step, vars, Request, BeatCheck, BeatTouch, Crash, Elapse, Create, Collide, Check,
         Remove, WriteToken, Again, Timeout, ReadDoc, Abandon, StillOwned, ReleaseCheck, ReleaseRemove
<1> QED
  BY <1>2, <1>3, <1>4

(* acquireRefreshLock, withSessionLock and withFileLock make the document   *)
(* one store until a file in use is reclaimed: every write is one update,   *)
(* of what was there, and no request is applied twice.                      *)
THEOREM Refines == Spec => ActsAsStore
<1>1. Init => WrittenInv /\ Store!Init
  BY DEF Init, WrittenInv, Unwritten, Store!Init
<1>2. IInv /\ WrittenInv /\ [Next]_vars => WrittenInv'
  BY WrittenStep DEF IInv
<1>3. IInv /\ WrittenInv /\ [Next]_vars => [Store!Next]_<<doc, robbed # {}>>
  BY RefinedStep DEF IInv
<1> QED
  BY <1>1, <1>2, <1>3, Invariance, PTL DEF Spec, ActsAsStore, Store!Spec

============================================================================
