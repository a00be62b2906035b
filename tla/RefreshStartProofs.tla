------------------------- MODULE RefreshStartProofs ------------------------
(***************************************************************************)
(* One start per window, for any number of renders and windows and for     *)
(* renders that lag up to two windows.                                     *)
(***************************************************************************)
EXTENDS RefreshStart, TLAPS

(* A window no render can reserve any more: its token is there, or every    *)
(* render that could still create it would lag too far.                     *)
Taken(w) == w \in tokens \/ w + Late < window

(* A render that made its token and has not yet started or died.            *)
Reserved(r) == pc[r] \in {"scan", "unlink", "spawn"}

(* Windows lie in the past or the present, and a render short of its token  *)
(* lags no further than Late; what it is about to remove is old.            *)
LagInv ==
    \A r \in Renders :
        /\ win[r] <= window
        /\ pc[r] \in {"look", "reserve"} => window <= win[r] + Late
        /\ \A t \in listed[r] : Old(win[r], t)
        /\ pc[r] # "unlink" => listed[r] = {}

(* A reserved window is taken, unstarted and reserved by nobody else.       *)
ReservedInv ==
    \A r \in Renders : Reserved(r) =>
        /\ Taken(win[r])
        /\ starts[win[r]] = 0
        /\ \A s \in Renders : Reserved(s) /\ win[s] = win[r] => s = r

(* A window that was started is taken, and was started once.                *)
StartedInv ==
    \A w \in Windows : starts[w] <= 1 /\ (starts[w] # 0 => Taken(w))

IInv == TypeOK /\ LagInv /\ ReservedInv /\ StartedInv

(* The initial state satisfies the invariant. *)
LEMMA Initially == Init => IInv
  BY ConstantsAssumption
  DEF Init, IInv, TypeOK, Windows, Labels, LagInv, ReservedInv, StartedInv, Reserved

(* Every step keeps the types. *)
LEMMA TypeStep == ASSUME TypeOK, [Next]_vars PROVE TypeOK'
<1>1. CASE UNCHANGED vars
  BY <1>1 DEF vars, TypeOK
<1>2. CASE Advance
  BY <1>2, ConstantsAssumption DEF Advance, TypeOK, Windows
<1>3. ASSUME NEW r \in Renders, Decide(r) \/ Look(r) \/ Reserve(r) \/ Scan(r)
                                \/ Unlink(r) \/ Spawn(r) \/ Die(r)
      PROVE  TypeOK'
  <2>0. 0 \in Windows
    BY ConstantsAssumption DEF Windows
  <2>1. CASE Decide(r)
    BY <2>1 DEF Decide, Goto, TypeOK, Labels
  <2>2. CASE Look(r)
    BY <2>0, <2>2 DEF Look, Leave, Goto, TypeOK, Labels
  <2>3. CASE Reserve(r)
    BY <2>0, <2>3 DEF Reserve, Leave, Goto, TypeOK, Labels
  <2>4. CASE Scan(r)
    BY <2>4 DEF Scan, Goto, TypeOK, Labels
  <2>5. CASE Unlink(r)
    BY <2>5 DEF Unlink, Goto, TypeOK, Labels
  <2>6. CASE Spawn(r)
    BY <2>0, <2>6 DEF Spawn, Leave, Goto, TypeOK, Labels
  <2>7. CASE Die(r)
    BY <2>0, <2>7 DEF Die, Leave, Goto, TypeOK, Labels
  <2> QED
    BY <1>3, <2>1, <2>2, <2>3, <2>4, <2>5, <2>6, <2>7
<1> QED
  BY <1>1, <1>2, <1>3 DEF Next

(* A taken window stays taken: tokens are removed only once they are more   *)
(* than two windows behind, which is further than a render may lag.         *)
LEMMA TakenStays ==
    ASSUME TypeOK, LagInv, [Next]_vars, NEW w \in Windows, Taken(w)
    PROVE  Taken(w)'
<1> USE ConstantsAssumption DEF Windows
<1>1. CASE UNCHANGED vars
  BY <1>1 DEF vars, Taken
<1>2. CASE Advance
  BY <1>2 DEF Advance, TypeOK, Taken
<1>3. ASSUME NEW r \in Renders, Unlink(r) PROVE Taken(w)'
  <2>1. CASE \E t \in listed[r] : tokens' \in {tokens, tokens \ {t}}
    <3>1. PICK t \in listed[r] : tokens' \in {tokens, tokens \ {t}}
      BY <2>1
    <3>2. t + 2 < win[r] /\ win[r] <= window /\ t \in Nat
      BY DEF LagInv, Old, TypeOK
    <3>3. w = t => w + Late < window
      BY <3>2 DEF TypeOK
    <3>4. window' = window
      BY <1>3 DEF Unlink
    <3> QED
      BY <3>1, <3>3, <3>4 DEF Taken
  <2>2. CASE tokens' = tokens
    BY <1>3, <2>2 DEF Unlink, Taken
  <2> QED
    BY <1>3, <2>1, <2>2 DEF Unlink
<1>4. ASSUME NEW r \in Renders, Decide(r) \/ Look(r) \/ Reserve(r) \/ Scan(r)
                                \/ Spawn(r) \/ Die(r)
      PROVE  Taken(w)'
  BY <1>4 DEF Decide, Look, Reserve, Scan, Spawn, Die, Taken
<1> QED
  BY <1>1, <1>2, <1>3, <1>4 DEF Next

(* A render that leaves forgets its window and its list. *)
LEMMA LeaveLag ==
    ASSUME TypeOK, LagInv, NEW r \in Renders, Leave(r), window' = window
    PROVE  LagInv'
<1> SUFFICES ASSUME NEW q \in Renders
             PROVE  /\ win'[q] <= window
                    /\ pc'[q] \in {"look", "reserve"} => window <= win'[q] + Late
                    /\ \A t \in listed'[q] : Old(win'[q], t)
                    /\ pc'[q] # "unlink" => listed'[q] = {}
  BY DEF LagInv
<1>1. CASE q = r
  BY <1>1, ConstantsAssumption DEF Leave, Goto, TypeOK, Windows
<1>2. CASE q # r
  BY <1>2 DEF Leave, Goto, TypeOK, LagInv
<1> QED
  BY <1>1, <1>2

(* Every step keeps renders from lagging too far. *)
LEMMA LagStep == ASSUME TypeOK, LagInv, [Next]_vars PROVE LagInv'
<1> USE ConstantsAssumption DEF Windows
<1>1. CASE UNCHANGED vars
  BY <1>1 DEF vars, LagInv
<1>2. CASE Advance
  BY <1>2 DEF Advance, LagInv, TypeOK
<1>3. ASSUME NEW r \in Renders, Decide(r) \/ Look(r) \/ Reserve(r) \/ Scan(r)
                                \/ Unlink(r) \/ Spawn(r) \/ Die(r)
      PROVE  LagInv'
  <2>1. CASE Decide(r)
    <3>1. PICK v \in Windows : /\ v <= window /\ window <= v + Late
                               /\ win' = [win EXCEPT ![r] = v]
      BY <2>1 DEF Decide
    <3> QED
      BY <2>1, <3>1 DEF Decide, Goto, LagInv, TypeOK
  <2>2. CASE Look(r)
    <3>1. CASE Leave(r)
      BY <2>2, <3>1, LeaveLag DEF Look
    <3>2. CASE ~Leave(r)
      BY <2>2, <3>2 DEF Look, Goto, LagInv, TypeOK
    <3> QED
      BY <3>1, <3>2
  <2>3. CASE Reserve(r)
    <3>1. CASE Leave(r)
      BY <2>3, <3>1, LeaveLag DEF Reserve
    <3>2. CASE ~Leave(r)
      BY <2>3, <3>2 DEF Reserve, Goto, LagInv, TypeOK
    <3> QED
      BY <3>1, <3>2
  <2>4. CASE Scan(r)
    BY <2>4 DEF Scan, Goto, LagInv, TypeOK
  <2>5. CASE Unlink(r)
    BY <2>5 DEF Unlink, Goto, LagInv, TypeOK
  <2>6. CASE Spawn(r) \/ Die(r)
    BY <2>6, LeaveLag DEF Spawn, Die
  <2> QED
    BY <1>3, <2>1, <2>2, <2>3, <2>4, <2>5, <2>6
<1> QED
  BY <1>1, <1>2, <1>3 DEF Next

(* Every step keeps a reserved window to its one render. *)
LEMMA ReservedStep ==
    ASSUME TypeOK, LagInv, ReservedInv, StartedInv, [Next]_vars, TypeOK'
    PROVE  ReservedInv'
<1> USE ConstantsAssumption DEF Windows
<1> SUFFICES ASSUME NEW q \in Renders, Reserved(q)'
             PROVE  /\ Taken(win[q])'
                    /\ (starts[win[q]] = 0)'
                    /\ \A s \in Renders : (Reserved(s) /\ win[s] = win[q])' => s = q
  BY DEF ReservedInv
<1> DEFINE Alone == /\ Taken(win[q])'
                    /\ (starts[win[q]] = 0)'
                    /\ \A s \in Renders : (Reserved(s) /\ win[s] = win[q])' => s = q
<1>a. ASSUME Reserved(q), win'[q] = win[q]
      PROVE  /\ Taken(win[q])'
             /\ starts[win[q]] = 0
             /\ \A s \in Renders : Reserved(s) /\ win[s] = win[q] => s = q
  <2>1. Taken(win[q]) /\ win[q] \in Windows
    BY <1>a DEF ReservedInv, TypeOK
  <2>2. ASSUME NEW v \in Windows, v = win[q] PROVE Taken(v)'
    BY <2>1, <2>2, TakenStays
  <2> QED
    BY <1>a, <2>1, <2>2 DEF ReservedInv, Taken
<1>1. CASE UNCHANGED vars
  BY <1>1, <1>a DEF vars, Reserved
<1>2. CASE Advance
  BY <1>2, <1>a DEF Advance, Reserved
<1>3. ASSUME NEW r \in Renders, Decide(r) \/ Look(r) \/ Die(r) PROVE Alone
  <2>1. /\ ~Reserved(r)' /\ starts' = starts
        /\ \A s \in Renders : s # r => pc'[s] = pc[s] /\ win'[s] = win[s]
    BY <1>3 DEF Decide, Look, Die, Leave, Goto, TypeOK, Reserved
  <2>2. q # r /\ Reserved(q) /\ win'[q] = win[q]
    BY <2>1 DEF Reserved
  <2> QED
    BY <1>a, <2>1, <2>2 DEF Reserved
<1>4. ASSUME NEW r \in Renders, Scan(r) \/ Unlink(r) PROVE Alone
  <2>1. /\ win' = win /\ starts' = starts /\ Reserved(r)
        /\ \A s \in Renders : s # r => pc'[s] = pc[s]
    BY <1>4 DEF Scan, Unlink, Goto, TypeOK, Reserved
  <2>2. \A s \in Renders : Reserved(s)' => Reserved(s)
    BY <2>1 DEF Reserved
  <2> QED
    BY <1>a, <2>1, <2>2
<1>5. ASSUME NEW r \in Renders, Reserve(r) PROVE Alone
  <2>1. CASE pc'[r] = "idle"
    <3>1. /\ ~Reserved(r)' /\ starts' = starts
          /\ \A s \in Renders : s # r => pc'[s] = pc[s] /\ win'[s] = win[s]
      BY <1>5, <2>1 DEF Reserve, Leave, Goto, TypeOK, Reserved
    <3>2. q # r /\ Reserved(q) /\ win'[q] = win[q]
      BY <3>1 DEF Reserved
    <3> QED
      BY <1>a, <3>1, <3>2 DEF Reserved
  <2>2. CASE pc'[r] # "idle"
    <3>1. /\ win[r] \notin tokens /\ tokens' = tokens \union {win[r]}
          /\ win' = win /\ starts' = starts /\ window' = window
          /\ pc[r] = "reserve" /\ pc' = [pc EXCEPT ![r] = "scan"]
      BY <1>5, <2>2 DEF Reserve, Leave, Goto, TypeOK
    <3>2. ~Taken(win[r]) /\ win[r] \in Windows
      BY <3>1 DEF LagInv, TypeOK, Taken
    <3>3. starts[win[r]] = 0
      BY <3>2 DEF StartedInv
    <3>4. \A s \in Renders : Reserved(s) => win[s] # win[r]
      BY <3>2 DEF ReservedInv
    <3>5. CASE q = r
      <4>1. Taken(win[q])'
        BY <3>1, <3>5 DEF Taken
      <4>2. \A s \in Renders : (Reserved(s) /\ win[s] = win[q])' => s = q
        BY <3>1, <3>4, <3>5 DEF Reserved, TypeOK
      <4> QED
        BY <3>1, <3>3, <3>5, <4>1, <4>2
    <3>6. CASE q # r
      <4>1. Reserved(q) /\ win'[q] = win[q]
        BY <3>1, <3>6 DEF Reserved, TypeOK
      <4>2. \A s \in Renders : (Reserved(s) /\ win[s] = win[q])' => s = q
        BY <1>a, <3>1, <3>4, <4>1 DEF Reserved, TypeOK
      <4> QED
        BY <1>a, <3>1, <4>1, <4>2
    <3> QED
      BY <3>5, <3>6
  <2> QED
    BY <2>1, <2>2
<1>6. ASSUME NEW r \in Renders, Spawn(r) PROVE Alone
  <2>1. /\ Reserved(r) /\ ~Reserved(r)'
        /\ starts' = [starts EXCEPT ![win[r]] = @ + 1]
        /\ \A s \in Renders : s # r => pc'[s] = pc[s] /\ win'[s] = win[s]
    BY <1>6 DEF Spawn, Leave, Goto, TypeOK, Reserved
  <2>2. q # r /\ Reserved(q) /\ win'[q] = win[q]
    BY <2>1 DEF Reserved
  <2>3. win[q] # win[r]
    BY <1>a, <2>1, <2>2
  <2>4. starts'[win[q]] = starts[win[q]]
    BY <2>1, <2>3 DEF TypeOK
  <2> QED
    BY <1>a, <2>1, <2>2, <2>4 DEF Reserved
<1> QED
  BY <1>1, <1>2, <1>3, <1>4, <1>5, <1>6 DEF Next

(* Every step keeps a started window started once. *)
LEMMA StartedStep ==
    ASSUME TypeOK, LagInv, ReservedInv, StartedInv, [Next]_vars
    PROVE  StartedInv'
<1> SUFFICES ASSUME NEW w \in Windows
             PROVE  starts'[w] <= 1 /\ (starts'[w] # 0 => Taken(w)')
  BY DEF StartedInv
<1>1. starts[w] <= 1 /\ (starts[w] # 0 => Taken(w)')
  BY TakenStays DEF StartedInv
<1>2. CASE starts' = starts
  BY <1>1, <1>2
<1>3. ASSUME NEW r \in Renders, Spawn(r)
      PROVE  starts'[w] <= 1 /\ (starts'[w] # 0 => Taken(w)')
  <2>1. /\ Taken(win[r]) /\ starts[win[r]] = 0 /\ win[r] \in Windows
        /\ starts' = [starts EXCEPT ![win[r]] = @ + 1]
    BY <1>3 DEF Spawn, ReservedInv, Reserved, TypeOK
  <2>2. CASE w = win[r]
    <3>1. starts'[w] = 1
      BY <2>1, <2>2 DEF TypeOK
    <3>2. Taken(w)
      BY <2>1, <2>2
    <3> QED
      BY <3>1, <3>2, TakenStays
  <2>3. CASE w # win[r]
    BY <1>1, <2>1, <2>3 DEF TypeOK
  <2> QED
    BY <2>2, <2>3
<1> QED
  BY <1>2, <1>3 DEF Next, vars, Advance, Decide, Look, Reserve, Scan, Unlink, Die

(* The invariant holds throughout. *)
THEOREM Invariance == Spec => []IInv
<1>1. Init => IInv
  BY Initially
<1>2. IInv /\ [Next]_vars => IInv'
  BY TypeStep, LagStep, ReservedStep, StartedStep DEF IInv
<1> QED
  BY <1>1, <1>2, PTL DEF Spec

(* However many renders there are and however long the machine runs,        *)
(* spawnDetachedRefresh starts at most one refresh for a window, provided   *)
(* no render lags more than the two windows removeOldStartTokens allows.    *)
THEOREM OneStart == Spec => []OneStartPerWindow
<1>1. IInv => OneStartPerWindow
  BY DEF IInv, StartedInv, OneStartPerWindow
<1> QED
  BY <1>1, Invariance, PTL

(* The initial states and the steps of the token protocol are those of the  *)
(* abstract one.                                                            *)
LEMMA RefinedStep ==
    ASSUME TypeOK, ReservedInv, [Next]_vars
    PROVE  [Once!Next]_starts
<1>1. CASE starts' = starts
  BY <1>1
<1>2. ASSUME NEW r \in Renders, Spawn(r)
      PROVE  Once!Next
  <2>1. /\ starts[win[r]] = 0 /\ win[r] \in Windows
        /\ starts' = [starts EXCEPT ![win[r]] = @ + 1]
    BY <1>2 DEF Spawn, ReservedInv, Reserved, TypeOK
  <2>2. starts' = [starts EXCEPT ![win[r]] = 1]
    BY <2>1
  <2> QED
    BY <2>1, <2>2 DEF Once!Next, Once!Do
<1> QED
  BY <1>1, <1>2 DEF Next, vars, Advance, Decide, Look, Reserve, Scan, Unlink, Die

(* For any number of renders, spawnDetachedRefresh implements AtMostOnce    *)
(* over the windows.                                                        *)
THEOREM Refines == Spec => StartsAtMostOnce
<1>1. Init => Once!Init
  BY DEF Init, Once!Init
<1>2. IInv /\ [Next]_vars => [Once!Next]_starts
  BY RefinedStep DEF IInv
<1> QED
  BY <1>1, <1>2, Invariance, PTL DEF Spec, StartsAtMostOnce, Once!Spec

============================================================================
