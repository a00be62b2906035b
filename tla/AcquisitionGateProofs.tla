----------------------- MODULE AcquisitionGateProofs -----------------------
(***************************************************************************)
(* Proofs about AcquisitionGate, for any number of processes, accounts and *)
(* rotations, any durations and any number of faults.                      *)
(***************************************************************************)
EXTENDS AcquisitionGate, TLAPS

(* The round's variables keep their types when a step forgets, holds or     *)
(* only moves a process.                                                    *)
RoundOK ==
    /\ pc \in [Procs -> Labels]
    /\ acct \in [Procs -> Accounts]
    /\ at \in [Procs -> 0 .. now]
    /\ rev \in [Procs -> Named \union {None}]
    /\ again \subseteq Procs
    /\ kind \in [Procs -> Kinds]
    /\ due \in [Procs -> Nat]

LEMMA ForgetType ==
    ASSUME TypeOK, NEW p \in Procs, NEW l \in Labels, Forget(p, l), now' = now
    PROVE  RoundOK'
  BY ConstantsAssumption DEF TypeOK, Forget, RoundOK, Kinds

LEMMA GotoType ==
    ASSUME TypeOK, NEW p \in Procs, NEW l \in Labels, Goto(p, l), now' = now
    PROVE  RoundOK'
  BY DEF TypeOK, Goto, RoundOK, round

LEMMA HoldType ==
    ASSUME TypeOK, NEW p \in Procs, Hold(p), now' = now
    PROVE  RoundOK'
  BY DEF TypeOK, Hold, RoundOK, Labels

LEMMA RevisionType ==
    ASSUME TypeOK, NEW a \in Accounts
    PROVE  Revision(a) \in Revisions
  BY DEF TypeOK, Revision, Revisions

LEMMA GrantType ==
    ASSUME TypeOK, NEW p \in Procs, NEW n \in Nat, NEW r \in Named \union {None},
           NEW a \in Accounts \union {None}
    PROVE  Grant(p, n, r, a) \in Leases
<1>1. at[p] + Lease \in Nat
  BY ConstantsAssumption DEF TypeOK
<1>2. OwnerOf(p) \in Owners
  BY DEF OwnerOf, Owners
<1> QED
  BY <1>1, <1>2 DEF Grant, Leases

LEMMA RowsType ==
    ASSUME NEW n \in Nat, NEW f \in [Accounts -> Nat],
           NEW g \in [Accounts -> Named \union {None}]
    PROVE  /\ Rows(n, f, g) \in Deadlines
           /\ Rows(n, f, g).nextRequestAt = n
           /\ Rows(n, f, g).accounts = f
           /\ Rows(n, f, g).refusals = g
  BY DEF Rows, Deadlines

(* What prune_expired keeps of the document, field by field.                *)
LEMMA PrunedFields ==
    ASSUME TypeOK, NEW t \in Nat
    PROVE  /\ Pruned(t) \in Deadlines
           /\ Pruned(t).nextRequestAt = Ahead(t, doc.nextRequestAt)
           /\ \A a \in Accounts :
                /\ Pruned(t).accounts[a] = Ahead(t, doc.accounts[a])
                /\ Pruned(t).refusals[a] = IF doc.accounts[a] <= t
                                           THEN None ELSE doc.refusals[a]
<1>1. doc \in Deadlines
  BY DEF TypeOK
<1>2. Ahead(t, doc.nextRequestAt) \in Nat
  BY <1>1 DEF Deadlines, Ahead
<1>3. [a \in Accounts |-> Ahead(t, doc.accounts[a])] \in [Accounts -> Nat]
  BY <1>1 DEF Deadlines, Ahead
<1>4. [a \in Accounts |-> IF doc.accounts[a] <= t THEN None ELSE doc.refusals[a]]
         \in [Accounts -> Named \union {None}]
  BY <1>1 DEF Deadlines
<1> QED
  BY <1>2, <1>3, <1>4, RowsType DEF Pruned

LEMMA OpenedFields ==
    ASSUME TypeOK, NEW d \in Desktops
    PROVE  /\ Opened(d) \in Deadlines
           /\ Opened(d).nextRequestAt = Ahead(at[d], doc.nextRequestAt)
           /\ \A a \in Accounts :
                /\ Opened(d).accounts[a] = IF a = acct[d] /\ Reopens(d) THEN 0
                                           ELSE Ahead(at[d], doc.accounts[a])
                /\ Opened(d).refusals[a] =
                      IF \/ a = acct[d] /\ Reopens(d)
                         \/ doc.accounts[a] <= at[d]
                      THEN None ELSE doc.refusals[a]
<1>1. at[d] \in Nat
  BY DEF TypeOK, Procs
<1>2. Pruned(at[d]) \in Deadlines
  BY <1>1, PrunedFields
<1>3. [a \in Accounts |-> IF a = acct[d] /\ Reopens(d)
                          THEN 0 ELSE Pruned(at[d]).accounts[a]] \in [Accounts -> Nat]
  BY <1>2 DEF Deadlines
<1>4. [a \in Accounts |-> IF a = acct[d] /\ Reopens(d)
                          THEN None ELSE Pruned(at[d]).refusals[a]]
         \in [Accounts -> Named \union {None}]
  BY <1>2 DEF Deadlines
<1>5. Pruned(at[d]).nextRequestAt \in Nat
  BY <1>2 DEF Deadlines
<1>6. /\ Opened(d) \in Deadlines
      /\ Opened(d).nextRequestAt = Pruned(at[d]).nextRequestAt
      /\ Opened(d).accounts = [a \in Accounts |-> IF a = acct[d] /\ Reopens(d)
                          THEN 0 ELSE Pruned(at[d]).accounts[a]]
      /\ Opened(d).refusals = [a \in Accounts |-> IF a = acct[d] /\ Reopens(d)
                          THEN None ELSE Pruned(at[d]).refusals[a]]
  BY <1>3, <1>4, <1>5, RowsType DEF Opened
<1> QED
  BY <1>1, <1>6, PrunedFields

(* A deadline lies ahead of its answer.                                     *)
LEMMA InstantAhead ==
    ASSUME TypeOK, NEW p \in Procs, NEW u \in Instants(p)
    PROVE  u \in Nat /\ u > now
<1>1. PICK b \in DelaysAfter(kind[p]) : u = now + b
  BY DEF Instants
<1>2. kind[p] \in Kinds
  BY DEF TypeOK
<1>3. b \in Nat \ {0}
  BY <1>1, <1>2, ConstantsAssumption DEF DelaysAfter, Delays, Kinds
<1> QED
  BY <1>1, <1>3 DEF Instants, TypeOK

LEMMA CompletedType ==
    ASSUME TypeOK, NEW p \in Procs, NEW u \in Nat
    PROVE  /\ Completed(p, u) \in Leases
           /\ Completed(p, u).owner = file.owner
           /\ Completed(p, u).expiresAt = file.expiresAt
           /\ Completed(p, u).token = file.token
           /\ Completed(p, u).lastAccount = file.lastAccount
           /\ p \in Clis => Completed(p, u).nextAllowedAt = u
           /\ p \notin Clis =>
                Completed(p, u).nextAllowedAt = MaxOf(file.nextAllowedAt, u)
           /\ ~Refuses(kind[p]) => Completed(p, u).refusal = None
  BY DEF TypeOK, Completed, Leases, MaxOf

LEMMA RecordType ==
    ASSUME TypeOK, NEW p \in Procs, NEW u \in Nat, Record(p, u)
    PROVE  /\ limited' \in Nat
           /\ refusal' \in [rev : Revisions \union {None}, until : Nat]
           /\ met' \subseteq Nat
<1>1. met' \subseteq Nat
  BY DEF TypeOK, Record
<1> QED
  BY <1>1 DEF TypeOK, Record, MaxOf

LEMMA ReleaseFields ==
    ASSUME TypeOK, NEW p \in Procs, ReleaseFile(p)
    PROVE  /\ file' \in Leases
           /\ file'.token = file.token
           /\ file'.nextAllowedAt = file.nextAllowedAt
           /\ file'.refusal = file.refusal
           /\ file'.lastAccount = file.lastAccount
           /\ file'.owner # None => file' = file
<1>1. file \in Leases
  BY DEF TypeOK
<1>2. CASE file' = file
  BY <1>1, <1>2
<1>3. CASE file' = [file EXCEPT !.owner = None, !.expiresAt = 0]
  BY <1>1, <1>3 DEF Leases
<1> QED
  BY <1>2, <1>3 DEF ReleaseFile

(* Type correctness, one action at a time.                                  *)
LEMMA TypeStep ==
    ASSUME TypeOK, [Next]_vars
    PROVE  TypeOK'
<1> USE DEF shared, local, round, ghosts
<1>0. /\ {"idle", "asking", "locked", "leased", "held", "ready", "cleared",
           "sent", "answered", "writing", "done"} \subseteq Labels
      /\ {"ok", "limited", "refused", "expired"} \subseteq Kinds
      /\ \A p \in Procs : Answers(p) \subseteq Kinds
  BY DEF Labels, Kinds, Answers
<1>r. ASSUME RoundOK', now' = now, login' = login, file' \in Leases, doc' \in Deadlines,
             gate' \in Desktops \union {None}, healthy' \subseteq Desktops,
             faults' \in 0 .. MaxFaults, limited' \in Nat,
             refusal' \in [rev : Revisions \union {None}, until : Nat],
             torn' \subseteq Procs, met' \subseteq Nat
      PROVE  TypeOK'
  BY <1>r DEF TypeOK, RoundOK
<1>q. ASSUME RoundOK', UNCHANGED <<shared, local, ghosts>>
      PROVE  TypeOK'
  BY <1>q DEF TypeOK, RoundOK
<1>z. /\ file \in Leases /\ 0 \in Nat /\ file.nextAllowedAt \in Nat
      /\ file.refusal \in Named \union {None}
  BY DEF TypeOK, Leases
<1>f. ASSUME Fault PROVE faults' \in 0 .. MaxFaults
  BY <1>f, ConstantsAssumption DEF TypeOK, Fault
<1>t. CASE Tick
  <2>1. met' \subseteq Nat
    BY <1>t DEF TypeOK, Tick
  <2>2. now' \in 0 .. MaxTime /\ at' \in [Procs -> 0 .. now']
    BY <1>t, ConstantsAssumption DEF TypeOK, Tick
  <2>3. limited' \in Nat /\ refusal' \in [rev : Revisions \union {None}, until : Nat]
    BY <1>t DEF TypeOK, Tick, Ahead, Clean
  <2> QED
    BY <1>t, <2>1, <2>2, <2>3 DEF TypeOK, Tick
<1>o. ASSUME NEW a \in Accounts, RotateLogin(a) PROVE TypeOK'
  BY <1>o, ConstantsAssumption DEF TypeOK, RotateLogin
<1>c. ASSUME NEW c \in Clis, CliStep(c) PROVE TypeOK'
  <2> c \in Procs /\ Home \in Accounts
    BY ConstantsAssumption DEF Procs
  <2>0. Revision(Home) \in Named
    BY RevisionType DEF Named
  <2>1. CASE Ask(c)
    <3>1. PICK r \in {Revision(Home), None} : rev' = [rev EXCEPT ![c] = r]
      BY <2>1 DEF Ask
    <3>2. RoundOK'
      BY <1>0, <2>0, <2>1, <3>1 DEF TypeOK, RoundOK, Ask, Recent
    <3> QED
      BY <1>q, <2>1, <3>2 DEF Ask
  <2>2. CASE AcquireCli(c)
    <3>1. CASE Forget(c, "idle") /\ UNCHANGED file
      BY <1>0, <1>q, <2>2, <3>1, ForgetType DEF AcquireCli
    <3>2. CASE Hold(c) /\ file' \in Leases
      BY <1>r, <2>2, <3>2, HoldType DEF AcquireCli, TypeOK
    <3>3. file' \in Leases
      <4>1. /\ Grant(c, file.nextAllowedAt, file.refusal, None) \in Leases
            /\ Grant(c, 0, None, None) \in Leases
        BY <1>z, GrantType
      <4> QED
        BY <1>z, <2>2, <4>1 DEF AcquireCli
    <3> QED
      BY <2>2, <3>1, <3>2, <3>3 DEF AcquireCli
  <2>3. CASE Prepare(c)
    <3>1. CASE Forget(c, "done")
      BY <1>0, <1>q, <2>3, <3>1, ForgetType DEF Prepare
    <3>2. CASE ~Forget(c, "done")
      <4>0. \A v \in 0 .. login[Home] : <<Home, v>> \in Named
        BY ConstantsAssumption DEF TypeOK, Named, Revisions
      <4>1. RoundOK'
        BY <1>0, <2>0, <2>3, <3>2, <4>0 DEF TypeOK, RoundOK, Prepare
      <4> QED
        BY <1>q, <2>3, <4>1 DEF Prepare
    <3> QED
      BY <3>1, <3>2
  <2>4. CASE Clear(c)
    BY <1>0, <1>q, <2>4, ForgetType, GotoType DEF Clear
  <2>5. CASE SendCli(c)
    BY <1>0, <1>q, <2>5, GotoType DEF SendCli
  <2>6. CASE CompleteCli(c)
    <3>1. RoundOK'
      BY <1>0, <2>6, ForgetType DEF CompleteCli
    <3>0. faults' \in 0 .. MaxFaults
      BY <1>f, <2>6 DEF CompleteCli, TypeOK
    <3>2. CASE UNCHANGED <<file, limited, refusal, met>>
      BY <1>r, <2>6, <3>0, <3>1, <3>2 DEF CompleteCli, TypeOK
    <3>3. ASSUME NEW u \in Instants(c), file' = Completed(c, u), Record(c, u)
          PROVE  TypeOK'
      BY <1>r, <2>6, <3>0, <3>1, <3>3, InstantAhead, CompletedType, RecordType DEF CompleteCli, TypeOK
    <3> QED
      BY <2>6, <3>2, <3>3 DEF CompleteCli
  <2> QED
    BY <1>c, <2>1, <2>2, <2>3, <2>4, <2>5, <2>6 DEF CliStep
<1>d. ASSUME NEW d \in Desktops, DesktopStep(d) PROVE TypeOK'
  <2> d \in Procs
    BY DEF Procs
  <2>a. acct[d] \in Accounts /\ at[d] \in Nat /\ rev[d] \in Named \union {None} /\ due[d] \in Nat
    BY DEF TypeOK
  <2>b. doc \in Deadlines /\ doc.accounts \in [Accounts -> Nat]
        /\ doc.refusals \in [Accounts -> Named \union {None}] /\ doc.nextRequestAt \in Nat
    BY DEF TypeOK, Deadlines
  <2>1. CASE Detect(d)
    <3>1. PICK a \in Accounts : /\ acct' = [acct EXCEPT ![d] = a]
                                /\ \E r \in {Revision(a), Unreadable} : rev' = [rev EXCEPT ![d] = r]
      BY <2>1 DEF Detect
    <3>2. Revision(a) \in Named /\ Unreadable \in Named
      BY RevisionType DEF Named
    <3>3. RoundOK'
      BY <1>0, <2>1, <3>1, <3>2 DEF TypeOK, RoundOK, Detect, Recent
    <3> QED
      BY <1>q, <2>1, <3>3 DEF Detect
  <2>2. CASE LockDocument(d)
    <3>1. RoundOK'
      BY <1>0, <2>2, ForgetType, GotoType DEF LockDocument
    <3> QED
      BY <1>r, <2>2, <3>1 DEF LockDocument, TypeOK
  <2>3. CASE Admit(d)
    <3>1. RoundOK'
      BY <1>0, <2>3, ForgetType, GotoType DEF Admit
    <3>2. file' \in Leases
      <4>1. /\ Grant(d, file.nextAllowedAt, file.refusal, acct[d]) \in Leases
            /\ Grant(d, 0, None, acct[d]) \in Leases
        BY <1>z, <2>a, GrantType
      <4> QED
        BY <2>3, <1>z, <4>1 DEF Admit, GrantDesktop
    <3> QED
      BY <1>r, <2>3, <3>1, <3>2 DEF Admit, TypeOK
  <2>4. CASE Reserve(d)
    <3>1. RoundOK'
      BY <1>0, <2>4, ForgetType, HoldType DEF Reserve
    <3>2. file' \in Leases
      BY <2>4, ReleaseFields DEF Reserve, TypeOK
    <3>3. at[d] + Spacing \in Nat /\ at[d] + Provisional \in Nat
      BY <2>a, ConstantsAssumption
    <3>4. Opened(d).accounts \in [Accounts -> Nat] /\ Opened(d).refusals \in [Accounts -> Named \union {None}]
      BY OpenedFields DEF Deadlines
    <3>5. Rows(at[d] + Spacing, [Opened(d).accounts EXCEPT ![acct[d]] = at[d] + Provisional],
               Opened(d).refusals) \in Deadlines
      BY <2>a, <3>3, <3>4, RowsType
    <3>6. doc' \in Deadlines
      BY <2>4, <2>b, <3>5 DEF Reserve
    <3> QED
      BY <1>f, <1>r, <2>4, <3>1, <3>2, <3>6 DEF Reserve, TypeOK
  <2>5. CASE Collect(d)
    <3>1. CASE Forget(d, "done")
      BY <1>0, <1>q, <2>5, <3>1, ForgetType DEF Collect
    <3>2. CASE ~Forget(d, "done")
      <4>1. Revision(acct[d]) \in Named
        BY <2>a, RevisionType DEF Named
      <4>2. RoundOK'
        BY <1>0, <2>5, <3>2, <4>1 DEF TypeOK, RoundOK, Collect
      <4> QED
        BY <1>q, <2>5, <4>2 DEF Collect
    <3> QED
      BY <3>1, <3>2
  <2>6. CASE Cancel(d)
    <3>1. RoundOK'
      BY <1>0, <2>6, ForgetType DEF Cancel
    <3>2. Rows(0, [doc.accounts EXCEPT ![acct[d]] = 0], doc.refusals) \in Deadlines
      BY <2>a, <2>b, RowsType
    <3> QED
      BY <1>f, <1>r, <2>6, <3>1, <3>2 DEF Cancel, TypeOK
  <2>7. CASE SendDesktop(d)
    BY <1>0, <1>q, <2>7, GotoType DEF SendDesktop
  <2>8. CASE CompleteDesktop(d)
    <3>0. faults' \in 0 .. MaxFaults /\ healthy' \subseteq Desktops
      BY <1>f, <2>8 DEF CompleteDesktop, TypeOK
    <3>1. CASE Forget(d, "done") /\ UNCHANGED <<file, limited, refusal, met>>
      <4>1. RoundOK'
        BY <1>0, <2>8, <3>1, ForgetType DEF CompleteDesktop
      <4> QED
        BY <1>r, <2>8, <3>0, <3>1, <4>1 DEF CompleteDesktop, TypeOK
    <3>2. ASSUME NEW u \in Instants(d), file' = Completed(d, u), Record(d, u),
                 due' = [due EXCEPT ![d] = u], pc' = [pc EXCEPT ![d] = "writing"],
                 UNCHANGED <<acct, at, rev, again, kind>>
          PROVE  TypeOK'
      <4>1. u \in Nat
        BY InstantAhead
      <4>2. RoundOK'
        BY <1>0, <2>8, <3>2, <4>1 DEF CompleteDesktop, TypeOK, RoundOK
      <4> QED
        BY <1>r, <2>8, <3>0, <3>2, <4>1, <4>2, CompletedType, RecordType DEF CompleteDesktop, TypeOK
    <3> QED
      BY <2>8, <3>1, <3>2 DEF CompleteDesktop
  <2>9. CASE WriteDocument(d)
    <3>1. RoundOK'
      BY <1>0, <2>9, ForgetType DEF WriteDocument
    <3>2. [doc.accounts EXCEPT ![acct[d]] = IF kind[d] = "blocked" THEN @ ELSE due[d]] \in [Accounts -> Nat]
      BY <2>a, <2>b
    <3>3. [doc.refusals EXCEPT ![acct[d]] = CASE kind[d] = "ok" -> None
                                             [] kind[d] \in ProviderWide -> @
                                             [] OTHER -> rev[d]]
             \in [Accounts -> Named \union {None}]
      BY <2>a, <2>b
    <3>4. Settled(d) \in Deadlines
      BY <2>a, <2>b, <3>2, <3>3, RowsType DEF Settled, MaxOf
    <3> QED
      BY <1>f, <1>r, <2>9, <3>1, <3>4 DEF WriteDocument, TypeOK
  <2>10. CASE Restart(d)
    BY <2>10 DEF Restart, TypeOK
  <2> QED
    BY <1>d, <2>1, <2>2, <2>3, <2>4, <2>5, <2>6, <2>7, <2>8, <2>9, <2>10 DEF DesktopStep
<1>p. ASSUME NEW p \in Procs, ProcStep(p) PROVE TypeOK'
  <2>a. Revision(acct[p]) \in Named
    BY RevisionType DEF TypeOK, Named
  <2>1. CASE Reply(p)
    <3>1. CASE Forget(p, "done")
      BY <1>0, <1>q, <2>1, <3>1, ForgetType DEF Reply
    <3>2. CASE ~Forget(p, "done")
      <4>1. RoundOK'
        BY <1>0, <2>1, <2>a, <3>2 DEF TypeOK, RoundOK, Reply
      <4> QED
        BY <1>q, <2>1, <4>1 DEF Reply
    <3> QED
      BY <3>1, <3>2
  <2>2. CASE Release(p)
    <3>1. RoundOK'
      BY <1>0, <2>2, ForgetType DEF Release
    <3> QED
      BY <1>r, <2>2, <3>1, ReleaseFields DEF Release, TypeOK
  <2>3. CASE Heartbeat(p)
    <3>1. now + Lease \in Nat
      BY ConstantsAssumption DEF TypeOK
    <3>2. file' \in Leases
      BY <2>3, <3>1 DEF Heartbeat, TypeOK, Leases
    <3> QED
      BY <2>3, <3>2 DEF Heartbeat, TypeOK
  <2>4. CASE Crash(p)
    <3>1. RoundOK'
      BY <1>0, <2>4, ForgetType DEF Crash
    <3>2. torn' \subseteq Procs
      BY <2>4 DEF Crash, TypeOK
    <3> QED
      BY <1>f, <1>r, <2>4, <3>1, <3>2 DEF Crash, TypeOK
  <2> QED
    BY <1>p, <2>1, <2>2, <2>3, <2>4 DEF ProcStep
<1>u. CASE UNCHANGED vars
  BY <1>u DEF vars, TypeOK
<1> QED
  BY <1>t, <1>o, <1>c, <1>d, <1>p, <1>u DEF Next

----------------------------------------------------------------------------
(* The inductive invariant.                                                 *)

(* A desktop past its lock holds it.                                        *)
Gated == Labels \ {"idle", "asking"}

GateInv == \A d \in Desktops : pc[d] \in Gated => gate = d

(* Whoever owns the lease and is still on the way to an answer finds no     *)
(* deadline ahead in the file; a lease of the tool names no account.        *)
HolderInv ==
    /\ \A p \in Procs : pc[p] \in Asking /\ Token(p) => file.nextAllowedAt <= now
    /\ \A c \in Clis : Token(c) => file.lastAccount = None

(* While a desktop reads an account, its document holds no refusal of it.   *)
Reading == {"held", "ready", "sent", "answered", "writing"}

RowInv ==
    \A d \in Desktops :
        /\ pc[d] = "leased" => Opened(d).refusals[acct[d]] = None
        /\ pc[d] \in Reading => doc.refusals[acct[d]] = None
        /\ pc[d] = "writing" => due[d] # 0

(* What still holds everyone back while a protected deadline is ahead: the  *)
(* file shows it under no refusal, no refusal of the document ends with it, *)
(* and an account the file would let through is stopped by the document, or *)
(* by the lock of the desktop that is about to write the document.          *)
HeldBack ==
    \/ \A a \in Accounts : file.lastAccount \in {None, a}
    \/ /\ doc.nextRequestAt >= limited
       /\ \A d \in Desktops : pc[d] \notin {"leased", "held"}
    \/ \E d \in Desktops :
          pc[d] = "writing" /\ kind[d] \in ProviderWide /\ due[d] = limited

LimitShown ==
    /\ limited > now
    /\ file.nextAllowedAt = limited
    /\ file.refusal = None
    /\ ~RefusalEnds(limited)
    /\ HeldBack

LimitInv == torn = {} /\ limited # 0 /\ limited \notin met => LimitShown

IInv ==
    /\ TypeOK /\ GateInv /\ HolderInv /\ RowInv
    /\ DocumentValid /\ LeaseEndsSoon /\ LimitInv

(* The holder on the way to its answer finds no protected deadline ahead.   *)
LEMMA HolderUnlimited ==
    ASSUME IInv, NEW p \in Procs, pc[p] \in Asking, Token(p)
    PROVE  limited = 0 \/ limited \in met \/ torn # {}
  BY DEF IInv, HolderInv, LimitInv, LimitShown, TypeOK, Leases

Same(q) ==
    /\ pc'[q] = pc[q] /\ acct'[q] = acct[q] /\ at'[q] = at[q]
    /\ rev'[q] = rev[q] /\ kind'[q] = kind[q] /\ due'[q] = due[q]

LEMMA OpenedSame ==
    ASSUME NEW d \in Desktops, doc' = doc, Same(d)
    PROVE  Opened(d)' = Opened(d)
  BY DEF Same, Opened, Reopens, Pruned

(* A step that leaves the document and the deadlines of the file alone and  *)
(* moves one process, without a lease it did not have.                      *)
LEMMA Frame ==
    ASSUME IInv, TypeOK', NEW p \in Procs,
           now' = now, doc' = doc, limited' = limited, met' = met, torn \subseteq torn',
           file'.token = file.token, file'.nextAllowedAt = file.nextAllowedAt,
           file'.refusal = file.refusal, file'.lastAccount = file.lastAccount,
           LeaseEndsSoon', GateInv',
           \A q \in Procs : q # p => Same(q),
           pc'[p] \notin {"leased", "held", "writing"} \/ Same(p),
           pc[p] = "writing" /\ kind[p] \in ProviderWide => Same(p) \/ torn' # {},
           pc'[p] \in Asking => pc[p] \in Asking,
           p \in Desktops /\ pc'[p] \in Reading =>
               pc[p] \in Reading /\ acct'[p] = acct[p]
    PROVE  IInv'
<1> Desktops \subseteq Procs /\ Clis \subseteq Procs
  BY DEF Procs
<1>1. HolderInv'
  BY DEF IInv, HolderInv, Token, Same
<1>2. DocumentValid'
  BY DEF IInv, DocumentValid
<1>3. RowInv'
  <2> SUFFICES ASSUME NEW d \in Desktops
               PROVE  /\ pc'[d] = "leased" => Opened(d)'.refusals[acct'[d]] = None
                      /\ pc'[d] \in Reading => doc'.refusals[acct'[d]] = None
                      /\ pc'[d] = "writing" => due'[d] # 0
    BY DEF RowInv, Reading
  <2>1. CASE Same(d)
    <3>1. Opened(d)' = Opened(d)
      BY <2>1, OpenedSame
    <3> QED
      BY <2>1, <3>1 DEF IInv, RowInv, Same
  <2>2. CASE ~Same(d)
    BY <2>2 DEF IInv, RowInv
  <2> QED
    BY <2>1, <2>2
<1>4. LimitInv'
  <2> SUFFICES ASSUME torn' = {}, limited # 0, limited \notin met
               PROVE  LimitShown'
    BY DEF LimitInv
  <2>1. LimitShown
    BY DEF IInv, LimitInv
  <2>2. ~RefusalEnds(limited)'
    BY <2>1 DEF LimitShown, RefusalEnds, Same
  <2>3. HeldBack'
    BY <2>1 DEF LimitShown, HeldBack, Same
  <2> QED
    BY <2>1, <2>2, <2>3 DEF LimitShown
<1> QED
  BY <1>1, <1>2, <1>3, <1>4 DEF IInv

LEMMA ForgetSame ==
    ASSUME TypeOK, NEW p \in Procs, NEW l \in Labels, Forget(p, l)
    PROVE  pc'[p] = l /\ pc' = [pc EXCEPT ![p] = l] /\ \A q \in Procs : q # p => Same(q)
  BY DEF TypeOK, Forget, Same

LEMMA GotoSame ==
    ASSUME TypeOK, NEW p \in Procs, NEW l \in Labels, Goto(p, l)
    PROVE  /\ pc'[p] = l /\ pc' = [pc EXCEPT ![p] = l]
           /\ acct' = acct /\ rev' = rev /\ kind' = kind
           /\ \A q \in Procs : q # p => Same(q)
  BY DEF TypeOK, Goto, Same, round

LEMMA HoldSame ==
    ASSUME TypeOK, NEW p \in Procs, Hold(p)
    PROVE  /\ pc'[p] = "held" /\ pc' = [pc EXCEPT ![p] = "held"]
           /\ acct' = acct /\ kind' = kind
           /\ \A q \in Procs : q # p => Same(q)
  BY DEF TypeOK, Hold, Same, Labels

(* A desktop that lets go of the lock, or a process that was not past it,   *)
(* leaves the others where they are.                                        *)
LEMMA GateKept ==
    ASSUME IInv, TypeOK', NEW p \in Procs,
           \A q \in Procs : q # p => Same(q),
           \/ gate' = gate /\ (p \in Desktops /\ pc'[p] \in Gated => pc[p] \in Gated)
           \/ gate' = gate /\ pc'[p] \notin Gated
           \/ pc'[p] \notin Gated /\ gate' = IF gate = p THEN None ELSE gate
    PROVE  GateInv'
  BY ConstantsAssumption DEF IInv, GateInv, Same, Procs, Gated

(* A granted lease: the file was free and showed no protected deadline.     *)
LEMMA GrantStep ==
    ASSUME IInv, TypeOK', GateInv', NEW p \in Procs,
           NEW n \in Nat, NEW r, NEW a, file' = Grant(p, n, r, a),
           n <= at[p], p \in Clis => a = None,
           limited = 0 \/ limited \in met \/ torn # {},
           UNCHANGED <<now, doc, limited, torn, met>>,
           \A q \in Procs : q # p => Same(q),
           pc[p] # "writing",
           \/ p \in Clis /\ pc'[p] = "held"
           \/ p \in Desktops /\ pc'[p] = "leased"
              /\ (Opened(p).refusals[acct[p]] = None)
              /\ acct' = acct /\ at' = at /\ rev' = rev
    PROVE  IInv'
<1> Desktops \subseteq Procs /\ Clis \subseteq Procs /\ Clis \intersect Desktops = {}
  BY ConstantsAssumption DEF Procs
<1>1. /\ file'.token = p /\ file'.nextAllowedAt = n /\ file'.lastAccount = a
      /\ file'.expiresAt = at[p] + Lease
  BY DEF Grant
<1>2. at[p] \in Nat /\ at[p] <= now /\ now \in Nat /\ Lease \in Nat
  BY ConstantsAssumption DEF IInv, TypeOK
<1>3. HolderInv'
  BY <1>1, <1>2 DEF HolderInv, Token
<1>4. DocumentValid'
  BY DEF IInv, DocumentValid
<1>5. LeaseEndsSoon'
  BY <1>1, <1>2 DEF LeaseEndsSoon
<1>6. RowInv'
  <2> SUFFICES ASSUME NEW d \in Desktops
               PROVE  /\ pc'[d] = "leased" => Opened(d)'.refusals[acct'[d]] = None
                      /\ pc'[d] \in Reading => doc'.refusals[acct'[d]] = None
                      /\ pc'[d] = "writing" => due'[d] # 0
    BY DEF RowInv, Reading
  <2>1. CASE d # p
    <3>1. Same(d)
      BY <2>1
    <3>2. Opened(d)' = Opened(d)
      BY <3>1, OpenedSame
    <3> QED
      BY <3>1, <3>2 DEF IInv, RowInv, Same
  <2>2. CASE d = p
    <3>1. Opened(d)' = Opened(d)
      BY <2>2 DEF Opened, Reopens, Pruned
    <3> QED
      BY <2>2, <3>1 DEF Reading
  <2> QED
    BY <2>1, <2>2
<1>7. LimitInv'
  BY DEF LimitInv
<1> QED
  BY <1>3, <1>4, <1>5, <1>6, <1>7 DEF IInv

(* The steps of the command line tool.                                      *)
LEMMA CliKeeps ==
    ASSUME IInv, TypeOK', NEW c \in Clis, CliStep(c)
    PROVE  IInv'
<1> USE DEF shared, local, round, ghosts
<1> c \in Procs /\ c \notin Desktops
  BY ConstantsAssumption DEF Procs
<1> TypeOK
  BY DEF IInv
<1>0. {"idle", "asking", "held", "ready", "cleared", "sent", "answered", "done"} \subseteq Labels
  BY DEF Labels
<1>e. LeaseEndsSoon
  BY DEF IInv
<1>q. ASSUME UNCHANGED <<now, file, doc, gate, limited, torn, met>>,
             \A q \in Procs : q # c => Same(q),
             pc'[c] \notin {"leased", "held", "writing"}, pc[c] # "writing",
             pc'[c] \in Asking => pc[c] \in Asking
      PROVE  IInv'
  <2>1. LeaseEndsSoon'
    BY <1>e, <1>q DEF LeaseEndsSoon
  <2>2. GateInv'
    BY <1>q, GateKept
  <2> QED
    BY <1>q, <2>1, <2>2, Frame
<1>1. CASE Ask(c)
  <2>1. \A q \in Procs : q # c => Same(q)
    BY <1>1 DEF Ask, Same, TypeOK
  <2>2. pc'[c] = "asking" /\ pc[c] = "idle"
    BY <1>1, <1>0 DEF Ask, TypeOK
  <2> QED
    BY <1>1, <1>q, <2>1, <2>2 DEF Ask, Asking
<1>2. CASE AcquireCli(c)
  <2>a. /\ at[c] \in Nat /\ at[c] <= now /\ now \in Nat /\ limited \in Nat
        /\ file.nextAllowedAt \in Nat
    BY DEF TypeOK, Leases
  <2>1. CASE Forget(c, "idle") /\ UNCHANGED file
    <3>1. pc'[c] = "idle" /\ \A q \in Procs : q # c => Same(q)
      BY <1>0, <2>1, ForgetSame
    <3> QED
      BY <1>2, <1>q, <2>1, <3>1 DEF AcquireCli, Asking
  <2>2. ASSUME NEW n \in Nat, NEW r, file' = Grant(c, n, r, None), n <= at[c], Hold(c),
               limited = 0 \/ limited \in met \/ torn # {}
        PROVE  IInv'
    <3>1. pc'[c] = "held" /\ \A q \in Procs : q # c => Same(q)
      BY <2>2, HoldSame
    <3>2. GateInv'
      BY <1>2, <3>1, GateKept DEF AcquireCli
    <3> QED
      BY <1>2, <2>2, <3>1, <3>2, GrantStep DEF AcquireCli
  <2>3. ASSUME Rotated(c) PROVE limited = 0 \/ limited \in met \/ torn # {}
    BY <2>3 DEF IInv, LimitInv, LimitShown, Rotated
  <2>4. ASSUME file.nextAllowedAt <= at[c] PROVE limited = 0 \/ limited \in met \/ torn # {}
    BY <2>4, <2>a DEF IInv, LimitInv, LimitShown
  <2>5. 0 <= at[c]
    BY <2>a
  <2> QED
    BY <1>2, <2>1, <2>2, <2>3, <2>4, <2>5, <2>a DEF AcquireCli
<1>3. CASE Prepare(c)
  <2>1. CASE Forget(c, "done")
    <3>1. pc'[c] = "done" /\ \A q \in Procs : q # c => Same(q)
      BY <1>0, <2>1, ForgetSame
    <3> QED
      BY <1>3, <1>q, <3>1 DEF Prepare, Asking
  <2>2. CASE ~Forget(c, "done")
    <3>1. /\ pc'[c] \in {"ready", "answered"} /\ pc[c] = "held"
          /\ \A q \in Procs : q # c => Same(q)
      BY <1>3, <2>2 DEF Prepare, Same, TypeOK
    <3> QED
      BY <1>3, <1>q, <3>1 DEF Prepare, Asking
  <2> QED
    BY <2>1, <2>2
<1>4. CASE Clear(c)
  <2>1. pc'[c] \in {"cleared", "done"} /\ \A q \in Procs : q # c => Same(q)
    BY <1>0, <1>4, ForgetSame, GotoSame DEF Clear
  <2> QED
    BY <1>4, <1>q, <2>1 DEF Clear, Asking
<1>5. CASE SendCli(c)
  <2>1. pc'[c] = "sent" /\ \A q \in Procs : q # c => Same(q)
    BY <1>0, <1>5, GotoSame DEF SendCli
  <2> QED
    BY <1>5, <1>q, <2>1 DEF SendCli, Asking
<1>6. CASE CompleteCli(c)
  <2>1. /\ pc'[c] = "done" /\ pc[c] = "answered"
        /\ \A q \in Procs : q # c => Same(q)
    BY <1>0, <1>6, ForgetSame DEF CompleteCli
  <2>2. CASE UNCHANGED <<file, limited, refusal, met>>
    BY <1>6, <1>q, <2>1, <2>2 DEF CompleteCli, Asking
  <2>3. ASSUME NEW u \in Instants(c), Token(c), file' = Completed(c, u), Record(c, u)
        PROVE  IInv'
    <3>a. u \in Nat /\ u > now /\ now \in Nat
      BY InstantAhead DEF TypeOK
    <3>b. /\ file'.owner = file.owner /\ file'.expiresAt = file.expiresAt
          /\ file'.token = file.token /\ file'.lastAccount = file.lastAccount
          /\ file'.nextAllowedAt = u
          /\ ~Refuses(kind[c]) => file'.refusal = None
      BY <2>3, <3>a, CompletedType
    <3>c. UNCHANGED <<now, doc, gate, torn>>
      BY <1>6 DEF CompleteCli
    <3>d. limited = 0 \/ limited \in met \/ torn # {}
      BY <2>1, <2>3, HolderUnlimited DEF Asking
    <3>1. GateInv'
      BY <2>1, <3>c, GateKept
    <3>2. HolderInv'
      BY <2>1, <2>3, <3>b, <3>c DEF IInv, HolderInv, Token, Same, Asking, Procs
    <3>3. RowInv'
      <4> SUFFICES ASSUME NEW d \in Desktops
                   PROVE  /\ pc'[d] = "leased" => Opened(d)'.refusals[acct'[d]] = None
                          /\ pc'[d] \in Reading => doc'.refusals[acct'[d]] = None
                          /\ pc'[d] = "writing" => due'[d] # 0
        BY DEF RowInv, Reading
      <4>1. Same(d)
        BY <2>1 DEF Procs
      <4> QED
        BY <3>c, <4>1, OpenedSame DEF IInv, RowInv, Same
    <3>4. DocumentValid' /\ LeaseEndsSoon'
      BY <1>e, <3>b, <3>c DEF IInv, DocumentValid, LeaseEndsSoon
    <3>5. LimitInv'
      <4> SUFFICES ASSUME torn' = {}, limited' # 0, limited' \notin met'
                   PROVE  LimitShown'
        BY DEF LimitInv
      <4>1. limited' = u /\ Protected(kind[c])
        BY <2>3, <3>a, <3>c, <3>d DEF Record, MaxOf, TypeOK
      <4>2. ~Refuses(kind[c]) /\ ~RefusalEnds(u)
        BY <2>3, <4>1 DEF Protected, ProviderWide, Refuses, Record
      <4>3. ~RefusalEnds(limited)'
        BY <2>1, <3>a, <3>c, <4>1, <4>2 DEF RefusalEnds, Same, Procs
      <4>4. HeldBack'
        BY <2>3, <3>b DEF HeldBack, IInv, HolderInv
      <4> QED
        BY <3>a, <3>b, <3>c, <4>1, <4>2, <4>3, <4>4 DEF LimitShown
    <3> QED
      BY <3>1, <3>2, <3>3, <3>4, <3>5 DEF IInv
  <2> QED
    BY <1>6, <2>2, <2>3 DEF CompleteCli
<1> QED
  BY <1>1, <1>2, <1>3, <1>4, <1>5, <1>6 DEF CliStep

(* The clock and the vendor's own tool.                                     *)
LEMMA EnvironmentKeeps ==
    ASSUME IInv, TypeOK',
           \/ Tick
           \/ \E a \in Accounts : RotateLogin(a)
           \/ UNCHANGED vars
    PROVE  IInv'
<1> USE DEF shared, local, round, ghosts
<1>1. ASSUME UNCHANGED <<file, local, pc, round, torn>>, now' \in Nat, now' >= now,
             limited' = limited \/ limited' = 0, limited' # 0 => limited' > now',
             met' = {u \in met : now' < u}
      PROVE  IInv'
  <2>a. now \in Nat /\ file.nextAllowedAt \in Nat /\ file.expiresAt \in Nat /\ Lease \in Nat
    BY ConstantsAssumption DEF IInv, TypeOK, Leases
  <2>1. GateInv' /\ DocumentValid'
    BY <1>1 DEF IInv, GateInv, DocumentValid
  <2>2. HolderInv' /\ LeaseEndsSoon'
    BY <1>1, <2>a DEF IInv, HolderInv, LeaseEndsSoon, Token
  <2>3. RowInv'
    <3>1. \A d \in Desktops : Opened(d)' = Opened(d)
      BY <1>1 DEF Opened, Reopens, Pruned
    <3> QED
      BY <1>1, <3>1 DEF IInv, RowInv
  <2>4. LimitInv'
    BY <1>1 DEF IInv, LimitInv, LimitShown, HeldBack, RefusalEnds
  <2> QED
    BY <2>1, <2>2, <2>3, <2>4 DEF IInv
<1>a. now \in Nat /\ limited \in Nat
  BY DEF IInv, TypeOK
<1>2. CASE Tick
  BY <1>1, <1>2, <1>a DEF Tick, Ahead
<1>3. CASE UNCHANGED <<now, file, local, pc, round, ghosts>>
  <2>1. GateInv' /\ DocumentValid' /\ HolderInv' /\ LeaseEndsSoon'
    BY <1>3 DEF IInv, GateInv, DocumentValid, HolderInv, LeaseEndsSoon, Token
  <2>2. \A d \in Desktops : Opened(d)' = Opened(d)
    BY <1>3 DEF Opened, Reopens, Pruned
  <2>3. RowInv'
    BY <1>3, <2>2 DEF IInv, RowInv
  <2>4. LimitInv'
    BY <1>3 DEF IInv, LimitInv, LimitShown, HeldBack, RefusalEnds
  <2> QED
    BY <2>1, <2>3, <2>4 DEF IInv
<1> QED
  BY <1>2, <1>3 DEF RotateLogin, vars

(* The steps both kinds of process take.                                    *)
LEMMA ProcKeeps ==
    ASSUME IInv, TypeOK', NEW p \in Procs, ProcStep(p)
    PROVE  IInv'
<1> USE DEF shared, local, round, ghosts
<1> TypeOK
  BY DEF IInv
<1>0. {"idle", "ready", "answered", "done"} \subseteq Labels
  BY DEF Labels
<1>e. LeaseEndsSoon
  BY DEF IInv
<1>1. CASE Reply(p)
  <2>1. /\ pc[p] = "sent"
        /\ pc'[p] \in {"ready", "answered", "done"}
        /\ pc'[p] # "done" => acct'[p] = acct[p]
        /\ \A q \in Procs : q # p => Same(q)
    <3>1. CASE Forget(p, "done")
      BY <1>0, <1>1, <3>1, ForgetSame DEF Reply
    <3>2. CASE ~Forget(p, "done")
      BY <1>1, <3>2 DEF Reply, Same, TypeOK
    <3> QED
      BY <3>1, <3>2
  <2>2. LeaseEndsSoon'
    BY <1>1, <1>e DEF Reply, LeaseEndsSoon
  <2>3. GateInv'
    BY <1>0, <1>1, <2>1, GateKept DEF Reply, Gated, Labels
  <2> QED
    BY <1>1, <2>1, <2>2, <2>3, Frame DEF Reply, Asking, Reading
<1>2. CASE Release(p)
  <2>1. pc[p] = "done" /\ pc'[p] = "idle" /\ \A q \in Procs : q # p => Same(q)
    BY <1>0, <1>2, ForgetSame DEF Release
  <2>2. /\ file'.token = file.token /\ file'.nextAllowedAt = file.nextAllowedAt
        /\ file'.refusal = file.refusal /\ file'.lastAccount = file.lastAccount
        /\ file'.owner # None => file' = file
    BY <1>2, ReleaseFields DEF Release
  <2>3. LeaseEndsSoon'
    BY <1>2, <1>e, <2>2 DEF Release, LeaseEndsSoon
  <2>4. GateInv'
    BY <1>2, <2>1, GateKept DEF Release, Gated
  <2> QED
    BY <1>2, <2>1, <2>2, <2>3, <2>4, Frame DEF Release, Asking, Reading
<1>3. CASE Heartbeat(p)
  <2>1. \A q \in Procs : Same(q)
    BY <1>3 DEF Heartbeat, Same
  <2>2. /\ file'.token = file.token /\ file'.nextAllowedAt = file.nextAllowedAt
        /\ file'.refusal = file.refusal /\ file'.lastAccount = file.lastAccount
        /\ file'.expiresAt = now + Lease
    BY <1>3 DEF Heartbeat, TypeOK, Leases
  <2>3. LeaseEndsSoon'
    BY <1>3, <2>2, ConstantsAssumption DEF Heartbeat, LeaseEndsSoon, TypeOK
  <2>4. GateInv'
    BY <1>3 DEF Heartbeat, GateInv, IInv
  <2> QED
    BY <1>3, <2>1, <2>2, <2>3, <2>4, Frame DEF Heartbeat, Same
<1>4. CASE Crash(p)
  <2>1. pc'[p] = "idle" /\ \A q \in Procs : q # p => Same(q)
    BY <1>0, <1>4, ForgetSame DEF Crash
  <2>2. LeaseEndsSoon'
    BY <1>4, <1>e DEF Crash, LeaseEndsSoon
  <2>3. GateInv'
    BY <1>4, <2>1, GateKept DEF Crash, Gated
  <2>4. torn \subseteq torn' /\ (pc[p] = "writing" /\ kind[p] \in ProviderWide => torn' # {})
    BY <1>4 DEF Crash
  <2> QED
    BY <1>4, <2>1, <2>2, <2>3, <2>4, Frame DEF Crash, Asking, Reading
<1> QED
  BY <1>1, <1>2, <1>3, <1>4 DEF ProcStep

(* The desktop past its lock is alone there.                                *)
LEMMA Alone ==
    ASSUME IInv, NEW d \in Desktops, pc[d] \in Gated
    PROVE  gate = d /\ \A e \in Desktops : pc[e] \in Gated => e = d
  BY DEF IInv, GateInv

(* begin: a granted lease finds no protected deadline ahead.  A refusal     *)
(* that ends lets nothing else through, and an account the file does not    *)
(* hold back is stopped by the document.                                    *)
LEMMA AdmitUnlimited ==
    ASSUME IInv, NEW d \in Desktops, pc[d] = "locked", Admits(d), GrantDesktop(d)
    PROVE  limited = 0 \/ limited \in met \/ torn # {}
<1> d \in Procs /\ TypeOK
  BY DEF Procs, IInv
<1> SUFFICES ASSUME limited # 0, limited \notin met, torn = {} PROVE FALSE
  OBVIOUS
<1>1. LimitShown
  BY DEF IInv, LimitInv
<1>2. /\ acct[d] \in Accounts /\ at[d] \in Nat /\ at[d] <= now /\ now \in Nat
      /\ limited \in Nat /\ doc.accounts[acct[d]] \in Nat /\ doc.nextRequestAt \in Nat
  BY DEF TypeOK, Deadlines
<1>3. CASE EndsRefusal(d)
  <2>1. ~Rotated(d)
    BY <1>1 DEF LimitShown, Rotated
  <2>2. Reopens(d) /\ doc.accounts[acct[d]] = limited
    BY <1>1, <1>3, <2>1 DEF EndsRefusal, LimitShown
  <2>3. doc.refusals[acct[d]] # None
    BY <1>2, <2>2, PrunedFields DEF Reopens
  <2> QED
    BY <1>1, <1>2, <2>2, <2>3 DEF LimitShown, RefusalEnds
<1>4. CASE file.nextAllowedAt <= at[d]
  BY <1>1, <1>2, <1>4 DEF LimitShown
<1>5. CASE ~SameAccount(d)
  <2>1. CASE \A a \in Accounts : file.lastAccount \in {None, a}
    BY <1>2, <1>5, <2>1 DEF SameAccount
  <2>2. CASE doc.nextRequestAt >= limited
    <3>1. Ahead(at[d], doc.nextRequestAt) # 0
      BY <1>1, <1>2, <2>2 DEF Ahead, LimitShown
    <3> QED
      BY <3>1, OpenedFields DEF Admits
  <2>3. ASSUME NEW e \in Desktops, pc[e] = "writing" PROVE FALSE
    BY <2>3, Alone DEF Gated, Labels
  <2> QED
    BY <1>1, <2>1, <2>2, <2>3 DEF LimitShown, HeldBack
<1> QED
  BY <1>3, <1>4, <1>5 DEF GrantDesktop

LEMMA AdmitKeeps ==
    ASSUME IInv, TypeOK', NEW d \in Desktops, Admit(d)
    PROVE  IInv'
<1> USE DEF shared, local, round, ghosts
<1> d \in Procs /\ d \notin Clis /\ TypeOK
  BY ConstantsAssumption DEF Procs, IInv
<1>0. {"idle", "leased", "locked"} \subseteq Labels /\ pc[d] = "locked" /\ pc[d] \in Gated
  BY DEF Labels, Gated, Admit
<1>g. gate = d
  BY <1>0, Alone
<1>1. CASE Forget(d, "idle") /\ gate' = None /\ UNCHANGED file
  <2>1. pc'[d] = "idle" /\ \A q \in Procs : q # d => Same(q)
    BY <1>0, <1>1, ForgetSame
  <2>2. GateInv'
    BY <1>1, <1>g, <2>1, GateKept DEF Gated
  <2>3. LeaseEndsSoon'
    BY <1>1 DEF Admit, IInv, LeaseEndsSoon
  <2> QED
    BY <1>0, <1>1, <2>1, <2>2, <2>3, Frame DEF Admit, Asking, Reading
<1>2. CASE Admits(d) /\ GrantDesktop(d) /\ Goto(d, "leased") /\ UNCHANGED gate
  <2>1. pc'[d] = "leased" /\ \A q \in Procs : q # d => Same(q)
    BY <1>0, <1>2, GotoSame
  <2>2. GateInv'
    BY <1>0, <1>2, <2>1, GateKept
  <2>3. limited = 0 \/ limited \in met \/ torn # {}
    BY <1>0, <1>2, AdmitUnlimited
  <2>a. /\ acct[d] \in Accounts /\ at[d] \in Nat /\ doc.accounts[acct[d]] \in Nat
        /\ file.nextAllowedAt \in Nat
    BY DEF TypeOK, Deadlines, Leases
  <2>4. Opened(d).refusals[acct[d]] = None
    BY <1>2, <2>a, OpenedFields DEF Admits, Ahead
  <2>5. /\ acct' = acct /\ at' = at /\ rev' = rev
        /\ UNCHANGED <<now, doc, limited, torn, met>>
    BY <1>2 DEF Admit, Goto
  <2>6. ASSUME NEW n \in Nat, NEW r, file' = Grant(d, n, r, acct[d]), n <= at[d]
        PROVE  IInv'
    BY <1>0, <2>1, <2>2, <2>3, <2>4, <2>5, <2>6, GrantStep
  <2>7. 0 \in Nat /\ 0 <= at[d]
    BY <2>a
  <2> QED
    BY <1>2, <2>6, <2>7, <2>a DEF GrantDesktop
<1> QED
  BY <1>1, <1>2 DEF Admit

(* A step of the desktop on its document: the file stays, and the others    *)
(* are not past the lock.                                                   *)
LEMMA DocumentStep ==
    ASSUME IInv, TypeOK', NEW d \in Desktops, pc[d] \in Gated,
           UNCHANGED <<now, file, gate, limited, torn, met>>,
           \A q \in Procs : q # d => Same(q),
           pc'[d] \in {"held", "done"}, pc'[d] = "held" => pc[d] = "leased",
           pc'[d] = "held" => doc'.refusals[acct'[d]] = None,
           DocumentValid',
           torn = {} /\ LimitShown => ~RefusalEnds(limited)' /\ HeldBack'
    PROVE  IInv'
<1> Desktops \subseteq Procs
  BY DEF Procs
<1>1. GateInv'
  BY GateKept
<1>2. HolderInv'
  BY DEF IInv, HolderInv, Token, Same, Asking
<1>3. RowInv'
  <2> SUFFICES ASSUME NEW e \in Desktops
               PROVE  /\ pc'[e] = "leased" => Opened(e)'.refusals[acct'[e]] = None
                      /\ pc'[e] \in Reading => doc'.refusals[acct'[e]] = None
                      /\ pc'[e] = "writing" => due'[e] # 0
    BY DEF RowInv, Reading
  <2>1. CASE e = d
    BY <2>1 DEF Reading
  <2>2. CASE e # d
    <3>1. pc'[e] \notin Gated
      BY <2>2, Alone DEF Same
    <3> QED
      BY <3>1 DEF Gated, Reading, Labels
  <2> QED
    BY <2>1, <2>2
<1>4. LeaseEndsSoon'
  BY DEF IInv, LeaseEndsSoon
<1>5. LimitInv'
  BY DEF IInv, LimitInv, LimitShown
<1> QED
  BY <1>1, <1>2, <1>3, <1>4, <1>5 DEF IInv

(* begin's reservation.  The pruned document keeps no refusal whose         *)
(* deadline it dropped, and reserving is only possible while the file holds *)
(* every account back.                                                      *)
LEMMA ReserveKeeps ==
    ASSUME IInv, TypeOK', NEW d \in Desktops, Reserve(d)
    PROVE  IInv'
<1> USE DEF shared, local, round, ghosts
<1> d \in Procs /\ TypeOK
  BY DEF Procs, IInv
<1>0. "idle" \in Labels /\ pc[d] = "leased" /\ pc[d] \in Gated
  BY DEF Labels, Gated, Reserve
<1>g. gate = d /\ \A e \in Desktops : pc[e] \in Gated => e = d
  BY <1>0, Alone
<1>a. acct[d] \in Accounts /\ at[d] \in Nat /\ doc \in Deadlines
  BY DEF TypeOK
<1>1. CASE Fault /\ ReleaseFile(d) /\ gate' = None /\ Forget(d, "idle") /\ UNCHANGED doc
  <2>1. pc'[d] = "idle" /\ \A q \in Procs : q # d => Same(q)
    BY <1>0, <1>1, ForgetSame
  <2>2. GateInv'
    BY <1>1, <1>g, <2>1, GateKept DEF Gated
  <2>3. /\ file'.token = file.token /\ file'.nextAllowedAt = file.nextAllowedAt
        /\ file'.refusal = file.refusal /\ file'.lastAccount = file.lastAccount
        /\ file'.owner # None => file' = file
    BY <1>1, ReleaseFields
  <2>4. LeaseEndsSoon'
    BY <1>1, <2>3 DEF Reserve, IInv, LeaseEndsSoon
  <2> QED
    BY <1>0, <1>1, <2>1, <2>2, <2>3, <2>4, Frame DEF Reserve, Asking, Reading
<1>2. CASE /\ doc' = Rows(at[d] + Spacing,
                          [Opened(d).accounts EXCEPT ![acct[d]] = at[d] + Provisional],
                          Opened(d).refusals)
           /\ Hold(d)
           /\ UNCHANGED <<file, gate>>
  <2>1. /\ pc'[d] = "held" /\ acct' = acct /\ \A q \in Procs : q # d => Same(q)
    BY <1>2, HoldSame
  <2>2. Opened(d).refusals[acct[d]] = None
    BY <1>0 DEF IInv, RowInv
  <2>3. /\ Opened(d).accounts \in [Accounts -> Nat]
        /\ Opened(d).refusals \in [Accounts -> Named \union {None}]
    BY OpenedFields DEF Deadlines
  <2>4. at[d] + Spacing \in Nat /\ at[d] + Provisional \in Nat
    BY <1>a, ConstantsAssumption
  <2>5. /\ doc'.accounts = [Opened(d).accounts EXCEPT ![acct[d]] = at[d] + Provisional]
        /\ doc'.refusals = Opened(d).refusals
    BY <1>2, <1>a, <2>3, <2>4, RowsType
  <2>6. ASSUME NEW a \in Accounts, doc'.refusals[a] # None
        PROVE  /\ doc'.accounts[a] = doc.accounts[a] /\ doc'.accounts[a] # 0
               /\ doc.refusals[a] # None
    <3>1. a # acct[d]
      BY <2>2, <2>5, <2>6
    <3>2. ~(doc.accounts[a] <= at[d]) /\ doc.refusals[a] # None
      BY <2>5, <2>6, OpenedFields
    <3>3. doc'.accounts[a] = Ahead(at[d], doc.accounts[a])
      BY <2>3, <2>5, <3>1, OpenedFields
    <3>4. doc.accounts[a] \in Nat
      BY <1>a DEF Deadlines
    <3> QED
      BY <1>a, <3>2, <3>3, <3>4 DEF Ahead
  <2>7. DocumentValid'
    BY <2>6 DEF DocumentValid
  <2>8. ASSUME LimitShown PROVE ~RefusalEnds(limited)' /\ HeldBack'
    <3>1. UNCHANGED <<limited, file>>
      BY <1>2 DEF Reserve
    <3>2. ~RefusalEnds(limited)'
      BY <2>1, <2>6, <2>8, <3>1 DEF LimitShown, RefusalEnds, Same, Procs
    <3>3. \A a \in Accounts : file.lastAccount \in {None, a}
      BY <1>0, <1>g, <2>8 DEF LimitShown, HeldBack, Gated, Labels
    <3> QED
      BY <3>1, <3>2, <3>3 DEF HeldBack
  <2>9. doc'.refusals[acct'[d]] = None
    BY <2>1, <2>2, <2>5
  <2> QED
    BY <1>0, <1>2, <2>1, <2>7, <2>8, <2>9, DocumentStep DEF Reserve
<1> QED
  BY <1>1, <1>2 DEF Reserve

LEMMA CancelKeeps ==
    ASSUME IInv, TypeOK', NEW d \in Desktops, Cancel(d)
    PROVE  IInv'
<1> USE DEF shared, local, round, ghosts
<1> d \in Procs /\ TypeOK
  BY DEF Procs, IInv
<1>0. "done" \in Labels /\ pc[d] = "held" /\ pc[d] \in Gated
  BY DEF Labels, Gated, Cancel
<1>g. gate = d /\ \A e \in Desktops : pc[e] \in Gated => e = d
  BY <1>0, Alone
<1>1. pc'[d] = "done" /\ \A q \in Procs : q # d => Same(q)
  BY <1>0, ForgetSame DEF Cancel
<1>2. CASE UNCHANGED doc
  <2>1. GateInv'
    BY <1>0, <1>1, GateKept DEF Cancel
  <2>2. LeaseEndsSoon'
    BY DEF Cancel, IInv, LeaseEndsSoon
  <2> QED
    BY <1>0, <1>1, <1>2, <2>1, <2>2, Frame DEF Cancel, Asking, Reading
<1>3. CASE doc' = Rows(0, [doc.accounts EXCEPT ![acct[d]] = 0], doc.refusals)
  <2>a. /\ acct[d] \in Accounts /\ doc.accounts \in [Accounts -> Nat]
        /\ doc.refusals \in [Accounts -> Named \union {None}]
    BY DEF TypeOK, Deadlines
  <2>1. /\ doc'.accounts = [doc.accounts EXCEPT ![acct[d]] = 0]
        /\ doc'.refusals = doc.refusals
    BY <1>3 DEF Rows
  <2>2. doc.refusals[acct[d]] = None
    BY <1>0 DEF IInv, RowInv, Reading
  <2>3. DocumentValid'
    BY <2>1, <2>2, <2>a DEF DocumentValid, IInv
  <2>4. ASSUME LimitShown PROVE ~RefusalEnds(limited)' /\ HeldBack'
    <3>1. UNCHANGED <<limited, file>>
      BY DEF Cancel
    <3>2. ~RefusalEnds(limited)'
      BY <1>1, <2>1, <2>2, <2>4, <2>a, <3>1 DEF LimitShown, RefusalEnds, Same, Procs
    <3>3. \A a \in Accounts : file.lastAccount \in {None, a}
      BY <1>0, <1>g, <2>4 DEF LimitShown, HeldBack, Gated, Labels
    <3> QED
      BY <3>1, <3>2, <3>3 DEF HeldBack
  <2> QED
    BY <1>0, <1>1, <2>3, <2>4, DocumentStep DEF Cancel
<1> QED
  BY <1>2, <1>3 DEF Cancel

(* complete_shared: until the document has the deadline, the lock does its  *)
(* work.                                                                    *)
LEMMA CompleteDesktopKeeps ==
    ASSUME IInv, TypeOK', NEW d \in Desktops, CompleteDesktop(d)
    PROVE  IInv'
<1> USE DEF shared, local, round, ghosts
<1> d \in Procs /\ d \notin Clis /\ TypeOK
  BY ConstantsAssumption DEF Procs, IInv
<1>0. "done" \in Labels /\ "writing" \in Labels /\ pc[d] = "answered" /\ pc[d] \in Gated
  BY DEF Labels, Gated, CompleteDesktop
<1>1. CASE Forget(d, "done") /\ UNCHANGED <<file, limited, refusal, met>>
  <2>1. pc'[d] = "done" /\ \A q \in Procs : q # d => Same(q)
    BY <1>0, <1>1, ForgetSame
  <2>2. GateInv'
    BY <1>0, <2>1, GateKept DEF CompleteDesktop
  <2>3. LeaseEndsSoon'
    BY <1>1 DEF CompleteDesktop, IInv, LeaseEndsSoon
  <2> QED
    BY <1>0, <1>1, <2>1, <2>2, <2>3, Frame DEF CompleteDesktop, Asking, Reading
<1>2. ASSUME NEW u \in Instants(d), Token(d), file' = Completed(d, u),
             due' = [due EXCEPT ![d] = u], Record(d, u),
             pc' = [pc EXCEPT ![d] = "writing"],
             UNCHANGED <<acct, at, rev, again, kind>>
      PROVE  IInv'
  <2>a. u \in Nat /\ u > now /\ now \in Nat
    BY InstantAhead DEF TypeOK
  <2>b. pc'[d] = "writing" /\ due'[d] = u /\ \A q \in Procs : q # d => Same(q)
    BY <1>2 DEF TypeOK, Same
  <2>c. UNCHANGED <<now, doc, gate, torn>>
    BY DEF CompleteDesktop
  <2>d. limited = 0 \/ limited \in met \/ torn # {}
    BY <1>0, <1>2, HolderUnlimited DEF Asking
  <2>e. file.nextAllowedAt \in Nat /\ file.nextAllowedAt <= now
    BY <1>0, <1>2 DEF IInv, HolderInv, Asking, TypeOK, Leases
  <2>f. /\ file'.owner = file.owner /\ file'.expiresAt = file.expiresAt
        /\ file'.token = file.token /\ file'.lastAccount = file.lastAccount
        /\ file'.nextAllowedAt = u
        /\ ~Refuses(kind[d]) => file'.refusal = None
    BY <1>2, <2>a, <2>e, CompletedType DEF MaxOf
  <2>1. GateInv'
    BY <1>0, <2>b, <2>c, GateKept
  <2>2. HolderInv'
    BY <1>2, <2>b, <2>f DEF IInv, HolderInv, Token, Asking, Procs
  <2>3. RowInv'
    <3> SUFFICES ASSUME NEW e \in Desktops
                 PROVE  /\ pc'[e] = "leased" => Opened(e)'.refusals[acct'[e]] = None
                        /\ pc'[e] \in Reading => doc'.refusals[acct'[e]] = None
                        /\ pc'[e] = "writing" => due'[e] # 0
      BY DEF RowInv, Reading
    <3>1. CASE e # d
      <4>1. Same(e)
        BY <2>b, <3>1 DEF Procs
      <4> QED
        BY <2>c, <4>1, OpenedSame DEF IInv, RowInv, Same
    <3>2. CASE e = d
      BY <1>0, <1>2, <2>a, <2>b, <2>c, <3>2 DEF IInv, RowInv, Reading
    <3> QED
      BY <3>1, <3>2
  <2>4. DocumentValid' /\ LeaseEndsSoon'
    BY <2>c, <2>f DEF IInv, DocumentValid, LeaseEndsSoon
  <2>5. LimitInv'
    <3> SUFFICES ASSUME torn' = {}, limited' # 0, limited' \notin met'
                 PROVE  LimitShown'
      BY DEF LimitInv
    <3>1. limited' = u /\ Protected(kind[d])
      BY <1>2, <2>a, <2>c, <2>d DEF Record, MaxOf, TypeOK
    <3>2. ~Refuses(kind[d]) /\ ~RefusalEnds(u)
      BY <1>2, <3>1 DEF Protected, ProviderWide, Refuses, Record
    <3>3. ~RefusalEnds(limited)'
      BY <1>2, <2>a, <2>b, <2>c, <3>1, <3>2 DEF RefusalEnds, Same, Procs
    <3>4. HeldBack'
      <4>1. CASE kind[d] \in ProviderWide
        BY <1>2, <2>b, <3>1, <4>1 DEF HeldBack
      <4>2. CASE Accounts = {Home}
        <5>1. file'.lastAccount \in {Home, None}
          BY <2>f, <4>2 DEF TypeOK, Leases
        <5> QED
          BY <4>2, <5>1 DEF HeldBack
      <4> QED
        BY <3>1, <4>1, <4>2 DEF Protected
    <3> QED
      BY <2>a, <2>c, <2>f, <3>1, <3>2, <3>3, <3>4 DEF LimitShown
  <2> QED
    BY <2>1, <2>2, <2>3, <2>4, <2>5 DEF IInv
<1> QED
  BY <1>1, <1>2 DEF CompleteDesktop

(* mutate_durable: the document takes over what the lock did.               *)
LEMMA WriteDocumentKeeps ==
    ASSUME IInv, TypeOK', NEW d \in Desktops, WriteDocument(d)
    PROVE  IInv'
<1> USE DEF shared, local, round, ghosts
<1> d \in Procs /\ TypeOK
  BY DEF Procs, IInv
<1>0. "done" \in Labels /\ pc[d] = "writing" /\ pc[d] \in Gated
  BY DEF Labels, Gated, WriteDocument
<1>g. gate = d /\ \A e \in Desktops : pc[e] \in Gated => e = d
  BY <1>0, Alone
<1>1. pc'[d] = "done" /\ \A q \in Procs : q # d => Same(q)
  BY <1>0, ForgetSame DEF WriteDocument
<1>2. CASE /\ Fault /\ UNCHANGED doc
           /\ torn' = IF kind[d] \in ProviderWide THEN torn \union {d} ELSE torn
  <2>1. GateInv'
    BY <1>0, <1>1, GateKept DEF WriteDocument
  <2>2. LeaseEndsSoon'
    BY DEF WriteDocument, IInv, LeaseEndsSoon
  <2>3. torn \subseteq torn' /\ (kind[d] \in ProviderWide => torn' # {})
    BY <1>2
  <2> QED
    BY <1>0, <1>1, <1>2, <2>1, <2>2, <2>3, Frame DEF WriteDocument, Asking, Reading
<1>3. CASE doc' = Settled(d) /\ UNCHANGED torn
  <2>a. /\ acct[d] \in Accounts /\ due[d] \in Nat /\ rev[d] \in Named \union {None}
        /\ doc.accounts \in [Accounts -> Nat] /\ doc.nextRequestAt \in Nat
        /\ doc.refusals \in [Accounts -> Named \union {None}] /\ limited \in Nat
    BY DEF TypeOK, Deadlines
  <2>b. [doc.accounts EXCEPT ![acct[d]] = IF kind[d] = "blocked" THEN @ ELSE due[d]] \in [Accounts -> Nat]
    BY <2>a
  <2>c. [doc.refusals EXCEPT ![acct[d]] = CASE kind[d] = "ok" -> None
                                           [] kind[d] \in ProviderWide -> @
                                           [] OTHER -> rev[d]]
           \in [Accounts -> Named \union {None}]
    BY <2>a
  <2>d. (IF kind[d] \in ProviderWide THEN MaxOf(doc.nextRequestAt, due[d])
                                     ELSE doc.nextRequestAt) \in Nat
    BY <2>a DEF MaxOf
  <2>1. /\ doc'.nextRequestAt = IF kind[d] \in ProviderWide
                                THEN MaxOf(doc.nextRequestAt, due[d])
                                ELSE doc.nextRequestAt
        /\ doc'.accounts = [doc.accounts EXCEPT ![acct[d]] = IF kind[d] = "blocked" THEN @ ELSE due[d]]
        /\ doc'.refusals = [doc.refusals EXCEPT ![acct[d]] =
                               CASE kind[d] = "ok" -> None
                                 [] kind[d] \in ProviderWide -> @
                                 [] OTHER -> rev[d]]
    BY <1>3, <2>b, <2>c, <2>d, RowsType DEF Settled
  <2>2. doc.refusals[acct[d]] = None /\ due[d] # 0
    BY <1>0 DEF IInv, RowInv, Reading
  <2>3. DocumentValid'
    BY <2>1, <2>2, <2>a DEF DocumentValid, IInv, ProviderWide
  <2>4. ASSUME LimitShown PROVE ~RefusalEnds(limited)' /\ HeldBack'
    <3>0. UNCHANGED <<limited, file>>
      BY DEF WriteDocument
    <3>1. ASSUME NEW a \in Accounts, doc'.refusals[a] # None, doc'.accounts[a] = limited
          PROVE  FALSE
      <4>1. CASE a # acct[d]
        BY <2>1, <2>4, <2>a, <3>1, <4>1 DEF LimitShown, RefusalEnds
      <4>2. CASE a = acct[d]
        <5>1. kind[d] \in Kinds
          BY DEF TypeOK
        <5>2. Refuses(kind[d])
          BY <2>1, <2>2, <2>a, <3>1, <4>2, <5>1 DEF Kinds, ProviderWide, Refuses
        <5>3. due[d] = limited
          BY <2>1, <2>a, <3>1, <4>2, <5>2 DEF Refuses
        <5> QED
          BY <1>0, <2>4, <5>2, <5>3 DEF LimitShown, RefusalEnds
      <4> QED
        BY <4>1, <4>2
    <3>2. ~RefusalEnds(limited)'
      BY <1>1, <2>4, <3>0, <3>1 DEF LimitShown, RefusalEnds, Same, Procs
    <3>3. \A e \in Desktops : pc'[e] \notin {"leased", "held"}
      BY <1>1, <1>g DEF Same, Procs, Gated, Labels
    <3>4. doc'.nextRequestAt \in Nat /\ doc'.nextRequestAt >= doc.nextRequestAt
      BY <2>1, <2>a DEF MaxOf
    <3>5. ASSUME \A a \in Accounts : file.lastAccount \in {None, a} PROVE HeldBack'
      BY <3>0, <3>5 DEF HeldBack
    <3>6. ASSUME doc.nextRequestAt >= limited PROVE HeldBack'
      BY <2>a, <3>0, <3>3, <3>4, <3>6 DEF HeldBack
    <3>7. ASSUME NEW e \in Desktops, pc[e] = "writing", kind[e] \in ProviderWide, due[e] = limited
          PROVE  HeldBack'
      <4>1. e = d
        BY <1>g, <3>7 DEF Gated, Labels
      <4>2. doc'.nextRequestAt >= limited
        BY <2>1, <2>a, <3>7, <4>1 DEF MaxOf
      <4> QED
        BY <3>0, <3>3, <4>2 DEF HeldBack
    <3>8. HeldBack'
      BY <2>4, <3>5, <3>6, <3>7 DEF LimitShown, HeldBack
    <3> QED
      BY <3>2, <3>8
  <2> QED
    BY <1>0, <1>1, <1>3, <2>3, <2>4, DocumentStep DEF WriteDocument
<1> QED
  BY <1>2, <1>3 DEF WriteDocument

(* The steps of the desktop.                                                *)
LEMMA DesktopKeeps ==
    ASSUME IInv, TypeOK', NEW d \in Desktops, DesktopStep(d)
    PROVE  IInv'
<1> USE DEF shared, local, round, ghosts
<1> d \in Procs /\ TypeOK
  BY DEF Procs, IInv
<1>0. {"idle", "asking", "locked", "ready", "sent", "answered", "done"} \subseteq Labels
  BY DEF Labels
<1>e. LeaseEndsSoon
  BY DEF IInv
<1>1. CASE Detect(d)
  <2>1. pc[d] = "idle" /\ pc'[d] = "asking" /\ \A q \in Procs : q # d => Same(q)
    BY <1>1 DEF Detect, Same, TypeOK
  <2>2. GateInv'
    BY <1>1, <2>1, GateKept DEF Detect, Gated
  <2>3. LeaseEndsSoon'
    BY <1>1, <1>e DEF Detect, LeaseEndsSoon
  <2> QED
    BY <1>1, <2>1, <2>2, <2>3, Frame DEF Detect, Asking, Reading
<1>2. CASE LockDocument(d)
  <2>1. pc'[d] \in {"locked", "idle"} /\ \A q \in Procs : q # d => Same(q)
    BY <1>0, <1>2, ForgetSame, GotoSame DEF LockDocument
  <2>2. GateInv'
    <3>1. CASE gate = None /\ gate' = d
      <4>1. \A e \in Desktops : pc[e] \notin Gated
        BY <3>1, ConstantsAssumption DEF IInv, GateInv, Procs
      <4> QED
        BY <2>1, <3>1, <4>1 DEF GateInv, Same, Procs
    <3>2. CASE Forget(d, "idle") /\ UNCHANGED gate
      <4>1. pc'[d] = "idle"
        BY <1>0, <3>2, ForgetSame
      <4> QED
        BY <2>1, <3>2, <4>1, GateKept DEF Gated
    <3> QED
      BY <1>2, <3>1, <3>2 DEF LockDocument
  <2>3. LeaseEndsSoon'
    BY <1>2, <1>e DEF LockDocument, LeaseEndsSoon
  <2> QED
    BY <1>2, <2>1, <2>2, <2>3, Frame DEF LockDocument, Asking, Reading
<1>3. CASE Collect(d)
  <2>1. /\ pc[d] = "held" /\ pc'[d] \in {"ready", "answered", "done"}
        /\ pc'[d] # "done" => acct'[d] = acct[d]
        /\ \A q \in Procs : q # d => Same(q)
    <3>1. CASE Forget(d, "done")
      BY <1>0, <1>3, <3>1, ForgetSame DEF Collect
    <3>2. CASE ~Forget(d, "done")
      BY <1>3, <3>2 DEF Collect, Same, TypeOK
    <3> QED
      BY <3>1, <3>2
  <2>2. GateInv'
    BY <1>3, <2>1, GateKept DEF Collect, Gated, Labels
  <2>3. LeaseEndsSoon'
    BY <1>3, <1>e DEF Collect, LeaseEndsSoon
  <2> QED
    BY <1>3, <2>1, <2>2, <2>3, Frame DEF Collect, Asking, Reading
<1>4. CASE SendDesktop(d)
  <2>1. /\ pc[d] = "ready" /\ pc'[d] = "sent" /\ acct'[d] = acct[d]
        /\ \A q \in Procs : q # d => Same(q)
    BY <1>0, <1>4, GotoSame DEF SendDesktop
  <2>2. GateInv'
    BY <1>4, <2>1, GateKept DEF SendDesktop, Gated, Labels
  <2>3. LeaseEndsSoon'
    BY <1>4, <1>e DEF SendDesktop, LeaseEndsSoon
  <2> QED
    BY <1>4, <2>1, <2>2, <2>3, Frame DEF SendDesktop, Asking, Reading
<1>5. CASE Restart(d)
  <2>1. \A q \in Procs : Same(q)
    BY <1>5 DEF Restart, Same
  <2>2. GateInv' /\ LeaseEndsSoon'
    BY <1>5 DEF Restart, IInv, GateInv, LeaseEndsSoon
  <2> QED
    BY <1>5, <2>1, <2>2, Frame DEF Restart, Same
<1> QED
  BY <1>1, <1>2, <1>3, <1>4, <1>5, AdmitKeeps, ReserveKeeps, CancelKeeps,
     CompleteDesktopKeeps, WriteDocumentKeeps DEF DesktopStep

----------------------------------------------------------------------------
(* The theorems.                                                            *)

LEMMA Initially ==
    ASSUME Init
    PROVE  IInv
<1>0. {"idle"} \subseteq Labels /\ {"ok"} \subseteq Kinds
  BY DEF Labels, Kinds
<1>1. /\ [a \in Accounts |-> 0] \in [Accounts -> Nat]
      /\ [a \in Accounts |-> None] \in [Accounts -> Named \union {None}]
  OBVIOUS
<1>2. doc \in Deadlines /\ \A a \in Accounts : doc.refusals[a] = None
  BY <1>1, RowsType DEF Init
<1>3. file \in Leases /\ file.owner = None /\ file.token = None
  BY DEF Init, NoLease, Leases
<1>4. TypeOK
  BY <1>0, <1>2, <1>3, ConstantsAssumption DEF Init, TypeOK, Procs, Clean
<1>5. GateInv /\ HolderInv /\ RowInv
  BY <1>3, ConstantsAssumption DEF Init, GateInv, Gated, HolderInv, Token, Asking, RowInv,
     Reading, Procs
<1> QED
  BY <1>2, <1>3, <1>4, <1>5 DEF IInv, Init, DocumentValid, LeaseEndsSoon, LimitInv

(* Every step of every process keeps the invariant.                         *)
THEOREM Invariance == Spec => []IInv
<1>1. Init => IInv
  BY Initially
<1>2. IInv /\ [Next]_vars => IInv'
  <2> SUFFICES ASSUME IInv, [Next]_vars PROVE IInv'
    OBVIOUS
  <2>1. TypeOK'
    BY TypeStep DEF IInv
  <2> QED
    BY <2>1, CliKeeps, DesktopKeeps, ProcKeeps, EnvironmentKeeps DEF Next
<1> QED
  BY <1>1, <1>2, PTL DEF Spec

(* Every variable of the model keeps its type.                              *)
THEOREM TypeCorrect == Spec => []TypeOK
<1>1. IInv => TypeOK
  BY DEF IInv
<1> QED
  BY <1>1, Invariance, PTL

(* No process that owns the lease (acquireMachineLease,                     *)
(* acquire_account_with_refusal_change) is on its way to a provider while a *)
(* backoff any process recorded is ahead, unless a desktop died or failed   *)
(* between complete_shared and mutate_durable, or that backoff ends at the  *)
(* very instant at which a refusal ends.                                    *)
THEOREM LimitsHonoured == Spec => []HonoursLimitsUnlessTornOrMet
<1>1. IInv => HonoursLimitsUnlessTornOrMet
  BY HolderUnlimited DEF HonoursLimitsUnlessTornOrMet
<1> QED
  BY <1>1, Invariance, PTL

(* What the desktop persists always passes the rule of validate_document    *)
(* that ties a refusal to a deadline.                                       *)
THEOREM DocumentStaysValid == Spec => []DocumentValid
<1>1. IInv => DocumentValid
  BY DEF IInv
<1> QED
  BY <1>1, Invariance, PTL

(* A lease of either program, heartbeats included, ends within one lease    *)
(* time, so a dead holder blocks a provider for no longer.                  *)
THEOREM LeaseBounded == Spec => []LeaseEndsSoon
<1>1. IInv => LeaseEndsSoon
  BY DEF IInv
<1> QED
  BY <1>1, Invariance, PTL

(* While a lease runs, only the step of its holder touches the file: an     *)
(* acquisition waits for the expiry it reads at the instant it was asked,   *)
(* and complete, release and the heartbeat look at the token.               *)
THEOREM HolderWrites == Spec => OnlyHolderWrites
<1> DEFINE P == \A q \in Procs :
                   Token(q) /\ file.owner # None /\ now < file.expiresAt /\ file' # file
                     => /\ file'.token = q
                        /\ \/ pc'[q] # pc[q]
                           \/ file' = [file EXCEPT !.expiresAt = now + Lease]
<1>1. ASSUME IInv, [Next]_vars PROVE [P]_vars
  <2> USE DEF shared, local, round, ghosts
  <2> SUFFICES ASSUME NEW q \in Procs, Token(q), file.owner # None,
                      now < file.expiresAt, file' # file
               PROVE  /\ file'.token = q
                      /\ \/ pc'[q] # pc[q]
                         \/ file' = [file EXCEPT !.expiresAt = now + Lease]
    OBVIOUS
  <2> TypeOK
    BY <1>1 DEF IInv
  <2>l. {"idle", "done", "writing"} \subseteq Labels
    BY DEF Labels
  <2>t. file.token = q
    BY DEF Token
  <2>f. ASSUME NEW p \in Procs PROVE ~Free(at[p])
    <3>1. at[p] \in Nat /\ at[p] <= now /\ now \in Nat /\ file.expiresAt \in Nat
      BY DEF TypeOK, Leases
    <3> QED
      BY <3>1 DEF Free
  <2>r. ASSUME NEW p \in Procs, ReleaseFile(p), Forget(p, "idle"), pc[p] # "idle"
        PROVE  p = q /\ file'.token = q /\ pc'[q] # pc[q]
    <3>1. p = q /\ file'.token = q
      BY <2>r, <2>t, ReleaseFields DEF ReleaseFile, Token
    <3> QED
      BY <2>l, <2>r, <3>1, ForgetSame
  <2>c. ASSUME NEW p \in Procs, NEW u \in Instants(p), Token(p), file' = Completed(p, u),
               pc'[p] # pc[p]
        PROVE  file'.token = q /\ pc'[q] # pc[q]
    <3>1. u \in Nat
      BY InstantAhead
    <3> QED
      BY <2>c, <2>t, <3>1, CompletedType DEF Token
  <2>1. ASSUME NEW c \in Clis, CliStep(c) PROVE file'.token = q /\ pc'[q] # pc[q]
    <3> c \in Procs
      BY DEF Procs
    <3>1. CASE CompleteCli(c)
      <4>1. pc'[c] # pc[c]
        BY <2>l, <3>1, ForgetSame DEF CompleteCli
      <4> QED
        BY <2>c, <3>1, <4>1 DEF CompleteCli
    <3> QED
      BY <2>1, <2>f, <3>1 DEF CliStep, Ask, AcquireCli, Prepare, Clear, SendCli
  <2>2. ASSUME NEW d \in Desktops, DesktopStep(d) PROVE file'.token = q /\ pc'[q] # pc[q]
    <3> d \in Procs
      BY DEF Procs
    <3>1. CASE Reserve(d)
      BY <2>r, <3>1 DEF Reserve
    <3>2. CASE CompleteDesktop(d)
      <4>1. pc'[d] # pc[d]
        BY <2>l, <3>2, ForgetSame DEF CompleteDesktop, TypeOK
      <4> QED
        BY <2>c, <3>2, <4>1 DEF CompleteDesktop
    <3> QED
      BY <2>2, <2>f, <3>1, <3>2 DEF DesktopStep, Detect, LockDocument, Admit, Collect,
         Cancel, SendDesktop, WriteDocument, Restart
  <2>3. ASSUME NEW p \in Procs, ProcStep(p)
        PROVE  /\ file'.token = q
               /\ \/ pc'[q] # pc[q]
                  \/ file' = [file EXCEPT !.expiresAt = now + Lease]
    <3>1. CASE Release(p)
      BY <2>r, <3>1 DEF Release
    <3>2. CASE Heartbeat(p)
      BY <2>t, <3>2 DEF Heartbeat, TypeOK, Leases
    <3> QED
      BY <2>3, <3>1, <3>2 DEF ProcStep, Reply, Crash
  <2> QED
    BY <1>1, <2>1, <2>2, <2>3 DEF Next, Tick, RotateLogin, vars
<1>2. OnlyHolderWrites <=> [][P]_vars
  BY DEF OnlyHolderWrites
<1> QED
  BY <1>1, <1>2, Invariance, PTL DEF Spec

============================================================================
