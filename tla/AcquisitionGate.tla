-------------------------- MODULE AcquisitionGate --------------------------
(***************************************************************************)
(* Who may ask a provider, and when.  The command line tool and the        *)
(* desktop share one lease file per provider; the desktop keeps a second   *)
(* document of deadlines per account behind an operating system lock.      *)
(*                                                                         *)
(*   packages/core/src/cache.ts          leasePolicy, acquireMachineLease  *)
(*   packages/core/src/acquire/runner.ts attempt, runAcquisition           *)
(*   apps/desktop/.../request_policy.rs  RequestPolicy, MachineLease       *)
(*   apps/desktop/.../claude_oauth.rs    the reader inside the gate        *)
(*                                                                         *)
(* One provider.  `file' is acquisition-<provider>.json, `doc' the         *)
(* provider's entry of request-policy.json.  Each transaction on `file'    *)
(* runs inside the state lock (module StateLock) and is one step here.     *)
(* Instants are ticks of one clock; a process may stall at any step for    *)
(* any time, so a lease can expire under its holder.                       *)
(***************************************************************************)
EXTENDS Naturals, FiniteSets

CONSTANTS
    Clis,         \* refresh rounds of the command line tool, one process each
    Desktops,     \* desktop processes
    Accounts,     \* accounts the desktop detects for the provider
    Home,         \* the account whose login the command line tool reads
    None,         \* nobody, nothing
    Unreadable,   \* the revision "unavailable": a login that cannot be read
    MaxLogin,     \* bound: how often a login rotates
    MaxTime,      \* bound: the last instant
    Lag,          \* bound: how old the clock reading of a round may be
    MaxFaults,    \* bound: deaths and failed writes
    MaxAccounts,  \* MAX_ACCOUNTS_PER_PROVIDER
    Lease,        \* how long a lease lasts without a heartbeat
    Spacing,      \* PROVIDER_SPACING_SECONDS and its jitter
    Provisional,  \* PROVISIONAL_REQUEST_SECONDS
    Day,          \* BLOCKED_PROVIDER_SECONDS, how long a refusal waits
    Backoffs,     \* delays after a rate limit or a failure
    Cadences      \* delays after a successful read

Procs == Clis \union Desktops
Owners == {"cli", "desktop"}
OwnerOf(p) == IF p \in Clis THEN "cli" ELSE "desktop"

(* A login's revision is a digest of its secret: it never comes back.       *)
Revisions == Accounts \X (0 .. MaxLogin)
Named == Revisions \union {Unreadable}

Delays == {Day} \union Backoffs \union Cadences

ASSUME ConstantsAssumption ==
    /\ Clis \intersect Desktops = {}
    /\ Home \in Accounts
    /\ IsFiniteSet(Accounts)
    /\ {MaxLogin, MaxTime, Lag, MaxFaults, MaxAccounts, Lease, Spacing, Provisional} \subseteq Nat
    /\ Delays \subseteq Nat \ {0}
    /\ None \notin Procs \union Accounts \union Named \union Owners
    /\ Unreadable \notin Revisions

(* Steps of a round.  "leased": the desktop has the lease and not yet its   *)
(* reservation.  "writing": it has completed the lease and not yet its      *)
(* document.                                                                *)
Labels == {"idle", "asking", "locked", "leased", "held", "ready", "cleared",
           "sent", "answered", "writing", "done"}

(* "limited" is every answer that earns a backoff and names no login: a     *)
(* rate limit, a server error, a transport failure.  "blocked" is a         *)
(* provider the desktop's collector finds gone.  "expired" is a refusal the *)
(* desktop records without having asked.                                    *)
Kinds == {"ok", "limited", "refused", "expired", "blocked"}
Answers(p) == {"ok", "limited", "refused"} \union (IF p \in Desktops THEN {"blocked"} ELSE {})

(* The answers whose deadline is the provider's and not only the account's. *)
ProviderWide == {"limited", "blocked"}

VARIABLES
    now,      \* the clock
    login,    \* how often each account's stored login has rotated
    file,     \* acquisition-<provider>.json
    doc,      \* request-policy.json, this provider; 0 is "no deadline"
    gate,     \* who holds request-policy.lock
    healthy,  \* the desktops whose gate is open (PolicyInner.healthy)
    pc,       \* where each process is
    acct,     \* the account it reads
    at,       \* the instant it read before it asked for the lease
    rev,      \* the login it presented, then the one its request carries
    again,    \* who has already repeated a request with a reread login
    kind,     \* how its request ended
    due,      \* the deadline it has recorded in the file
    faults,   \* how many faults have happened
    limited,  \* ghost: the protected deadline recorded last, while ahead
    refusal,  \* ghost: the refusal of a login recorded last, while ahead
    torn,     \* ghost: processes that recorded a backoff in the file only
    met       \* ghost: the deadlines ahead that end at the very instant a
              \*        refusal ends and are none

shared == <<file, now, login>>
local  == <<doc, gate, healthy>>
round  == <<acct, at, rev, again, kind, due>>
ghosts == <<faults, limited, refusal, torn, met>>
vars   == <<now, login, file, doc, gate, healthy, pc, acct, at, rev, again,
            kind, due, faults, limited, refusal, torn, met>>

----------------------------------------------------------------------------
(* The lease file.                                                          *)

NoLease == [owner |-> None, expiresAt |-> 0, token |-> None,
            nextAllowedAt |-> 0, refusal |-> None, lastAccount |-> None]

Revision(a) == <<a, login[a]>>

(* leasePolicy, lease_decision: free, or its lease has run out at instant t *)
Free(t) == file.owner = None \/ file.expiresAt <= t

(* A token names one lease.  A process has one lease at a time, so it is    *)
(* named by the process; stillOwned also wants the owner and the expiry.    *)
Token(p) == file.token = p
StillOwned(p) == Token(p) /\ file.owner = OwnerOf(p) /\ now < file.expiresAt

Grant(p, next, refused, last) ==
    [owner |-> OwnerOf(p), expiresAt |-> at[p] + Lease, token |-> p,
     nextAllowedAt |-> next, refusal |-> refused, lastAccount |-> last]

(* The file refuses a login other than the one presented.                   *)
Rotated(p) == file.refusal # None /\ rev[p] # None /\ file.refusal # rev[p]

(* Mutant: the release does not look at the token. *)
ReleaseFile_Blind(p) ==
    file' = [file EXCEPT !.owner = None, !.expiresAt = 0]

(* release, Drop for MachineLease: only a lease that is still ours.          *)
ReleaseFile(p) ==
    \/ Token(p)  /\ file' = [file EXCEPT !.owner = None, !.expiresAt = 0]
    \/ ~Token(p) /\ file' = file

(* The round ends, or has only its release left: its locals are gone.       *)
Forget(p, label) ==
    /\ pc' = [pc EXCEPT ![p] = label]
    /\ again' = again \ {p}
    /\ acct' = [acct EXCEPT ![p] = Home]
    /\ at' = [at EXCEPT ![p] = 0]
    /\ rev' = [rev EXCEPT ![p] = None]
    /\ kind' = [kind EXCEPT ![p] = "ok"]
    /\ due' = [due EXCEPT ![p] = 0]

Recent == {t \in 0 .. now : now <= t + Lag}

Fault == faults < MaxFaults /\ faults' = faults + 1

Goto(p, label) == pc' = [pc EXCEPT ![p] = label] /\ UNCHANGED round

(* The lease is granted and reserved; the instant it was asked at is spent. *)
Hold(p) ==
    /\ pc' = [pc EXCEPT ![p] = "held"]
    /\ at' = [at EXCEPT ![p] = 0]
    /\ UNCHANGED <<acct, rev, again, kind, due>>

----------------------------------------------------------------------------
(* The command line tool.                                                   *)

(* Mutant: a login that is not in the store is named. *)
Ask_Ahead(c) ==
    /\ pc[c] = "idle"
    /\ pc' = [pc EXCEPT ![c] = "asking"]
    /\ at' = [at EXCEPT ![c] = now]
    /\ rev' = [rev EXCEPT ![c] = <<Home, login[Home] + 1>>]
    /\ UNCHANGED <<shared, local, acct, again, kind, due, ghosts>>

(* The clock, then the stored login or nothing when it cannot be read, both *)
(* before the lock of the lease file is waited for.                         *)
Ask(c) ==
    /\ pc[c] = "idle"
    /\ pc' = [pc EXCEPT ![c] = "asking"]
    /\ \E t \in Recent : at' = [at EXCEPT ![c] = t]
    /\ acct' = [acct EXCEPT ![c] = Home]
    /\ \E r \in {Revision(Home), None} : rev' = [rev EXCEPT ![c] = r]
    /\ UNCHANGED <<shared, local, again, kind, due, ghosts>>

(* acquireMachineLease.  A refusal of another login ends with its deadline. *)
AcquireCli(c) ==
    /\ pc[c] = "asking"
    /\ \/ /\ Free(at[c])
          /\ file.nextAllowedAt <= at[c]
          /\ ~Rotated(c)
          /\ file' = Grant(c, file.nextAllowedAt, file.refusal, None)
          /\ Hold(c)
       \/ /\ Free(at[c])
          /\ Rotated(c)
          /\ file' = Grant(c, 0, None, None)
          /\ Hold(c)
       \/ /\ ~Free(at[c]) \/ (at[c] < file.nextAllowedAt /\ ~Rotated(c))
          /\ Forget(c, "idle")
          /\ UNCHANGED file
    /\ UNCHANGED <<now, login, local, ghosts>>

(* readOne up to the request.  The schedule of the tool may not be due: its *)
(* own deadline, with the login it refused, is then what completes the      *)
(* lease.  An absent, unreadable or expired login completes nothing.        *)
Prepare(c) ==
    /\ pc[c] = "held"
    /\ \/ /\ pc' = [pc EXCEPT ![c] = "ready"]
          /\ rev' = [rev EXCEPT ![c] = Revision(Home)]
          /\ UNCHANGED <<acct, at, again, kind, due>>
       \/ /\ pc' = [pc EXCEPT ![c] = "answered"]
          /\ \E v \in 0 .. login[Home] : rev' = [rev EXCEPT ![c] = <<Home, v>>]
          /\ \E k \in Answers(c) : kind' = [kind EXCEPT ![c] = k]
          /\ UNCHANGED <<acct, at, again, due>>
       \/ Forget(c, "done")
    /\ UNCHANGED <<shared, local, ghosts>>

(* attempt: ownership is judged before the request goes out.                *)
Clear(c) ==
    /\ pc[c] = "ready"
    /\ \/ StillOwned(c)  /\ Goto(c, "cleared")
       \/ ~StillOwned(c) /\ Forget(c, "done")
    /\ UNCHANGED <<shared, local, ghosts>>

SendCli(c) ==
    /\ pc[c] = "cleared"
    /\ Goto(c, "sent")
    /\ UNCHANGED <<shared, local, ghosts>>

----------------------------------------------------------------------------
(* The desktop: RequestPolicy::begin_with_revision.                         *)

(* The clock, then the account and its login are read; begin reserves the   *)
(* process.                                                                 *)
Detect(d) ==
    /\ pc[d] = "idle"
    /\ d \in healthy
    /\ pc' = [pc EXCEPT ![d] = "asking"]
    /\ \E t \in Recent : at' = [at EXCEPT ![d] = t]
    /\ \E a \in Accounts :
          /\ acct' = [acct EXCEPT ![d] = a]
          /\ \E r \in {Revision(a), Unreadable} : rev' = [rev EXCEPT ![d] = r]
    /\ UNCHANGED <<shared, local, again, kind, due, ghosts>>

(* acquire_document_lock: the lock, or Busy after half a second.            *)
LockDocument(d) ==
    /\ pc[d] = "asking"
    /\ \/ gate = None /\ gate' = d /\ Goto(d, "locked")
       \/ gate # None /\ Forget(d, "idle") /\ UNCHANGED gate
    /\ UNCHANGED <<shared, doc, healthy, ghosts>>

Ahead(t, u) == IF u <= t THEN 0 ELSE u

Rows(next, accounts, refusals) ==
    [nextRequestAt |-> next, accounts |-> accounts, refusals |-> refusals]

(* Mutant: an expired deadline leaves its refusal behind. *)
Pruned_KeepsRefusal(t) ==
    Rows(Ahead(t, doc.nextRequestAt),
         [a \in Accounts |-> Ahead(t, doc.accounts[a])], doc.refusals)

(* prune_expired: past deadlines go, and the refusals that hung on them.    *)
Pruned(t) ==
    Rows(Ahead(t, doc.nextRequestAt),
         [a \in Accounts |-> Ahead(t, doc.accounts[a])],
         [a \in Accounts |->
             IF doc.accounts[a] <= t THEN None ELSE doc.refusals[a]])

(* The document refuses this account under another login.                   *)
Reopens(d) ==
    /\ Pruned(at[d]).refusals[acct[d]] # None
    /\ Pruned(at[d]).refusals[acct[d]] # rev[d]

(* The document begin works on: pruned, a rotated login's refusal dropped.  *)
Opened(d) ==
    Rows(Pruned(at[d]).nextRequestAt,
         [a \in Accounts |-> IF a = acct[d] /\ Reopens(d)
                             THEN 0 ELSE Pruned(at[d]).accounts[a]],
         [a \in Accounts |-> IF a = acct[d] /\ Reopens(d)
                             THEN None ELSE Pruned(at[d]).refusals[a]])

(* No deadline of the provider or of the account lies ahead, and the        *)
(* account has a row or there is room for one.                              *)
Admits(d) ==
    /\ Opened(d).nextRequestAt = 0
    /\ Opened(d).accounts[acct[d]] = 0
    /\ Cardinality({a \in Accounts : Opened(d).accounts[a] # 0}) < MaxAccounts

SameAccount(d) == file.lastAccount \in {None, acct[d]}

(* Mutant: a rotated login ends whatever deadline the file holds. *)
EndsRefusal_AnyDeadline(d) == SameAccount(d) /\ (Reopens(d) \/ Rotated(d))

(* The shared deadline is the refusal the document dropped, or the file     *)
(* itself names another login.                                              *)
EndsRefusal(d) ==
    /\ SameAccount(d)
    /\ \/ Reopens(d) /\ doc.accounts[acct[d]] = file.nextAllowedAt
       \/ Rotated(d)

(* acquire_account_with_refusal_change, when the lease is granted.  A       *)
(* deadline of another account holds nobody back and is erased.             *)
GrantDesktop(d) ==
    \/ /\ EndsRefusal(d)
       /\ file' = Grant(d, 0, None, acct[d])
    \/ /\ SameAccount(d) /\ ~EndsRefusal(d)
       /\ file.nextAllowedAt <= at[d]
       /\ file' = Grant(d, file.nextAllowedAt, file.refusal, acct[d])
    \/ /\ ~SameAccount(d)
       /\ file' = Grant(d, 0, None, acct[d])

Deferred(d) ==
    SameAccount(d) /\ ~EndsRefusal(d) /\ at[d] < file.nextAllowedAt

(* begin: the gates of the document, then the shared lease.                 *)
Admit(d) ==
    /\ pc[d] = "locked"
    /\ \/ /\ Admits(d) /\ Free(at[d])
          /\ GrantDesktop(d)
          /\ Goto(d, "leased")
          /\ UNCHANGED gate
       \/ /\ ~Admits(d) \/ ~Free(at[d]) \/ Deferred(d)
          /\ Forget(d, "idle")
          /\ gate' = None
          /\ UNCHANGED file
    /\ UNCHANGED <<now, login, doc, healthy, ghosts>>

(* begin: spacing for the provider, a provisional deadline for the account, *)
(* persisted; when that fails the gate closes and the lease is dropped.     *)
Reserve(d) ==
    /\ pc[d] = "leased"
    /\ \/ /\ doc' = Rows(at[d] + Spacing,
                         [Opened(d).accounts EXCEPT ![acct[d]] = at[d] + Provisional],
                         Opened(d).refusals)
          /\ Hold(d)
          /\ UNCHANGED <<file, gate, healthy, faults>>
       \/ /\ Fault
          /\ ReleaseFile(d)
          /\ gate' = None
          /\ healthy' = healthy \ {d}
          /\ Forget(d, "idle")
          /\ UNCHANGED doc
    /\ UNCHANGED <<now, login, limited, refusal, torn, met>>

(* collect_account: the login is read again.  A login that cannot be read,  *)
(* or has expired, counts as a refusal of the one begin was given.  A round *)
(* that stops short of its request (Cached) records nothing.                *)
Collect(d) ==
    /\ pc[d] = "held"
    /\ \/ /\ pc' = [pc EXCEPT ![d] = "ready"]
          /\ rev' = [rev EXCEPT ![d] = Revision(acct[d])]
          /\ UNCHANGED <<acct, at, again, kind, due>>
       \/ /\ pc' = [pc EXCEPT ![d] = "answered"]
          /\ kind' = [kind EXCEPT ![d] = "expired"]
          /\ UNCHANGED <<acct, at, rev, again, due>>
       \/ Forget(d, "done")
    /\ UNCHANGED <<shared, local, ghosts>>

SendDesktop(d) ==
    /\ pc[d] = "ready"
    /\ Goto(d, "sent")
    /\ UNCHANGED <<shared, local, ghosts>>

(* cancel_unstarted: no request went out, so the reservation is taken back. *)
Cancel(d) ==
    /\ pc[d] = "held"
    /\ \/ /\ doc' = Rows(0, [doc.accounts EXCEPT ![acct[d]] = 0], doc.refusals)
          /\ UNCHANGED <<healthy, faults>>
       \/ Fault /\ healthy' = healthy \ {d} /\ UNCHANGED doc
    /\ Forget(d, "done")
    /\ UNCHANGED <<shared, gate, limited, refusal, torn, met>>

----------------------------------------------------------------------------
(* Both: the answer, the completion of the lease, its release.              *)

(* attempt, collect_with_reread: a reply that finds the lease gone is       *)
(* dropped; a 401 is repeated once when the store holds another login.      *)
Reply(p) ==
    /\ pc[p] = "sent"
    /\ \/ /\ ~StillOwned(p)
          /\ Forget(p, "done")
       \/ /\ StillOwned(p)
          /\ p \notin again
          /\ Revision(acct[p]) # rev[p]
          /\ pc' = [pc EXCEPT ![p] = "ready"]
          /\ rev' = [rev EXCEPT ![p] = Revision(acct[p])]
          /\ again' = again \union {p}
          /\ UNCHANGED <<acct, at, kind, due>>
       \/ /\ StillOwned(p)
          /\ pc' = [pc EXCEPT ![p] = "answered"]
          /\ \E k \in Answers(p) : kind' = [kind EXCEPT ![p] = k]
          /\ UNCHANGED <<acct, at, rev, again, due>>
    /\ UNCHANGED <<shared, local, ghosts>>

Refuses(k) == k \in {"refused", "expired"}

DelaysAfter(k) ==
    CASE k = "ok" -> Cadences [] k = "limited" -> Backoffs [] OTHER -> {Day}

(* A refusal's deadline, held by the document or about to be.               *)
RefusalEnds(u) ==
    \/ \E a \in Accounts : doc.refusals[a] # None /\ doc.accounts[a] = u
    \/ \E d \in Desktops : pc[d] = "writing" /\ Refuses(kind[d]) /\ due[d] = u

(* The deadlines an answer may earn.                                        *)
Instants(p) == {now + b : b \in DelaysAfter(kind[p])}

MaxOf(m, n) == IF m < n THEN n ELSE m

(* lease.complete: the tool overwrites the deadline, the desktop raises it. *)
Completed(p, u) ==
    [file EXCEPT !.nextAllowedAt = IF p \in Clis THEN u ELSE MaxOf(@, u),
                 !.refusal = IF Refuses(kind[p]) THEN rev[p] ELSE None]

(* A provider's deadline must hold for every account; a cadence only for    *)
(* its own.                                                                 *)
Protected(k) == k \in ProviderWide \/ (k = "ok" /\ Accounts = {Home})

Record(p, u) ==
    /\ limited' = IF Protected(kind[p]) THEN MaxOf(limited, u) ELSE limited
    /\ refusal' = IF kind[p] = "refused" /\ rev[p] \in Revisions
                  THEN [rev |-> rev[p], until |-> u] ELSE refusal
    /\ met' = met \union {v \in {u} : ~Refuses(kind[p]) /\ RefusalEnds(v)}

(* complete_shared: a lease taken over is left alone, and so is the         *)
(* document; a lease still ours that cannot be written closes the gate.     *)
(* The file is written first, the document in a later step.                 *)
CompleteDesktop(d) ==
    /\ pc[d] = "answered"
    /\ \/ /\ Token(d)
          /\ \E u \in Instants(d) :
                /\ file' = Completed(d, u)
                /\ due' = [due EXCEPT ![d] = u]
                /\ Record(d, u)
          /\ pc' = [pc EXCEPT ![d] = "writing"]
          /\ UNCHANGED <<acct, at, rev, again, kind, healthy, faults>>
       \/ /\ ~Token(d)
          /\ Forget(d, "done")
          /\ UNCHANGED <<file, limited, refusal, met, healthy, faults>>
       \/ /\ Token(d) /\ Fault
          /\ healthy' = healthy \ {d}
          /\ Forget(d, "done")
          /\ UNCHANGED <<file, limited, refusal, met>>
    /\ UNCHANGED <<now, login, doc, gate, torn>>

(* The lease loop of runAcquisition: lost, then nothing; else complete,     *)
(* which looks at the token and no longer at the expiry, or fails.          *)
CompleteCli(c) ==
    /\ pc[c] = "answered"
    /\ \/ /\ Token(c)
          /\ \E u \in Instants(c) : file' = Completed(c, u) /\ Record(c, u)
          /\ UNCHANGED faults
       \/ /\ ~StillOwned(c)
          /\ UNCHANGED <<file, limited, refusal, met, faults>>
       \/ /\ Fault
          /\ UNCHANGED <<file, limited, refusal, met>>
    /\ Forget(c, "done")
    /\ UNCHANGED <<now, login, local, torn>>

(* complete_after, refuse_account, retry_account, block_provider.           *)
Settled(d) ==
    Rows(IF kind[d] \in ProviderWide THEN MaxOf(doc.nextRequestAt, due[d])
                                     ELSE doc.nextRequestAt,
         [doc.accounts EXCEPT ![acct[d]] = IF kind[d] = "blocked" THEN @ ELSE due[d]],
         [doc.refusals EXCEPT ![acct[d]] = CASE kind[d] = "ok" -> None
                                             [] kind[d] \in ProviderWide -> @
                                             [] OTHER -> rev[d]])

(* mutate_durable: the fresh document with the deadline in it is persisted, *)
(* or the gate of this process closes.                                      *)
WriteDocument(d) ==
    /\ pc[d] = "writing"
    /\ \/ doc' = Settled(d) /\ UNCHANGED <<healthy, faults, torn>>
       \/ /\ Fault
          /\ healthy' = healthy \ {d}
          /\ torn' = IF kind[d] \in ProviderWide THEN torn \union {d} ELSE torn
          /\ UNCHANGED doc
    /\ Forget(d, "done")
    /\ UNCHANGED <<shared, gate, limited, refusal, met>>

(* finally release, RequestPolicy::release: the lease, then the lock.       *)
Release(p) ==
    /\ pc[p] = "done"
    /\ ReleaseFile(p)
    /\ gate' = IF gate = p THEN None ELSE gate
    /\ Forget(p, "idle")
    /\ UNCHANGED <<now, login, doc, healthy, ghosts>>

Leased == {"leased", "held", "ready", "cleared", "sent", "answered", "writing", "done"}

(* Mutant: a heartbeat adds to the expiry instead of renewing it. *)
Heartbeat_Adds(p) ==
    /\ pc[p] \in Leased
    /\ StillOwned(p)
    /\ file' = [file EXCEPT !.expiresAt = @ + Lease]
    /\ UNCHANGED <<now, login, local, pc, round, ghosts>>

(* The heartbeat of either process; one that finds the lease gone stops,    *)
(* and no later one of that token could find it again.                      *)
Heartbeat(p) ==
    /\ pc[p] \in Leased
    /\ StillOwned(p)
    /\ file' = [file EXCEPT !.expiresAt = now + Lease]
    /\ UNCHANGED <<now, login, local, pc, round, ghosts>>

----------------------------------------------------------------------------
(* The environment.                                                         *)

Clean == [rev |-> None, until |-> 0]

Tick ==
    /\ now < MaxTime
    /\ now' = now + 1
    /\ limited' = Ahead(now', limited)
    /\ refusal' = IF refusal.until <= now' THEN Clean ELSE refusal
    /\ met' = {u \in met : now' < u}
    /\ UNCHANGED <<login, file, local, pc, round, faults, torn>>

(* The vendor's own tool refreshes a login.                                 *)
RotateLogin(a) ==
    /\ login[a] < MaxLogin
    /\ login' = [login EXCEPT ![a] = @ + 1]
    /\ UNCHANGED <<now, file, local, pc, round, ghosts>>

(* A process dies: its lease stays in the file, its lock does not.          *)
Crash(p) ==
    /\ pc[p] # "idle"
    /\ Fault
    /\ gate' = IF gate = p THEN None ELSE gate
    /\ healthy' = healthy \ {p}
    /\ torn' = IF pc[p] = "writing" /\ kind[p] \in ProviderWide
               THEN torn \union {p} ELSE torn
    /\ Forget(p, "idle")
    /\ UNCHANGED <<shared, doc, limited, refusal, met>>

(* The desktop is started again, with an open gate.                         *)
Restart(d) ==
    /\ pc[d] = "idle"
    /\ d \notin healthy
    /\ healthy' = healthy \union {d}
    /\ UNCHANGED <<shared, doc, gate, pc, round, ghosts>>

Init ==
    /\ now = 0
    /\ login = [a \in Accounts |-> 0]
    /\ file = NoLease
    /\ doc = Rows(0, [a \in Accounts |-> 0], [a \in Accounts |-> None])
    /\ gate = None
    /\ healthy = Desktops
    /\ pc = [p \in Procs |-> "idle"]
    /\ acct = [p \in Procs |-> Home]
    /\ at = [p \in Procs |-> 0]
    /\ rev = [p \in Procs |-> None]
    /\ again = {}
    /\ kind = [p \in Procs |-> "ok"]
    /\ due = [p \in Procs |-> 0]
    /\ faults = 0
    /\ limited = 0
    /\ refusal = Clean
    /\ torn = {}
    /\ met = {}

CliStep(c) ==
    \/ Ask(c) \/ AcquireCli(c) \/ Prepare(c) \/ Clear(c) \/ SendCli(c)
    \/ CompleteCli(c)

DesktopStep(d) ==
    \/ Detect(d) \/ LockDocument(d) \/ Admit(d) \/ Reserve(d) \/ Collect(d)
    \/ Cancel(d) \/ SendDesktop(d) \/ CompleteDesktop(d) \/ WriteDocument(d)
    \/ Restart(d)

ProcStep(p) == Reply(p) \/ Release(p) \/ Heartbeat(p) \/ Crash(p)

Next ==
    \/ Tick
    \/ \E a \in Accounts : RotateLogin(a)
    \/ \E c \in Clis : CliStep(c)
    \/ \E d \in Desktops : DesktopStep(d)
    \/ \E p \in Procs : ProcStep(p)

Spec == Init /\ [][Next]_vars

----------------------------------------------------------------------------
(* Properties.                                                              *)

Deadlines == [nextRequestAt : Nat, accounts : [Accounts -> Nat],
              refusals : [Accounts -> Named \union {None}]]

Leases == [owner : Owners \union {None}, expiresAt : Nat,
           token : Procs \union {None}, nextAllowedAt : Nat,
           refusal : Named \union {None}, lastAccount : Accounts \union {None}]

(* Every variable keeps its type. *)
TypeOK ==
    /\ now \in 0 .. MaxTime
    /\ login \in [Accounts -> 0 .. MaxLogin]
    /\ file \in Leases
    /\ doc \in Deadlines
    /\ gate \in Desktops \union {None}
    /\ healthy \subseteq Desktops
    /\ pc \in [Procs -> Labels]
    /\ acct \in [Procs -> Accounts]
    /\ at \in [Procs -> 0 .. now]
    /\ rev \in [Procs -> Named \union {None}]
    /\ again \subseteq Procs
    /\ kind \in [Procs -> Kinds]
    /\ due \in [Procs -> Nat]
    /\ faults \in 0 .. MaxFaults
    /\ limited \in Nat
    /\ refusal \in [rev : Revisions \union {None}, until : Nat]
    /\ torn \subseteq Procs
    /\ met \subseteq Nat

Asking == {"leased", "held", "ready", "cleared", "sent", "answered"}

(* Whoever owns the lease on the way to its answer started after every      *)
(* backoff recorded so far (with a single account, after every cadence      *)
(* too), whichever process and account recorded it: neither a rotated       *)
(* login, nor another account, nor a takeover lets a rate limit be asked    *)
(* through.  The exceptions are a desktop that got its backoff into the     *)
(* lease file and not into its own document, and a deadline that ends at    *)
(* the very instant a refusal does, which begin takes for the refusal's.    *)
HonoursLimitsUnlessTornOrMet ==
    \A p \in Procs :
        pc[p] \in Asking /\ Token(p) => limited = 0 \/ limited \in met \/ torn # {}

(* A login its provider refused is not sent again before its refusal ends;  *)
(* the runner says of a login that cannot be read that it "releases         *)
(* nothing".                                                                *)
RefusedLoginWaits ==
    \A p \in Procs :
        pc[p] = "sent" /\ Token(p) => rev[p] # refusal.rev

(* While a lease runs, the file changes by its holder's own hand only: a    *)
(* process that lost its lease neither completes, nor renews, nor releases  *)
(* the one that replaced it (complete_shared, mutate's token check).        *)
OnlyHolderWrites ==
    [][\A q \in Procs :
          Token(q) /\ file.owner # None /\ now < file.expiresAt /\ file' # file
            => /\ file'.token = q
               /\ \/ pc'[q] # pc[q]
                  \/ file' = [file EXCEPT !.expiresAt = now + Lease]]_vars

(* Every refusal the document holds hangs on a deadline of its account.     *)
(* validate_document rejects a document where one does not, and a rejected  *)
(* document closes the desktop's gate until it is restarted.                *)
DocumentValid ==
    \A a \in Accounts : doc.refusals[a] # None => doc.accounts[a] # 0

(* A crash keeps a provider from everyone for one lease at most: no run of  *)
(* heartbeats pushes the expiry further than one lease ahead.               *)
LeaseEndsSoon ==
    file.owner # None => file.expiresAt <= now + Lease

============================================================================
