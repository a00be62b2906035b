------------------------------ MODULE CacheFold -----------------------------
(***************************************************************************)
(* How reports change the cache document both programs share.  A report    *)
(* carries the instant it was read at; it reaches the document later, under *)
(* the lock of StateLock, so reports are folded whole but in any order.    *)
(*                                                                         *)
(*   packages/core/src/collection.ts, merge.ts, cache.ts      the tool     *)
(*   apps/desktop/src-tauri/src/native_snapshot.rs            the desktop  *)
(*                                                                         *)
(* A row is its instant and who wrote it; values are left out.  An identity *)
(* is a provider with an account.  MAX_CACHE_ENTRIES bounds suppressions   *)
(* here; the keys are fewer than the rows it allows.                       *)
(***************************************************************************)
EXTENDS Naturals, FiniteSets

CONSTANTS
    Ids,        \* identities
    Keys,       \* pairs <<identity, meter>>
    Retention,  \* RETENTION_MILLISECONDS
    MaxSupp,    \* MAX_CACHE_SUPPRESSIONS
    MaxReports, \* bound: reports read and not yet folded
    MaxTime,    \* bound on the clock
    None

ASSUME ConstantsAssumption ==
    /\ IsFiniteSet(Ids) /\ Keys \subseteq Ids \X {k[2] : k \in Keys}
    /\ Retention \in Nat /\ MaxSupp \in Nat \ {0} /\ MaxReports \in Nat
    /\ MaxTime \in Nat \ {0} /\ None \notin Nat

Times == 1 .. MaxTime
Writers == {"cli", "desktop", "statusline"}
Rows == [at : Times, writer : Writers]

Of(id) == {k \in Keys : k[1] = id}

(* CollectionReport and CacheReport: the keys a read brought, that its body *)
(* could not be understood, or that the provider is not available.          *)
Reports ==
    [by : Writers, id : Ids, at : Times, kind : {"success", "drift", "unavailable"}, keys : SUBSET Keys]

VARIABLES
    now,      \* the clock
    reports,  \* reports on their way to the document
    rows,     \* the row of each key, or None
    supp      \* the suppression of each identity, or None

vars == <<now, reports, rows, supp>>

TypeOK ==
    /\ now \in Times
    /\ reports \subseteq Reports
    /\ rows \in [Keys -> Rows \cup {None}]
    /\ supp \in [Ids -> Times \cup {None}]

Init ==
    /\ now = 1 /\ reports = {}
    /\ rows = [k \in Keys |-> None]
    /\ supp = [id \in Ids |-> None]

(* A reader finishes.  Only the desktop reports a drift or that a provider  *)
(* is unavailable; the status line brings rows or nothing.                  *)
Read(by, id, kind, keys) ==
    /\ Cardinality(reports) < MaxReports
    /\ by = "statusline" => keys # {}
    /\ kind # "success" => by = "desktop" /\ keys = {}
    /\ reports' = reports \cup {[by |-> by, id |-> id, at |-> now, kind |-> kind, keys |-> keys]}
    /\ UNCHANGED <<now, rows, supp>>

(*------------------------------- helpers ---------------------------------*)

(* Row k was observed at t or later. *)
Since(k, t) == rows[k] # None /\ rows[k].at >= t
After(k, t) == rows[k] # None /\ rows[k].at > t

(* retainSnapshots: rows older than the retention are left out. *)
Retained(doc, t) ==
    [k \in Keys |-> IF doc[k] # None /\ doc[k].at + Retention < t THEN None ELSE doc[k]]

(* mergeSnapshots: the rows of keys taken replace those held, others stay. *)
Merge(doc, r, taken) ==
    [k \in Keys |-> IF k \in taken THEN [at |-> r.at, writer |-> r.by] ELSE doc[k]]

Without(doc, ks) == [k \in Keys |-> IF k \in ks THEN None ELSE doc[k]]

(* boundSuppressions: the oldest go, in any order among equals. *)
Bounded(s) ==
    LET held == {id \in Ids : s[id] # None} IN
    IF Cardinality(held) <= MaxSupp THEN {s}
    ELSE {[s EXCEPT ![id] = None] :
             id \in {i \in held : \A j \in held : s[i] <= s[j]}}

Fold(r) == r \in reports /\ reports' = reports \ {r}

(*-------------------------------- the tool -------------------------------*)

(* applyCollectionReport of a success: the report replaces the identity's   *)
(* rows and clears its suppression, unless that is newer.                   *)
ApplySuccess(r) ==
    IF supp[r.id] # None /\ supp[r.id] > r.at
    THEN rows' = Retained(rows, r.at) /\ UNCHANGED supp
    ELSE /\ rows' = Retained(Merge(Without(rows, Of(r.id)), r, r.keys), r.at)
         /\ supp' = [supp EXCEPT ![r.id] = None]

(* Mutant: rows of other writers do not count. *)
FoldCli_NoForeign(r) ==
    /\ Fold(r) /\ r.by = "cli"
    /\ ApplySuccess(r)
    /\ UNCHANGED now

(* Mutant: an authoritative report clears any suppression. *)
FoldCli_NoSuppressionCheck(r) ==
    /\ Fold(r) /\ r.by = "cli"
    /\ LET deferred == {k \in r.keys : Since(k, r.at)} IN
       /\ rows' = Retained(Merge(rows, r, r.keys \ deferred), r.at)
       /\ supp' = [supp EXCEPT ![r.id] = None]
    /\ UNCHANGED now

(* mergeAcquiredSnapshots.  A key the document holds at that instant or     *)
(* later is deferred to.  When nothing is, and no row of the identity that  *)
(* the report leaves out is another writer's, the report is authoritative;  *)
(* otherwise it only adds rows.                                             *)
FoldCli(r) ==
    /\ Fold(r) /\ r.by = "cli"
    /\ LET deferred == {k \in r.keys : Since(k, r.at)}
           foreign == {k \in Of(r.id) \ r.keys : rows[k] # None /\ rows[k].writer # "cli"} IN
       IF deferred \cup foreign # {}
       THEN /\ rows' = Retained(Merge(rows, r, r.keys \ deferred), r.at)
            /\ UNCHANGED supp
       ELSE ApplySuccess(r)
    /\ UNCHANGED now

(* mergeSnapshotCache, for what the status line was handed: at the instant  *)
(* of the row or later replaces it.                                         *)
FoldStatusline(r) ==
    /\ Fold(r) /\ r.by = "statusline"
    /\ rows' = Retained(Merge(rows, r, {k \in r.keys : ~ After(k, r.at)}), now)
    /\ UNCHANGED <<now, supp>>

(*------------------------------ the desktop ------------------------------*)

(* Mutant: a report replaces newer rows. *)
FoldSuccess_Always(r) ==
    /\ Fold(r) /\ r.by = "desktop" /\ r.kind = "success"
    /\ rows' = Retained(Merge(Without(rows, Of(r.id) \ r.keys), r, r.keys), r.at)
    /\ UNCHANGED <<now, supp>>

(* Mutant: the rows a report leaves out stay. *)
FoldSuccess_KeepsOthers(r) ==
    /\ Fold(r) /\ r.by = "desktop" /\ r.kind = "success"
    /\ rows' = Retained(Merge(rows, r, {k \in r.keys : ~ After(k, r.at)}),
                        IF r.keys = {} THEN now ELSE r.at)
    /\ supp' = IF r.keys # {} /\ supp[r.id] # None /\ supp[r.id] < r.at
               THEN [supp EXCEPT ![r.id] = None] ELSE supp
    /\ UNCHANGED now

(* Mutant: a suppression is cleared to zero. *)
FoldSuccess_Zero(r) ==
    /\ Fold(r) /\ r.by = "desktop" /\ r.kind = "success"
    /\ supp' = [supp EXCEPT ![r.id] = 0]
    /\ UNCHANGED <<now, rows>>

(* fold_read of a success: the rows of the identity the report leaves out   *)
(* go whoever wrote them, and a suppression older than the newest row goes. *)
FoldSuccess(r) ==
    /\ Fold(r) /\ r.by = "desktop" /\ r.kind = "success"
    /\ rows' = Retained(Merge(Without(rows, Of(r.id) \ r.keys), r, {k \in r.keys : ~ After(k, r.at)}),
                        IF r.keys = {} THEN now ELSE r.at)
    /\ supp' = IF r.keys # {} /\ supp[r.id] # None /\ supp[r.id] < r.at
               THEN [supp EXCEPT ![r.id] = None] ELSE supp
    /\ UNCHANGED now

(* Mutant: only a newer suppression delays a drift. *)
Delayed_RowsIgnored(r) == supp[r.id] # None /\ supp[r.id] > r.at

(* A drift that is older than a row or a suppression of the identity is     *)
(* delayed and changes nothing; otherwise rows go and a suppression stands. *)
Delayed(r) ==
    (\E k \in Of(r.id) : After(k, r.at)) \/ (supp[r.id] # None /\ supp[r.id] > r.at)

FoldDrift(r) ==
    /\ Fold(r) /\ r.kind = "drift"
    /\ IF Delayed(r)
       THEN rows' = Retained(rows, r.at) /\ UNCHANGED supp
       ELSE /\ rows' = Retained(Without(rows, Of(r.id)), r.at)
            /\ supp' \in Bounded([supp EXCEPT ![r.id] = r.at])
    /\ UNCHANGED now

(* Unavailable: the identity's rows and suppression go, whatever their age. *)
FoldUnavailable(r) ==
    /\ Fold(r) /\ r.kind = "unavailable"
    /\ rows' = Retained(Without(rows, Of(r.id)), now)
    /\ supp' = [supp EXCEPT ![r.id] = None]
    /\ UNCHANGED now

(* purge_connection_rows: a connection is removed; suppressions stay. *)
Purge(id) ==
    /\ \E k \in Of(id) : rows[k] # None
    /\ rows' = Without(rows, Of(id))
    /\ UNCHANGED <<now, reports, supp>>

(* pruneSnapshotCache and prune_cache, when a program starts. *)
Prune ==
    /\ rows' = Retained(rows, now)
    /\ UNCHANGED <<now, reports, supp>>

Tick ==
    /\ now < MaxTime /\ now' = now + 1
    /\ UNCHANGED <<reports, rows, supp>>

Next ==
    \/ \E id \in Ids :
          \/ \E by \in Writers, keys \in SUBSET Of(id) : Read(by, id, "success", keys)
          \/ \E kind \in {"drift", "unavailable"} : Read("desktop", id, kind, {})
    \/ \E r \in reports :
          FoldCli(r) \/ FoldStatusline(r) \/ FoldSuccess(r) \/ FoldDrift(r) \/ FoldUnavailable(r)
    \/ \E id \in Ids : Purge(id)
    \/ Prune \/ Tick

Spec == Init /\ [][Next]_vars

(*------------------------------ properties -------------------------------*)

(* visibleSnapshots and surface_snapshots: a row shows when it was observed *)
(* strictly after the suppression of its identity.                          *)
Visible(k) == rows[k] # None /\ (supp[k[1]] = None \/ rows[k].at > supp[k[1]])

(* The identities whose suppression in s is at least as new as instant t. *)
Outliving(s, t) == {id \in Ids : s[id] # None /\ s[id] >= t}

(* While a drift suppresses an identity, no step shows a row from before    *)
(* it: not by bringing one in, and not by clearing the suppression over one *)
(* it hides (whatever lifts a suppression also takes the rows under it      *)
(* away).  The one exception is a suppression dropped at the bound, and     *)
(* that takes a full set of suppressions no older.                          *)
OutdatedStaysHidden ==
    [][\A k \in Keys :
          /\ supp[k[1]] # None /\ Visible(k)'
          /\ rows'[k].at < supp[k[1]] \/ (rows'[k] = rows[k] /\ ~ Visible(k))
          => Cardinality(Outliving(supp', supp[k[1]])) >= MaxSupp]_vars

(* A drift that arrives late hides no row observed after it. *)
DriftHidesOnlyOlder ==
    [][\A r \in reports \ reports' : r.kind = "drift" =>
          \A k \in Keys : Visible(k) /\ rows[k].at > r.at => Visible(k)']_vars

(* A stale success shows nothing while the suppression it predates stands,  *)
(* and does not clear it.                                                   *)
StaleKeepsSuppression ==
    [][\A r \in reports \ reports' : \A id \in Ids :
          r.kind = "success" /\ supp[id] # None /\ supp'[id] = None
              => id = r.id /\ r.at >= supp[id]]_vars

(* A row is only ever replaced by one observed no earlier. *)
RowsNeverGoBack ==
    [][\A k \in Keys : rows[k] # None /\ rows'[k] # None => rows'[k].at >= rows[k].at]_vars

(* The tool never loses a newer row somebody else wrote. *)
CliKeepsNewer ==
    [][\A r \in reports \ reports' : r.by = "cli" =>
          \A k \in Keys : After(k, r.at) /\ rows[k].writer # "cli" => rows'[k] = rows[k]]_vars

=============================================================================
