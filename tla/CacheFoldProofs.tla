--------------------------- MODULE CacheFoldProofs --------------------------
(***************************************************************************)
(* The folds, for any identities and keys, any number of reports on their  *)
(* way and every bound on the suppressions.                                *)
(***************************************************************************)
EXTENDS CacheFold, FiniteSetTheorems, TLAPS

(* A report is about its own identity, and only the desktop's can be other  *)
(* than a success.                                                          *)
ReportInv ==
    \A r \in reports : r.keys \subseteq Of(r.id) /\ (r.kind # "success" => r.by = "desktop")

IInv == TypeOK /\ ReportInv

Docs == [Keys -> Rows \cup {None}]

(* A key belongs to an identity. *)
LEMMA KeyId == \A k \in Keys : k[1] \in Ids
  BY ConstantsAssumption

(* The helpers keep documents documents, and change the keys they name. *)
LEMMA RetainedFacts ==
    ASSUME NEW doc \in Docs, NEW t
    PROVE  Retained(doc, t) \in Docs /\ \A k \in Keys : Retained(doc, t)[k] \in {doc[k], None}
  BY DEF Docs, Retained

LEMMA WithoutFacts ==
    ASSUME NEW doc \in Docs, NEW ks
    PROVE  /\ Without(doc, ks) \in Docs
           /\ \A k \in Keys : Without(doc, ks)[k] = IF k \in ks THEN None ELSE doc[k]
  BY DEF Docs, Without

LEMMA MergeFacts ==
    ASSUME NEW doc \in Docs, NEW r \in Reports, NEW ks
    PROVE  /\ Merge(doc, r, ks) \in Docs
           /\ \A k \in Keys :
                 Merge(doc, r, ks)[k] = IF k \in ks THEN [at |-> r.at, writer |-> r.by] ELSE doc[k]
<1>1. [at |-> r.at, writer |-> r.by] \in Rows
  BY DEF Reports, Rows
<1> QED
  BY <1>1 DEF Docs, Merge

(* A row that is not too old is retained. *)
LEMMA RetainedYoung ==
    ASSUME NEW doc \in Docs, NEW t \in Nat, NEW k \in Keys, doc[k] # None => doc[k].at >= t
    PROVE  Retained(doc, t)[k] = doc[k]
<1>1. doc[k] # None => doc[k].at \in Nat
  BY DEF Docs, Rows, Times
<1>2. doc[k] # None => ~ (doc[k].at + Retention < t)
  BY <1>1, ConstantsAssumption
<1> QED
  BY <1>2 DEF Retained

(* Dropping a suppression at the bound drops one and changes no other. *)
LEMMA BoundedType ==
    ASSUME NEW s \in [Ids -> Times \cup {None}], NEW u \in Bounded(s)
    PROVE  u \in [Ids -> Times \cup {None}]
  BY DEF Bounded

(* What holds of one report. *)
LEMMA ReportFacts ==
    ASSUME IInv, NEW r \in reports
    PROVE  /\ r \in Reports /\ r.id \in Ids /\ r.at \in Times /\ r.at \in Nat /\ r.keys \subseteq Of(r.id)
           /\ now \in Nat /\ rows \in Docs
  BY DEF IInv, TypeOK, ReportInv, Reports, Times, Docs

(* How a fold of a success may change the rows: it leaves a row, removes it, *)
(* or replaces it by its own when that is no older.                         *)
Gentle(r) ==
    /\ rows' \in Docs
    /\ \A k \in Keys : \/ rows'[k] = None \/ rows'[k] = rows[k]
                       \/ /\ k \in r.keys /\ ~ After(k, r.at)
                          /\ rows'[k] = [at |-> r.at, writer |-> r.by]

(* Not after is what is needed of a row that is replaced. *)
LEMMA SinceAfter ==
    ASSUME IInv, NEW k \in Keys, NEW t \in Nat, ~ Since(k, t)
    PROVE  ~ After(k, t)
  BY DEF IInv, TypeOK, Since, After, Rows, Times

(* The folds of successes. *)
LEMMA CliGentle ==
    ASSUME IInv, NEW r \in reports, FoldCli(r)
    PROVE  Gentle(r) /\ supp' \in [Ids -> Times \cup {None}]
<1> DEFINE deferred == {k \in r.keys : Since(k, r.at)}
           foreign == {k \in Of(r.id) \ r.keys : rows[k] # None /\ rows[k].writer # "cli"}
<1>1. r \in Reports /\ r.at \in Nat /\ rows \in Docs /\ r.id \in Ids
  BY ReportFacts
<1>2. supp \in [Ids -> Times \cup {None}]
  BY DEF IInv, TypeOK
<1>3. CASE deferred \cup foreign # {}
  <2> DEFINE m == Merge(rows, r, r.keys \ deferred)
  <2>1. rows' = Retained(m, r.at) /\ supp' = supp
    BY <1>3 DEF FoldCli
  <2>2. /\ m \in Docs
        /\ \A k \in Keys : m[k] = IF k \in r.keys \ deferred THEN [at |-> r.at, writer |-> r.by] ELSE rows[k]
    BY <1>1, MergeFacts
  <2> HIDE DEF m
  <2>3. rows' \in Docs /\ \A k \in Keys : rows'[k] \in {m[k], None}
    BY <1>1, <2>1, <2>2, RetainedFacts
  <2>4. \A k \in Keys : k \in r.keys \ deferred => ~ After(k, r.at)
    BY <1>1, SinceAfter
  <2> QED
    BY <1>2, <2>1, <2>2, <2>3, <2>4 DEF Gentle
<1>4. CASE deferred \cup foreign = {}
  <2>1. CASE supp[r.id] # None /\ supp[r.id] > r.at
    <3>1. rows' = Retained(rows, r.at) /\ supp' = supp
      BY <1>4, <2>1 DEF FoldCli, ApplySuccess
    <3> QED
      BY <1>1, <1>2, <3>1, RetainedFacts DEF Gentle
  <2>2. CASE ~ (supp[r.id] # None /\ supp[r.id] > r.at)
    <3> DEFINE o == Without(rows, Of(r.id))
               m == Merge(o, r, r.keys)
    <3>1. rows' = Retained(m, r.at) /\ supp' = [supp EXCEPT ![r.id] = None]
      BY <1>4, <2>2 DEF FoldCli, ApplySuccess
    <3>2. o \in Docs /\ \A k \in Keys : o[k] \in {rows[k], None}
      BY <1>1, WithoutFacts
    <3> HIDE DEF o
    <3>3. /\ m \in Docs
          /\ \A k \in Keys : m[k] = IF k \in r.keys THEN [at |-> r.at, writer |-> r.by] ELSE o[k]
      BY <1>1, <3>2, MergeFacts
    <3> HIDE DEF m
    <3>4. rows' \in Docs /\ \A k \in Keys : rows'[k] \in {m[k], None}
      BY <1>1, <3>1, <3>3, RetainedFacts
    <3>5. \A k \in Keys : k \in r.keys => ~ After(k, r.at)
      BY <1>1, <1>4, SinceAfter
    <3>6. Gentle(r)
      BY <3>2, <3>3, <3>4, <3>5 DEF Gentle
    <3> QED
      BY <1>2, <3>1, <3>6
  <2> QED
    BY <2>1, <2>2
<1> QED
  BY <1>3, <1>4

LEMMA StatuslineGentle ==
    ASSUME IInv, NEW r \in reports, FoldStatusline(r)
    PROVE  Gentle(r) /\ supp' \in [Ids -> Times \cup {None}]
<1> DEFINE taken == {k \in r.keys : ~ After(k, r.at)}
           m == Merge(rows, r, taken)
<1>1. r \in Reports /\ rows \in Docs /\ now \in Nat
  BY ReportFacts
<1>2. rows' = Retained(m, now) /\ supp' = supp
  BY DEF FoldStatusline
<1>3. m \in Docs /\ \A k \in Keys : m[k] = IF k \in taken THEN [at |-> r.at, writer |-> r.by] ELSE rows[k]
  BY <1>1, MergeFacts
<1> HIDE DEF m
<1>4. rows' \in Docs /\ \A k \in Keys : rows'[k] \in {m[k], None}
  BY <1>1, <1>2, <1>3, RetainedFacts
<1> QED
  BY <1>2, <1>3, <1>4 DEF Gentle, IInv, TypeOK

LEMMA SuccessGentle ==
    ASSUME IInv, NEW r \in reports, FoldSuccess(r)
    PROVE  Gentle(r) /\ supp' \in [Ids -> Times \cup {None}]
<1> DEFINE taken == {k \in r.keys : ~ After(k, r.at)}
           o == Without(rows, Of(r.id) \ r.keys)
           m == Merge(o, r, taken)
           t == IF r.keys = {} THEN now ELSE r.at
<1>1. r \in Reports /\ rows \in Docs /\ t \in Nat /\ r.id \in Ids
  BY ReportFacts
<1>2. rows' = Retained(m, t) /\ supp' \in {supp, [supp EXCEPT ![r.id] = None]}
  BY DEF FoldSuccess
<1> HIDE DEF t
<1>3. o \in Docs /\ \A k \in Keys : o[k] \in {rows[k], None}
  BY <1>1, WithoutFacts
<1> HIDE DEF o
<1>4. m \in Docs /\ \A k \in Keys : m[k] = IF k \in taken THEN [at |-> r.at, writer |-> r.by] ELSE o[k]
  BY <1>1, <1>3, MergeFacts
<1> HIDE DEF m
<1>5. rows' \in Docs /\ \A k \in Keys : rows'[k] \in {m[k], None}
  BY <1>1, <1>2, <1>4, RetainedFacts
<1>6. Gentle(r)
  BY <1>3, <1>4, <1>5 DEF Gentle
<1> QED
  BY <1>1, <1>2, <1>6 DEF IInv, TypeOK

(* The folds of successes keep the invariant. *)
Success(r) == FoldCli(r) \/ FoldStatusline(r) \/ FoldSuccess(r)

LEMMA SuccessShape ==
    ASSUME IInv, NEW r \in reports, Success(r)
    PROVE  /\ Gentle(r) /\ supp' \in [Ids -> Times \cup {None}] /\ reports' = reports \ {r}
           /\ now' = now
<1>1. Gentle(r) /\ supp' \in [Ids -> Times \cup {None}]
  BY CliGentle, StatuslineGentle, SuccessGentle DEF Success
<1> QED
  BY <1>1 DEF Success, FoldCli, FoldStatusline, FoldSuccess, Fold

LEMMA SuccessStep ==
    ASSUME IInv, NEW r \in reports, Success(r)
    PROVE  IInv'
<1>1. /\ Gentle(r) /\ supp' \in [Ids -> Times \cup {None}] /\ reports' = reports \ {r}
      /\ now' = now
  BY SuccessShape
<1>2. r.id \in Ids /\ r.at \in Nat /\ r.keys \subseteq Of(r.id)
  BY ReportFacts
<1>3. TypeOK'
  BY <1>1, <1>2 DEF IInv, TypeOK, Gentle, Docs
<1>4. ReportInv'
  BY <1>1 DEF IInv, ReportInv
<1> QED
  BY <1>3, <1>4 DEF IInv

(* What only removes rows keeps the invariant. *)
LEMMA RemovingStep ==
    ASSUME IInv, rows' \in Docs, \A k \in Keys : rows'[k] \in {rows[k], None},
           supp' \in [Ids -> Times \cup {None}], reports' \subseteq reports,
           now' \in Times
    PROVE  IInv'
<1>1. TypeOK'
  BY DEF IInv, TypeOK, Docs
<1>2. ReportInv'
  BY DEF IInv, ReportInv
<1> QED
  BY <1>1, <1>2 DEF IInv

(* A drift that counts removes the rows it outdates. *)
LEMMA DriftStep ==
    ASSUME IInv, NEW r \in reports, FoldDrift(r)
    PROVE  IInv'
<1>1. /\ r \in Reports /\ r.id \in Ids /\ r.at \in Times /\ rows \in Docs
      /\ now' = now /\ reports' = reports \ {r}
  BY ReportFacts DEF FoldDrift, Fold
<1>2. now \in Times /\ supp \in [Ids -> Times \cup {None}]
  BY DEF IInv, TypeOK
<1>3. CASE Delayed(r)
  <2>1. rows' = Retained(rows, r.at) /\ UNCHANGED supp
    BY <1>3 DEF FoldDrift
  <2>2. rows' \in Docs /\ \A k \in Keys : rows'[k] \in {rows[k], None}
    BY <1>1, <2>1, RetainedFacts
  <2> QED
    BY <1>1, <1>2, <2>1, <2>2, RemovingStep
<1>4. CASE ~ Delayed(r)
  <2> DEFINE o == Without(rows, Of(r.id))
  <2>1. /\ rows' = Retained(o, r.at) /\ supp' \in Bounded([supp EXCEPT ![r.id] = r.at])
    BY <1>4 DEF FoldDrift
  <2>2. o \in Docs /\ \A k \in Keys : o[k] = IF k \in Of(r.id) THEN None ELSE rows[k]
    BY <1>1, WithoutFacts
  <2> HIDE DEF o
  <2>3. rows' \in Docs /\ \A k \in Keys : rows'[k] \in {o[k], None}
    BY <2>1, <2>2, RetainedFacts
  <2>4. [supp EXCEPT ![r.id] = r.at] \in [Ids -> Times \cup {None}]
    BY <1>1, <1>2
  <2>5. supp' \in [Ids -> Times \cup {None}]
    BY <2>1, <2>4, BoundedType
  <2>6. TypeOK'
    BY <1>1, <2>1, <2>3, <2>5 DEF IInv, TypeOK, Docs
  <2>7. ReportInv'
    BY <1>1 DEF IInv, ReportInv
  <2> QED
    BY <2>6, <2>7 DEF IInv
<1> QED
  BY <1>3, <1>4

(* The steps that only remove rows, or leave them. *)
LEMMA OtherSteps ==
    ASSUME IInv, \/ \E r \in reports : FoldUnavailable(r)
                 \/ \E id \in Ids : Purge(id)
                 \/ Prune \/ Tick \/ UNCHANGED vars
    PROVE  IInv'
<1>0. rows \in Docs /\ now \in Times /\ now \in Nat /\ supp \in [Ids -> Times \cup {None}]
  BY DEF IInv, TypeOK, Docs, Times
<1>1. ASSUME NEW r \in reports, FoldUnavailable(r) PROVE IInv'
  <2> DEFINE o == Without(rows, Of(r.id))
  <2>1. /\ rows' = Retained(o, now) /\ supp' = [supp EXCEPT ![r.id] = None]
        /\ reports' = reports \ {r} /\ UNCHANGED now
    BY <1>1 DEF FoldUnavailable, Fold
  <2>2. o \in Docs /\ \A k \in Keys : o[k] \in {rows[k], None}
    BY <1>0, WithoutFacts
  <2> HIDE DEF o
  <2>3. rows' \in Docs /\ \A k \in Keys : rows'[k] \in {o[k], None}
    BY <2>1, <2>2, RetainedFacts
  <2> QED
    BY <1>0, <2>1, <2>2, <2>3, RemovingStep
<1>2. ASSUME NEW id \in Ids, Purge(id) PROVE IInv'
  <2>1. rows' = Without(rows, Of(id)) /\ UNCHANGED <<now, reports, supp>>
    BY <1>2 DEF Purge
  <2>2. rows' \in Docs /\ \A k \in Keys : rows'[k] \in {rows[k], None}
    BY <1>0, <2>1, WithoutFacts
  <2> QED
    BY <1>0, <2>1, <2>2, RemovingStep
<1>3. ASSUME Prune PROVE IInv'
  <2>1. rows' = Retained(rows, now) /\ UNCHANGED <<now, reports, supp>>
    BY <1>3 DEF Prune
  <2>2. rows' \in Docs /\ \A k \in Keys : rows'[k] \in {rows[k], None}
    BY <1>0, <2>1, RetainedFacts
  <2> QED
    BY <1>0, <2>1, <2>2, RemovingStep
<1>4. ASSUME Tick \/ UNCHANGED vars PROVE IInv'
  <2>1. now' \in Times /\ UNCHANGED <<reports, rows, supp>>
    BY <1>0, <1>4, ConstantsAssumption DEF Tick, vars, Times
  <2> QED
    BY <1>0, <2>1, RemovingStep
<1> QED
  BY <1>1, <1>2, <1>3, <1>4

(* A reader finishes: its report is about its own identity. *)
LEMMA ReadStep ==
    ASSUME IInv, NEW by \in Writers, NEW id \in Ids, NEW kind \in {"success", "drift", "unavailable"},
           NEW keys \in SUBSET Of(id), Read(by, id, kind, keys)
    PROVE  IInv'
<1> DEFINE r == [by |-> by, id |-> id, at |-> now, kind |-> kind, keys |-> keys]
<1>1. reports' = reports \cup {r} /\ UNCHANGED <<now, rows, supp>>
  BY DEF Read
<1>2. r \in Reports /\ r.keys \subseteq Of(r.id) /\ (r.kind # "success" => r.by = "desktop")
  BY DEF IInv, TypeOK, Reports, Of, Read
<1> HIDE DEF r
<1>3. TypeOK' /\ ReportInv'
  BY <1>1, <1>2 DEF IInv, TypeOK, ReportInv
<1> QED
  BY <1>3 DEF IInv

(* The invariant holds throughout. *)
THEOREM Invariance == Spec => []IInv
<1>1. Init => IInv
  <2> SUFFICES ASSUME Init PROVE IInv
    OBVIOUS
  <2>1. TypeOK
    BY ConstantsAssumption DEF Init, TypeOK, Times
  <2>2. ReportInv
    BY DEF Init, ReportInv
  <2> QED
    BY <2>1, <2>2 DEF IInv
<1>2. IInv /\ [Next]_vars => IInv'
  <2> SUFFICES ASSUME IInv, [Next]_vars PROVE IInv'
    OBVIOUS
  <2>1. ASSUME NEW id \in Ids, NEW by \in Writers, NEW keys \in SUBSET Of(id), Read(by, id, "success", keys)
        PROVE  IInv'
    BY <2>1, ReadStep
  <2>2. ASSUME NEW id \in Ids, NEW kind \in {"drift", "unavailable"}, Read("desktop", id, kind, {})
        PROVE  IInv'
    <3>1. "desktop" \in Writers /\ {} \in SUBSET Of(id) /\ kind \in {"success", "drift", "unavailable"}
      BY DEF Writers
    <3> QED
      BY <2>2, <3>1, ReadStep
  <2> QED
    BY <2>1, <2>2, SuccessStep, DriftStep, OtherSteps DEF Next, Success
<1> QED
  BY <1>1, <1>2, PTL DEF Spec

(* Every variable stays in its set, the bounded suppressions too. *)
THEOREM TypeCorrect == Spec => []TypeOK
  BY Invariance, PTL DEF IInv

(* How each step changes rows and reports: it folds one success, or it      *)
(* only removes rows.                                                       *)
LEMMA RowsChange ==
    ASSUME IInv, [Next]_vars
    PROVE  \/ \E r \in reports : Success(r)
           \/ \A k \in Keys : rows'[k] \in {rows[k], None}
<1>0. rows \in Docs
  BY DEF IInv, TypeOK, Docs
<1>1. ASSUME NEW doc \in Docs, \A k \in Keys : doc[k] \in {rows[k], None}, NEW t, rows' = Retained(doc, t)
      PROVE  \A k \in Keys : rows'[k] \in {rows[k], None}
  BY <1>1, RetainedFacts
<1>2. ASSUME NEW ks
      PROVE  Without(rows, ks) \in Docs /\ \A k \in Keys : Without(rows, ks)[k] \in {rows[k], None}
  BY <1>0, WithoutFacts
<1>3. ASSUME NEW r \in reports, FoldDrift(r) \/ FoldUnavailable(r)
      PROVE  \A k \in Keys : rows'[k] \in {rows[k], None}
  BY <1>0, <1>1, <1>2, <1>3 DEF FoldDrift, FoldUnavailable
<1>4. ASSUME NEW id \in Ids, Purge(id)
      PROVE  \A k \in Keys : rows'[k] \in {rows[k], None}
  BY <1>2, <1>4 DEF Purge
<1>5. ASSUME Prune
      PROVE  \A k \in Keys : rows'[k] \in {rows[k], None}
  BY <1>0, <1>1, <1>5 DEF Prune
<1>6. CASE rows' = rows
  BY <1>6
<1> QED
  BY <1>3, <1>4, <1>5, <1>6 DEF Next, Success, Read, Tick, vars

(* A row only moves forward. *)
THEOREM RowsMoveForward == Spec => RowsNeverGoBack
<1> DEFINE Ok == \A k \in Keys : rows[k] # None /\ rows'[k] # None => rows'[k].at >= rows[k].at
<1>1. ASSUME IInv, [Next]_vars PROVE Ok
  <2> SUFFICES ASSUME NEW k \in Keys, rows[k] # None, rows'[k] # None
               PROVE  rows'[k].at >= rows[k].at
    OBVIOUS
  <2>1. rows[k].at \in Nat
    BY <1>1 DEF IInv, TypeOK, Rows, Times
  <2>2. CASE rows'[k] = rows[k]
    BY <2>1, <2>2
  <2>3. ASSUME NEW r \in reports, Success(r)
        PROVE  rows'[k].at >= rows[k].at
    <3>1. r.at \in Nat /\ Gentle(r)
      BY <1>1, <2>3, SuccessShape, ReportFacts
    <3>2. rows'[k] = rows[k] \/ (~ After(k, r.at) /\ rows'[k].at = r.at)
      BY <3>1 DEF Gentle
    <3> QED
      BY <2>1, <3>1, <3>2 DEF After
  <2> QED
    BY <1>1, <2>2, <2>3, RowsChange
<1>2. IInv /\ [Next]_vars => [Ok]_vars
  BY <1>1
<1> HIDE DEF Ok
<1>3. Spec => [][Ok]_vars
  BY <1>2, Invariance, PTL DEF Spec
<1> QED
  BY <1>3 DEF RowsNeverGoBack, Ok

(* The report a step takes. *)
LEMMA Taken ==
    ASSUME IInv, [Next]_vars, NEW r \in reports \ reports'
    PROVE  FoldCli(r) \/ FoldStatusline(r) \/ FoldSuccess(r) \/ FoldDrift(r) \/ FoldUnavailable(r)
<1> DEFINE Any(q) == FoldCli(q) \/ FoldStatusline(q) \/ FoldSuccess(q) \/ FoldDrift(q) \/ FoldUnavailable(q)
<1>1. \A q \in reports : Any(q) => reports' = reports \ {q}
  BY DEF FoldCli, FoldStatusline, FoldSuccess, FoldDrift, FoldUnavailable, Fold
<1>2. \/ \E q \in reports : Any(q)
      \/ reports \subseteq reports'
  BY DEF Next, Read, Purge, Prune, Tick, vars
<1> HIDE DEF Any
<1>3. Any(r)
  BY <1>1, <1>2
<1> QED
  BY <1>3 DEF Any

(* A success clears a suppression of its own identity that is no newer, and *)
(* no other.                                                                *)
THEOREM StaleClearsNothing == Spec => StaleKeepsSuppression
<1> DEFINE Ok == \A r \in reports \ reports' : \A id \in Ids :
                    r.kind = "success" /\ supp[id] # None /\ supp'[id] = None
                        => id = r.id /\ r.at >= supp[id]
<1>1. ASSUME IInv, [Next]_vars PROVE Ok
  <2> SUFFICES ASSUME NEW r \in reports \ reports', NEW id \in Ids,
                      r.kind = "success", supp[id] # None, supp'[id] = None
               PROVE  id = r.id /\ r.at >= supp[id]
    OBVIOUS
  <2>1. r.at \in Nat /\ r.id \in Ids
    BY <1>1, ReportFacts
  <2>2. supp \in [Ids -> Times \cup {None}] /\ supp[id] \in Nat
    BY <1>1 DEF IInv, TypeOK, Times
  <2>3. FoldCli(r) \/ FoldStatusline(r) \/ FoldSuccess(r)
    <3>1. ~ FoldDrift(r) /\ ~ FoldUnavailable(r)
      BY DEF FoldDrift, FoldUnavailable
    <3> QED
      BY <1>1, <3>1, Taken
  <2>4. /\ supp' = [supp EXCEPT ![r.id] = None]
        /\ supp[r.id] = None \/ ~ (supp[r.id] > r.at) \/ supp[r.id] < r.at
    BY <2>2, <2>3 DEF FoldCli, ApplySuccess, FoldStatusline, FoldSuccess
  <2>5. id = r.id
    BY <2>1, <2>2, <2>4
  <2> QED
    BY <2>1, <2>2, <2>4, <2>5
<1>2. IInv /\ [Next]_vars => [Ok]_vars
  BY <1>1
<1> HIDE DEF Ok
<1>3. Spec => [][Ok]_vars
  BY <1>2, Invariance, PTL DEF Spec
<1> QED
  BY <1>3 DEF StaleKeepsSuppression, Ok

(* Neither of the two ways to break OutdatedStaysHidden for a row. *)
Kept(k) ==
    supp[k[1]] # None /\ Visible(k)' =>
        /\ ~ (rows'[k].at < supp[k[1]])
        /\ rows'[k] = rows[k] => Visible(k)

(* A step that leaves the suppression of a row leaves the row as hidden. *)
LEMMA KeptBySuppression ==
    ASSUME IInv, IInv', NEW k \in Keys, supp'[k[1]] = supp[k[1]]
    PROVE  Kept(k)
<1>1. k[1] \in Ids
  BY KeyId
<1>2. supp[k[1]] # None => supp[k[1]] \in Nat
  BY <1>1 DEF IInv, TypeOK, Times
<1>3. rows'[k] # None => rows'[k].at \in Nat
  BY DEF IInv, TypeOK, Rows, Times
<1> QED
  BY <1>2, <1>3 DEF Kept, Visible

(* A row observed after its suppression was never hidden by it. *)
LEMMA KeptByInstant ==
    ASSUME IInv, NEW k \in Keys,
           rows'[k] # None => /\ rows'[k].at \in Nat
                              /\ rows'[k].at >= supp[k[1]]
                              /\ rows'[k] = rows[k] => rows'[k].at > supp[k[1]]
    PROVE  Kept(k)
<1>1. k[1] \in Ids
  BY KeyId
<1>2. supp[k[1]] # None => supp[k[1]] \in Nat
  BY <1>1 DEF IInv, TypeOK, Times
<1> QED
  BY <1>2 DEF Kept, Visible

(* The tool's report that lifts a suppression brings every row it leaves. *)
LEMMA CliLifts ==
    ASSUME IInv, IInv', NEW r \in reports, FoldCli(r), NEW k \in Keys
    PROVE  Kept(k)
<1> DEFINE deferred == {j \in r.keys : Since(j, r.at)}
           foreign == {j \in Of(r.id) \ r.keys : rows[j] # None /\ rows[j].writer # "cli"}
<1>1. r \in Reports /\ r.at \in Nat /\ rows \in Docs /\ r.id \in Ids /\ k[1] \in Ids
  BY ReportFacts, KeyId
<1>2. supp \in [Ids -> Times \cup {None}] /\ \A id \in Ids : supp[id] # None => supp[id] \in Nat
  BY DEF IInv, TypeOK, Times
<1>3. CASE supp'[k[1]] = supp[k[1]]
  BY <1>3, KeptBySuppression
<1>4. CASE supp'[k[1]] # supp[k[1]]
  <2> DEFINE o == Without(rows, Of(r.id))
             m == Merge(o, r, r.keys)
  <2>1. /\ deferred \cup foreign = {} /\ ~ (supp[r.id] # None /\ supp[r.id] > r.at)
        /\ rows' = Retained(m, r.at) /\ supp' = [supp EXCEPT ![r.id] = None]
    BY <1>4 DEF FoldCli, ApplySuccess
  <2>2. k[1] = r.id /\ supp[r.id] # None
    BY <1>1, <1>2, <1>4, <2>1
  <2>3. k \in Of(r.id)
    BY <2>2 DEF Of
  <2>4. o \in Docs /\ o[k] = None
    BY <1>1, <2>3, WithoutFacts
  <2> HIDE DEF o
  <2>5. m \in Docs /\ m[k] = IF k \in r.keys THEN [at |-> r.at, writer |-> r.by] ELSE o[k]
    BY <1>1, <2>4, MergeFacts
  <2> HIDE DEF m
  <2>6. rows'[k] \in {m[k], None}
    BY <2>1, <2>5, RetainedFacts
  <2>7. rows'[k] # None => k \in r.keys /\ rows'[k].at = r.at
    BY <2>4, <2>5, <2>6
  <2>8. rows'[k] # None => rows'[k] # rows[k]
    <3> SUFFICES ASSUME rows'[k] # None, rows'[k] = rows[k] PROVE FALSE
      OBVIOUS
    <3>1. k \in r.keys /\ rows[k] # None /\ rows[k].at = r.at
      BY <2>7
    <3>2. Since(k, r.at)
      BY <1>1, <3>1 DEF Since
    <3> QED
      BY <2>1, <3>1, <3>2
  <2> QED
    BY <1>1, <1>2, <2>1, <2>2, <2>7, <2>8, KeptByInstant
<1> QED
  BY <1>3, <1>4

(* So does the desktop's, or it leaves a row that is newer still. *)
LEMMA SuccessLifts ==
    ASSUME IInv, IInv', NEW r \in reports, FoldSuccess(r), NEW k \in Keys
    PROVE  Kept(k)
<1> DEFINE taken == {j \in r.keys : ~ After(j, r.at)}
           o == Without(rows, Of(r.id) \ r.keys)
           m == Merge(o, r, taken)
           t == IF r.keys = {} THEN now ELSE r.at
<1>1. r \in Reports /\ r.at \in Nat /\ rows \in Docs /\ r.id \in Ids /\ k[1] \in Ids
  BY ReportFacts, KeyId
<1>2. supp \in [Ids -> Times \cup {None}] /\ \A id \in Ids : supp[id] # None => supp[id] \in Nat
  BY DEF IInv, TypeOK, Times
<1>3. CASE supp'[k[1]] = supp[k[1]]
  BY <1>3, KeptBySuppression
<1>4. CASE supp'[k[1]] # supp[k[1]]
  <2>1. /\ rows' = Retained(m, t)
        /\ supp[r.id] # None /\ supp[r.id] < r.at /\ supp' = [supp EXCEPT ![r.id] = None]
    BY <1>4 DEF FoldSuccess
  <2>2. k[1] = r.id
    BY <1>1, <1>2, <1>4, <2>1
  <2>3. k \in Of(r.id)
    BY <2>2 DEF Of
  <2>4. o \in Docs /\ o[k] = IF k \in Of(r.id) \ r.keys THEN None ELSE rows[k]
    BY <1>1, WithoutFacts
  <2> HIDE DEF o
  <2>5. m \in Docs /\ m[k] = IF k \in taken THEN [at |-> r.at, writer |-> r.by] ELSE o[k]
    BY <1>1, <2>4, MergeFacts
  <2> HIDE DEF m
  <2>6. rows'[k] \in {m[k], None}
    BY <2>1, <2>5, RetainedFacts
  <2>7. After(k, r.at) => rows[k].at \in Nat /\ rows[k].at > r.at
    BY <1>1 DEF After, Docs, Rows, Times
  <2>8. rows'[k] # None => rows'[k].at \in Nat /\ rows'[k].at >= r.at
    BY <1>1, <2>3, <2>4, <2>5, <2>6, <2>7
  <2> QED
    BY <1>1, <1>2, <2>1, <2>2, <2>8, KeptByInstant
<1> QED
  BY <1>3, <1>4

(* A drift lifts no suppression of another identity but at the bound, and   *)
(* then a full set of suppressions at least as new is left.                 *)
LEMMA BoundDrops ==
    ASSUME NEW s \in [Ids -> Times \cup {None}], NEW u \in Bounded(s), NEW id \in Ids,
           s[id] # None, u[id] # s[id]
    PROVE  Cardinality(Outliving(u, s[id])) >= MaxSupp
<1> DEFINE held == {i \in Ids : s[i] # None}
<1>1. IsFiniteSet(held)
  <2>1. held \subseteq Ids
    OBVIOUS
  <2> QED
    BY <2>1, ConstantsAssumption, FS_Subset
<1>2. /\ ~ (Cardinality(held) <= MaxSupp)
      /\ u \in {[s EXCEPT ![i] = None] : i \in {i \in held : \A j \in held : s[i] <= s[j]}}
  BY DEF Bounded
<1>3. PICK i \in held : u = [s EXCEPT ![i] = None] /\ \A j \in held : s[i] <= s[j]
  BY <1>2
<1>4. i = id
  BY <1>3
<1>5. \A j \in held : s[j] \in Nat
  BY DEF Times
<1>6. Outliving(u, s[id]) = held \ {id}
  <2>1. ASSUME NEW j \in Outliving(u, s[id]) PROVE j \in held \ {id}
    BY <1>3, <1>4, <2>1 DEF Outliving
  <2>2. ASSUME NEW j \in held, j # id PROVE j \in Outliving(u, s[id])
    BY <1>3, <1>4, <1>5, <2>2 DEF Outliving
  <2> QED
    BY <2>1, <2>2
<1>7. Cardinality(held) \in Nat
  BY <1>1, FS_CardinalityType
<1>8. Cardinality(held \ {id}) = Cardinality(held) - 1
  BY <1>1, <1>3, <1>4, FS_RemoveElement
<1> QED
  BY <1>2, <1>6, <1>7, <1>8, ConstantsAssumption

LEMMA DriftLifts ==
    ASSUME IInv, IInv', NEW r \in reports, FoldDrift(r), NEW k \in Keys, supp[k[1]] # None
    PROVE  Kept(k) \/ Cardinality(Outliving(supp', supp[k[1]])) >= MaxSupp
<1>1. r \in Reports /\ r.at \in Times /\ rows \in Docs /\ r.id \in Ids /\ k[1] \in Ids
  BY ReportFacts, KeyId
<1>2. supp \in [Ids -> Times \cup {None}]
  BY DEF IInv, TypeOK
<1>3. CASE supp'[k[1]] = supp[k[1]]
  BY <1>3, KeptBySuppression
<1>4. CASE supp'[k[1]] # supp[k[1]]
  <2> DEFINE o == Without(rows, Of(r.id))
             s == [supp EXCEPT ![r.id] = r.at]
  <2>1. rows' = Retained(o, r.at) /\ supp' \in Bounded(s)
    BY <1>4 DEF FoldDrift
  <2>2. CASE k[1] = r.id
    <3>1. o \in Docs /\ o[k] = None
      BY <1>1, <2>2, WithoutFacts DEF Of
    <3> HIDE DEF o
    <3>2. rows'[k] = None
      BY <2>1, <3>1, RetainedFacts
    <3> QED
      BY <3>2, KeptByInstant
  <2>3. CASE k[1] # r.id
    <3>1. s \in [Ids -> Times \cup {None}] /\ s[k[1]] = supp[k[1]]
      BY <1>1, <1>2, <2>3
    <3> HIDE DEF s
    <3> QED
      BY <1>1, <1>4, <2>1, <3>1, BoundDrops
  <2> QED
    BY <2>2, <2>3
<1> QED
  BY <1>3, <1>4

(* An unavailable provider keeps no row at all. *)
LEMMA UnavailableLifts ==
    ASSUME IInv, IInv', NEW r \in reports, FoldUnavailable(r), NEW k \in Keys
    PROVE  Kept(k)
<1> DEFINE o == Without(rows, Of(r.id))
<1>1. rows \in Docs /\ r.id \in Ids /\ k[1] \in Ids
  BY ReportFacts, KeyId
<1>2. rows' = Retained(o, now) /\ supp' = [supp EXCEPT ![r.id] = None]
  BY DEF FoldUnavailable
<1>3. CASE k[1] = r.id
  <2>1. o \in Docs /\ o[k] = None
    BY <1>1, <1>3, WithoutFacts DEF Of
  <2> HIDE DEF o
  <2>2. rows'[k] = None
    BY <1>2, <2>1, RetainedFacts
  <2> QED
    BY <2>2, KeptByInstant
<1>4. CASE k[1] # r.id
  <2>1. supp'[k[1]] = supp[k[1]]
    BY <1>1, <1>2, <1>4 DEF IInv, TypeOK
  <2> QED
    BY <2>1, KeptBySuppression
<1> QED
  BY <1>3, <1>4

(* While a drift suppresses an identity no row from before it is shown, for *)
(* any number of identities, of writers and of reports in any order, except *)
(* where the bound on suppressions drops the oldest (boundSuppressions).    *)
THEOREM HiddenUntilLifted == Spec => OutdatedStaysHidden
<1> DEFINE Ok == \A k \in Keys :
                    /\ supp[k[1]] # None /\ Visible(k)'
                    /\ rows'[k].at < supp[k[1]] \/ (rows'[k] = rows[k] /\ ~ Visible(k))
                    => Cardinality(Outliving(supp', supp[k[1]])) >= MaxSupp
<1>1. ASSUME IInv, IInv', [Next]_vars PROVE Ok
  <2> SUFFICES ASSUME NEW k \in Keys, supp[k[1]] # None, ~ Kept(k)
               PROVE  Cardinality(Outliving(supp', supp[k[1]])) >= MaxSupp
    BY DEF Kept
  <2>1. supp' # supp
    BY <1>1, KeptBySuppression
  <2>2. PICK r \in reports : FoldCli(r) \/ FoldSuccess(r) \/ FoldDrift(r) \/ FoldUnavailable(r)
    BY <1>1, <2>1 DEF Next, Read, FoldStatusline, Purge, Prune, Tick, vars
  <2>3. FoldDrift(r)
    BY <1>1, <2>2, CliLifts, SuccessLifts, UnavailableLifts
  <2> QED
    BY <1>1, <2>3, DriftLifts
<1>2. IInv /\ IInv' /\ [Next]_vars => [Ok]_vars
  BY <1>1
<1> HIDE DEF Ok
<1>3. Spec => [][Ok]_vars
  BY <1>2, Invariance, PTL DEF Spec
<1> QED
  BY <1>3 DEF OutdatedStaysHidden, Ok

(* A drift that arrives late leaves every newer row in sight: its own       *)
(* identity's newer row delays it, and it touches no other's.               *)
LEMMA DriftSparesRow ==
    ASSUME IInv, NEW r \in reports, FoldDrift(r), NEW k \in Keys, Visible(k), rows[k].at > r.at
    PROVE  Visible(k)'
<1>1. r \in Reports /\ r.at \in Times /\ r.at \in Nat /\ rows \in Docs /\ r.id \in Ids /\ k[1] \in Ids
  BY ReportFacts, KeyId
<1>2. rows[k] # None /\ rows[k].at \in Nat
  BY <1>1 DEF Visible, Docs, Rows, Times
<1>3. CASE Delayed(r)
  <2>1. rows' = Retained(rows, r.at) /\ supp' = supp
    BY <1>3 DEF FoldDrift
  <2>2. rows'[k] = rows[k]
    BY <1>1, <1>2, <2>1, RetainedYoung
  <2> QED
    BY <2>1, <2>2 DEF Visible
<1>4. CASE ~ Delayed(r)
  <2> DEFINE o == Without(rows, Of(r.id))
             s == [supp EXCEPT ![r.id] = r.at]
  <2>1. rows' = Retained(o, r.at) /\ supp' \in Bounded(s)
    BY <1>4 DEF FoldDrift
  <2>2. k[1] # r.id /\ k \notin Of(r.id)
    BY <1>2, <1>4 DEF Delayed, After, Of
  <2>3. o \in Docs /\ o[k] = rows[k]
    BY <1>1, <2>2, WithoutFacts
  <2> HIDE DEF o
  <2>4. rows'[k] = rows[k]
    BY <1>1, <1>2, <2>1, <2>3, RetainedYoung
  <2>5. s \in [Ids -> Times \cup {None}] /\ s[k[1]] = supp[k[1]]
    BY <1>1, <2>2 DEF IInv, TypeOK
  <2> HIDE DEF s
  <2>6. supp'[k[1]] \in {supp[k[1]], None}
    BY <1>1, <2>1, <2>5 DEF Bounded
  <2> QED
    BY <2>4, <2>6 DEF Visible
<1> QED
  BY <1>3, <1>4

(* A late drift hides no row observed after it, at any bound. *)
THEOREM DriftSpares == Spec => DriftHidesOnlyOlder
<1> DEFINE Ok == \A r \in reports \ reports' : r.kind = "drift" =>
                    \A k \in Keys : Visible(k) /\ rows[k].at > r.at => Visible(k)'
<1>1. ASSUME IInv, [Next]_vars PROVE Ok
  <2> SUFFICES ASSUME NEW r \in reports \ reports', r.kind = "drift",
                      NEW k \in Keys, Visible(k), rows[k].at > r.at
               PROVE  Visible(k)'
    OBVIOUS
  <2>1. r.by = "desktop"
    BY <1>1 DEF IInv, ReportInv
  <2>2. FoldDrift(r)
    BY <1>1, <2>1, Taken DEF FoldCli, FoldStatusline, FoldSuccess, FoldUnavailable
  <2> QED
    BY <1>1, <2>2, DriftSparesRow
<1>2. IInv /\ [Next]_vars => [Ok]_vars
  BY <1>1
<1> HIDE DEF Ok
<1>3. Spec => [][Ok]_vars
  BY <1>2, Invariance, PTL DEF Spec
<1> QED
  BY <1>3 DEF DriftHidesOnlyOlder, Ok

(* The tool's report leaves a newer row of another writer as it is, whether *)
(* it names the key or leaves it out.                                       *)
LEMMA CliKeeps ==
    ASSUME IInv, NEW r \in reports, FoldCli(r), NEW k \in Keys,
           After(k, r.at), rows[k].writer # "cli"
    PROVE  rows'[k] = rows[k]
<1> DEFINE deferred == {j \in r.keys : Since(j, r.at)}
           foreign == {j \in Of(r.id) \ r.keys : rows[j] # None /\ rows[j].writer # "cli"}
<1>1. r \in Reports /\ r.at \in Nat /\ rows \in Docs /\ r.keys \subseteq Of(r.id)
  BY ReportFacts
<1>2. rows[k] # None /\ rows[k].at \in Nat /\ rows[k].at > r.at
  BY <1>1 DEF After, Docs, Rows, Times
<1>3. k \in r.keys => k \in deferred
  BY <1>1, <1>2 DEF Since
<1>4. k \in Of(r.id) \ r.keys => k \in foreign
  BY <1>2
<1>5. ASSUME NEW doc \in Docs, doc[k] = rows[k], rows' = Retained(doc, r.at)
      PROVE  rows'[k] = rows[k]
  BY <1>1, <1>2, <1>5, RetainedYoung
<1>6. CASE deferred \cup foreign # {}
  <2> DEFINE m == Merge(rows, r, r.keys \ deferred)
  <2>1. rows' = Retained(m, r.at)
    BY <1>6 DEF FoldCli
  <2>2. /\ m \in Docs
        /\ \A j \in Keys : m[j] = IF j \in r.keys \ deferred THEN [at |-> r.at, writer |-> r.by] ELSE rows[j]
    BY <1>1, MergeFacts
  <2> HIDE DEF m
  <2>3. m[k] = rows[k]
    BY <1>3, <2>2
  <2> QED
    BY <1>5, <2>1, <2>2, <2>3
<1>7. CASE deferred \cup foreign = {}
  <2>1. k \notin Of(r.id)
    BY <1>3, <1>4, <1>7
  <2>2. CASE rows' = Retained(rows, r.at)
    BY <1>1, <1>5, <2>2
  <2>3. CASE rows' = Retained(Merge(Without(rows, Of(r.id)), r, r.keys), r.at)
    <3> DEFINE o == Without(rows, Of(r.id))
               m == Merge(o, r, r.keys)
    <3>1. o \in Docs /\ o[k] = rows[k]
      BY <1>1, <2>1, WithoutFacts
    <3> HIDE DEF o
    <3>2. /\ m \in Docs
          /\ \A j \in Keys : m[j] = IF j \in r.keys THEN [at |-> r.at, writer |-> r.by] ELSE o[j]
      BY <1>1, <3>1, MergeFacts
    <3>3. rows' = Retained(m, r.at)
      BY <2>3 DEF o
    <3> HIDE DEF m
    <3>4. m[k] = rows[k]
      BY <1>1, <2>1, <3>1, <3>2
    <3> QED
      BY <1>5, <3>2, <3>3, <3>4
  <2> QED
    BY <1>7, <2>2, <2>3 DEF FoldCli, ApplySuccess
<1> QED
  BY <1>6, <1>7

(* The tool never loses a newer row somebody else wrote. *)
THEOREM CliDefers == Spec => CliKeepsNewer
<1> DEFINE Ok == \A r \in reports \ reports' : r.by = "cli" =>
                    \A k \in Keys : After(k, r.at) /\ rows[k].writer # "cli" => rows'[k] = rows[k]
<1>1. ASSUME IInv, [Next]_vars PROVE Ok
  <2> SUFFICES ASSUME NEW r \in reports \ reports', r.by = "cli", NEW k \in Keys,
                      After(k, r.at), rows[k].writer # "cli"
               PROVE  rows'[k] = rows[k]
    OBVIOUS
  <2>1. FoldCli(r) \/ FoldDrift(r) \/ FoldUnavailable(r)
    BY <1>1, Taken DEF FoldStatusline, FoldSuccess
  <2>2. ~ FoldDrift(r) /\ ~ FoldUnavailable(r)
    BY <1>1 DEF IInv, ReportInv, FoldDrift, FoldUnavailable
  <2> QED
    BY <1>1, <2>1, <2>2, CliKeeps
<1>2. IInv /\ [Next]_vars => [Ok]_vars
  BY <1>1
<1> HIDE DEF Ok
<1>3. Spec => [][Ok]_vars
  BY <1>2, Invariance, PTL DEF Spec
<1> QED
  BY <1>3 DEF CliKeepsNewer, Ok

=============================================================================
