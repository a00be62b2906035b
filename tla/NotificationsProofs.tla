------------------------- MODULE NotificationsProofs ------------------------
(***************************************************************************)
(* The alerts, for every set of readings, ends and bands and every bound   *)
(* on the records: no alert is shown twice or ahead of its record, a saved *)
(* document loads, and every reset taken from an end is an advance.        *)
(***************************************************************************)
EXTENDS Notifications, TLAPS

Rec(doc) == ToSet(doc.records)

(* A popup whose key was not dropped was not shown before and comes once.   *)
Single(ps, lost) ==
    \A i \in DOMAIN ps : ps[i] \notin lost =>
        ps[i] \notin shown /\ \A j \in DOMAIN ps : j # i => ps[j] # ps[i]

(* What is shown, or about to be, is on record or was dropped. *)
AlertInv ==
    /\ mem = disk
    /\ shown \cup ToSet(popups) \subseteq Rec(disk) \cup drained
    /\ Single(popups, drained)
    /\ twice \subseteq drained

(* The same of the batch under way. *)
WorkInv ==
    work # None =>
        /\ popups = <<>>
        /\ Rec(mem) \cup ToSet(work.popups) \subseteq Rec(work.doc) \cup drained \cup work.dropped
        /\ Single(work.popups, drained \cup work.dropped)

(* The ends of a meter, and that its document loads. *)
Dated(p) ==
    IF p.end = NoEnd THEN p.turns = 0
    ELSE p.first # NoEnd /\ p.end >= p.first + Advance * p.turns
DocInv(doc) == Loadable(doc) /\ (doc.meter # None => Dated(doc.meter))
DocsInv == DocInv(disk) /\ (work # None => DocInv(work.doc))

IInv == TypeOK /\ AlertInv /\ WorkInv /\ DocsInv

(*------------------------------- sequences -------------------------------*)

(* What appending and dropping the oldest do to the keys of a sequence.     *)
LEMMA AppendSet ==
    ASSUME NEW r \in Seq(Keys), NEW k \in Keys
    PROVE  Append(r, k) \in Seq(Keys) /\ ToSet(Append(r, k)) = ToSet(r) \cup {k}
<1>1. /\ Append(r, k) \in Seq(Keys) /\ Len(Append(r, k)) = Len(r) + 1
      /\ \A i \in 1 .. Len(r) : Append(r, k)[i] = r[i]
      /\ Append(r, k)[Len(r) + 1] = k
  OBVIOUS
<1>2. Len(r) \in Nat /\ DOMAIN r = 1 .. Len(r) /\ DOMAIN Append(r, k) = 1 .. Len(r) + 1
  BY <1>1
<1>3. ToSet(Append(r, k)) \subseteq ToSet(r) \cup {k}
  BY <1>1, <1>2 DEF ToSet
<1>4. ToSet(r) \cup {k} \subseteq ToSet(Append(r, k))
  BY <1>1, <1>2 DEF ToSet
<1> QED
  BY <1>1, <1>3, <1>4

(* A record that is added stays, and only kept records remain. *)
LEMMA KeptAppend ==
    ASSUME NEW r \in Seq(Keys), NEW k \in Keys, Len(r) <= MaxRecords
    PROVE  LET more == Kept(Append(r, k)) IN
           /\ more \in Seq(Keys) /\ Len(more) <= MaxRecords
           /\ k \in ToSet(more) /\ ToSet(more) \subseteq ToSet(r) \cup {k}
<1> DEFINE a == Append(r, k)
           more == Kept(a)
<1>1. a \in Seq(Keys) /\ Len(a) = Len(r) + 1 /\ Len(r) \in Nat /\ a[Len(a)] = k
  OBVIOUS
<1>2. ToSet(a) = ToSet(r) \cup {k}
  BY AppendSet
<1> HIDE DEF a
<1>3. MaxRecords \in Nat /\ MaxRecords >= 1
  BY ConstantsAssumption
<1>4. CASE Len(a) <= MaxRecords
  BY <1>1, <1>2, <1>3, <1>4 DEF Kept, ToSet
<1>5. CASE ~ (Len(a) <= MaxRecords)
  <2>1. more = SubSeq(a, 2, Len(a)) /\ Len(a) = MaxRecords + 1 /\ Len(a) >= 2
    BY <1>1, <1>3, <1>5 DEF Kept
  <2>2. /\ more \in Seq(Keys) /\ Len(more) = Len(a) - 1
        /\ \A i \in 1 .. Len(a) - 1 : more[i] = a[i + 1]
    BY <1>1, <2>1
  <2>3. DOMAIN more = 1 .. Len(a) - 1 /\ DOMAIN a = 1 .. Len(a)
    BY <1>1, <2>2
  <2> HIDE DEF more
  <2>4. ToSet(more) \subseteq ToSet(a)
    BY <1>1, <2>2, <2>3 DEF ToSet
  <2>5. k \in ToSet(more)
    <3>1. Len(a) - 1 \in 1 .. Len(a) - 1 /\ more[Len(a) - 1] = k
      BY <1>1, <1>3, <2>1, <2>2
    <3> QED
      BY <2>3, <3>1 DEF ToSet
  <2>6. Len(more) <= MaxRecords
    BY <1>3, <2>1, <2>2
  <2> QED
    BY <1>2, <2>2, <2>4, <2>5, <2>6, Zenon DEF more, a
<1> QED
  BY <1>4, <1>5 DEF a

(*--------------------------------- meters --------------------------------*)

(* Multiplying by a window once more adds a window. *)
LEMMA OneMore ==
    ASSUME NEW t \in Nat, NEW a \in Nat
    PROVE  a * t \in Nat /\ a * (t + 1) = a * t + a
  OBVIOUS

(* A first reading makes a meter that loads. *)
LEMMA BaselineOK ==
    ASSUME NEW s \in Samples
    PROVE  /\ Baseline(s) \in Meters /\ Dated(Baseline(s))
           /\ Baseline(s).peak >= Baseline(s).last
<1>1. s.value \in Nat /\ s.value \in Values /\ s.end \in Windows /\ s.at \in Times
  BY ConstantsAssumption DEF Samples
<1>2. Baseline(s) \in Meters
  BY <1>1 DEF Baseline, Meters
<1>3. s.end = NoEnd \/ s.end \in Nat
  BY <1>1, ConstantsAssumption DEF Windows
<1>4. Advance * 0 = 0
  BY ConstantsAssumption
<1>5. Dated(Baseline(s))
  BY <1>3, <1>4 DEF Baseline, Dated
<1> QED
  BY <1>1, <1>2, <1>5 DEF Baseline

(* A later reading keeps the meter typed, loadable and dated. *)
LEMMA MovedOK ==
    ASSUME NEW p \in Meters, NEW s \in Samples, Dated(p), p.peak >= p.last
    PROVE  /\ Moved(p, s) \in Meters /\ Dated(Moved(p, s))
           /\ Moved(p, s).peak >= Moved(p, s).last
<1>1. /\ s.value \in Nat /\ s.value \in Values /\ s.end \in Windows /\ s.at \in Times
      /\ p.end \in Windows /\ p.first \in Windows /\ p.turns \in Nat /\ p.reset \in Nat
      /\ p.peak \in Values /\ p.peak \in Nat /\ p.low \in Times \cup {None}
  BY ConstantsAssumption DEF Samples, Meters
<1>2. /\ s.end = NoEnd \/ s.end \in Nat
      /\ p.end = NoEnd \/ p.end \in Nat
      /\ p.first = NoEnd \/ p.first \in Nat
      /\ Advance \in Nat /\ NoEnd \notin Nat
  BY <1>1, ConstantsAssumption DEF Windows
<1>3. NewEnd(p, s) \in Windows /\ ResetId(p, s) \in Nat
  BY <1>1 DEF NewEnd, ResetId
<1>4. Candidate(p, s) \in Times \cup {None}
  BY <1>1 DEF Candidate
<1>5. Moved(p, s) \in Meters
  BY <1>1, <1>3, <1>4 DEF Moved, Meters
<1>6. Moved(p, s).peak >= Moved(p, s).last
  BY <1>1 DEF Moved
<1>7. Dated(Moved(p, s))
  <2> DEFINE q == Moved(p, s)
  <2>1. /\ q.end = NewEnd(p, s) /\ q.first = (IF p.end = NoEnd THEN s.end ELSE p.first)
        /\ q.turns = (IF Advanced(p, s) THEN p.turns + 1 ELSE p.turns)
    BY DEF Moved
  <2> SUFFICES Dated(q)
    OBVIOUS
  <2> HIDE DEF q
  <2>2. CASE p.end = NoEnd
    <3>1. q.end = s.end /\ q.first = s.end /\ q.turns = 0
      BY <1>2, <2>1, <2>2 DEF NewEnd, Advanced, Dated
    <3>2. Advance * 0 = 0
      BY <1>2
    <3> QED
      BY <1>2, <3>1, <3>2 DEF Dated
  <2>3. CASE p.end # NoEnd /\ Advanced(p, s)
    <3>1. /\ s.end \in Nat /\ s.end - p.end >= Advance /\ p.end \in Nat /\ p.first \in Nat
          /\ p.end >= p.first + Advance * p.turns
      BY <1>2, <2>3 DEF Advanced, Dated
    <3>2. Advance * p.turns \in Nat /\ Advance * (p.turns + 1) = Advance * p.turns + Advance
      BY <1>1, <1>2, OneMore
    <3>3. q.end = s.end /\ q.first = p.first /\ q.turns = p.turns + 1
      BY <1>2, <2>1, <2>3, <3>1 DEF NewEnd
    <3> HIDE DEF NewEnd
    <3>4. q.end >= q.first + Advance * q.turns
      BY <1>2, <3>1, <3>2, <3>3
    <3> QED
      BY <1>2, <3>1, <3>3, <3>4 DEF Dated
  <2>4. CASE p.end # NoEnd /\ ~ Advanced(p, s)
    <3>1. /\ p.end \in Nat /\ p.first \in Nat /\ p.end >= p.first + Advance * p.turns
          /\ q.first = p.first /\ q.turns = p.turns
      BY <1>2, <2>1, <2>4 DEF Dated
    <3>2. q.end \in Nat /\ q.end >= p.end
      BY <1>2, <2>1, <2>4, <3>1 DEF NewEnd
    <3>3. Advance * p.turns \in Nat
      BY <1>1, <1>2, OneMore
    <3>4. q.end >= q.first + Advance * q.turns
      BY <3>1, <3>2, <3>3
    <3> QED
      BY <1>2, <3>1, <3>2, <3>4 DEF Dated
  <2> QED
    BY <2>2, <2>3, <2>4
<1> QED
  BY <1>5, <1>6, <1>7

(* The alerts a sample names are typed. *)
LEMMA DueType ==
    ASSUME NEW doc \in Documents, NEW s \in Samples, doc.meter # None
    PROVE  Due(doc, s) \subseteq Alerts
<1> DEFINE p == doc.meter
<1>1. ResetId(p, s) \in Nat /\ s.end \in Windows
  BY DEF Documents, Meters, Samples, ResetId
<1>2. Crossed(p, s) \subseteq Bands
  BY DEF Crossed
<1>3. ASSUME NEW b \in Bands \cup {Reset}, NEW l \in BOOLEAN
      PROVE  [key |-> [end |-> s.end, reset |-> ResetId(p, s), band |-> b], last |-> l] \in Alerts
  BY <1>1, <1>3 DEF Alerts, Keys
<1>4. ASSUME NEW a \in Due(doc, s) PROVE a \in Alerts
  <2> DEFINE bands == IF Turned(p, s) THEN {Reset} ELSE Crossed(p, s)
             loud == Highest(Crossed(p, s) \cap doc.bands)
  <2>1. PICK b \in bands :
          a = [key |-> [end |-> s.end, reset |-> ResetId(p, s), band |-> b], last |-> b = Reset \/ b \in loud]
    BY <1>4 DEF Due
  <2>2. b \in Bands \cup {Reset}
    BY <1>2, <2>1
  <2>3. (b = Reset \/ b \in loud) \in BOOLEAN
    OBVIOUS
  <2> QED
    BY <1>3, <2>1, <2>2, <2>3
<1> QED
  BY <1>4

(*--------------------------------- steps ---------------------------------*)

(* Initially nothing is on record. *)
LEMMA Initially == Init => IInv
<1> SUFFICES ASSUME Init PROVE IInv
  OBVIOUS
<1>1. Empty \in Documents /\ Empty.records = <<>> /\ Empty.meter = None
  BY DEF Empty, Documents
<1>2. <<>> \in Seq(Keys) /\ Len(<<>>) = 0 /\ ToSet(<<>>) = {} /\ DOMAIN <<>> = {}
  BY DEF ToSet
<1>3. TypeOK
  BY <1>1, <1>2 DEF Init, TypeOK
<1>4. AlertInv /\ WorkInv
  BY <1>1, <1>2 DEF Init, AlertInv, WorkInv, Rec, Single
<1>5. DocsInv
  BY <1>1, <1>2, ConstantsAssumption DEF Init, DocsInv, DocInv, Loadable
<1> QED
  BY <1>3, <1>4, <1>5 DEF IInv

(* What must hold of a batch for the invariant to hold while it is at work. *)
BatchOK(w) ==
    /\ w \in Works /\ DocInv(w.doc)
    /\ Rec(mem) \cup ToSet(w.popups) \subseteq Rec(w.doc) \cup drained \cup w.dropped
    /\ Single(w.popups, drained \cup w.dropped)

(* A step of a batch leaves everything else alone. *)
LEMMA BatchStep ==
    ASSUME IInv, NEW w, BatchOK(w), work' = w, popups = <<>>,
           UNCHANGED <<mem, disk, popups, shown, twice, drained>>
    PROVE  IInv'
<1>1. TypeOK'
  BY DEF IInv, TypeOK, BatchOK
<1>2. AlertInv'
  BY DEF IInv, AlertInv, Rec, Single
<1>3. WorkInv' /\ DocsInv'
  BY DEF IInv, WorkInv, DocsInv, BatchOK, Rec, Single, DocInv, Dated, Loadable
<1> QED
  BY <1>1, <1>2, <1>3 DEF IInv

(* A batch is typed when its parts are. *)
LEMMA WorkType ==
    ASSUME NEW d \in Documents, NEW ps \in Seq(Keys), NEW t \in SUBSET Alerts, NEW q \in BOOLEAN,
           NEW x \in SUBSET Keys
    PROVE  [doc |-> d, popups |-> ps, todo |-> t, quiet |-> q, dropped |-> x] \in Works
  BY DEF Works

(* The batch a sample is taken into. *)
LEMMA BatchSoFar ==
    ASSUME IInv, NEW w, work = None => popups = <<>>,
           w = IF work # None THEN work
               ELSE [doc |-> mem, popups |-> <<>>, todo |-> {}, quiet |-> FALSE, dropped |-> {}]
    PROVE  BatchOK(w) /\ popups = <<>>
<1>1. CASE work # None
  BY <1>1 DEF IInv, TypeOK, WorkInv, DocsInv, BatchOK
<1>2. CASE work = None
  <2>1. /\ w = [doc |-> mem, popups |-> <<>>, todo |-> {}, quiet |-> FALSE, dropped |-> {}]
        /\ mem \in Documents /\ mem = disk /\ <<>> \in Seq(Keys)
    BY <1>2 DEF IInv, TypeOK, AlertInv
  <2>2. w \in Works
    BY <2>1, WorkType, Zenon
  <2>3. w.popups = <<>> /\ w.doc = mem /\ DOMAIN <<>> = {} /\ ToSet(<<>>) = {}
    BY <2>1 DEF ToSet
  <2> QED
    BY <1>2, <2>1, <2>2, <2>3 DEF IInv, DocsInv, BatchOK, Single
<1> QED
  BY <1>1, <1>2

(* Changing the meter of a document changes nothing on record. *)
LEMMA MeterChange ==
    ASSUME NEW doc \in Documents, NEW m \in Meters, Loadable(doc), Dated(m), m.peak >= m.last
    PROVE  LET new == [doc EXCEPT !.meter = m] IN
           new \in Documents /\ DocInv(new) /\ new.records = doc.records
  BY DEF Documents, DocInv, Loadable

(* A sample moves the meter of the batch. *)
LEMMA SampleStep ==
    ASSUME IInv, NEW s \in Samples, NEW quiet \in BOOLEAN, Sample(s, quiet)
    PROVE  IInv'
<1> DEFINE w == IF work # None THEN work
                ELSE [doc |-> mem, popups |-> <<>>, todo |-> {}, quiet |-> FALSE, dropped |-> {}]
           p == w.doc.meter
<1>0. /\ UNCHANGED <<mem, disk, popups, shown, twice, drained>>
      /\ work = None => popups = <<>>
      /\ work' = IF p = None THEN [w EXCEPT !.doc = [w.doc EXCEPT !.meter = Baseline(s)]]
                 ELSE IF s.at <= p.at THEN w
                 ELSE [doc |-> [w.doc EXCEPT !.meter = Moved(p, s)], popups |-> w.popups,
                       todo |-> Due(w.doc, s), quiet |-> quiet, dropped |-> w.dropped]
  BY DEF Sample
<1>1. BatchOK(w) /\ popups = <<>>
  BY <1>0, BatchSoFar
<1> HIDE DEF w
<1>2. /\ w \in Works /\ w.doc \in Documents /\ w.popups \in Seq(Keys) /\ w.dropped \subseteq Keys
      /\ Loadable(w.doc) /\ (p # None => p \in Meters /\ Dated(p) /\ p.peak >= p.last)
  BY <1>1 DEF BatchOK, Works, Documents, DocInv, Loadable
<1>3. CASE p = None
  <2> DEFINE d == [w.doc EXCEPT !.meter = Baseline(s)]
             v == [w EXCEPT !.doc = d]
  <2>1. d \in Documents /\ DocInv(d) /\ d.records = w.doc.records
    BY <1>2, BaselineOK, MeterChange
  <2> HIDE DEF d
  <2>2. v \in Works /\ v.doc = d /\ v.popups = w.popups /\ v.dropped = w.dropped
    BY <1>2, <2>1 DEF Works
  <2>3. work' = v
    BY <1>0, <1>3 DEF d
  <2> HIDE DEF v
  <2>4. BatchOK(v)
    BY <1>1, <2>1, <2>2 DEF BatchOK, Rec
  <2> QED
    BY <1>0, <1>1, <2>3, <2>4, BatchStep
<1>4. CASE p # None /\ s.at <= p.at
  BY <1>0, <1>1, <1>4, BatchStep
<1>5. CASE p # None /\ ~ (s.at <= p.at)
  <2> DEFINE d == [w.doc EXCEPT !.meter = Moved(p, s)]
             v == [doc |-> d, popups |-> w.popups, todo |-> Due(w.doc, s), quiet |-> quiet,
                   dropped |-> w.dropped]
  <2>1. d \in Documents /\ DocInv(d) /\ d.records = w.doc.records
    BY <1>2, <1>5, MovedOK, MeterChange
  <2>2. work' = v
    BY <1>0, <1>5
  <2>3. Due(w.doc, s) \subseteq Alerts
    BY <1>2, <1>5, DueType
  <2> HIDE DEF d
  <2>4. v \in Works /\ v.doc = d /\ v.popups = w.popups /\ v.dropped = w.dropped
    BY <1>2, <2>1, <2>3 DEF Works
  <2> HIDE DEF v
  <2>5. BatchOK(v)
    BY <1>1, <2>1, <2>4 DEF BatchOK, Rec
  <2> QED
    BY <1>0, <1>1, <2>2, <2>5, BatchStep
<1> QED
  BY <1>3, <1>4, <1>5

(* An alert is recorded: its key was not on record, so unless it was        *)
(* dropped it was neither shown nor is it among the popups.                 *)
LEMMA RecordStep ==
    ASSUME IInv, work # None, NEW a \in work.todo, Record(a)
    PROVE  IInv'
<1> DEFINE records == work.doc.records
           more == Kept(Append(records, a.key))
           v == [doc |-> [work.doc EXCEPT !.records = more], todo |-> work.todo \ {a},
                 popups |-> IF a.last /\ ~ work.quiet THEN Append(work.popups, a.key) ELSE work.popups,
                 quiet |-> work.quiet,
                 dropped |-> work.dropped \cup (ToSet(records) \ ToSet(more))]
<1>0. /\ UNCHANGED <<mem, disk, popups, shown, twice, drained>>
      /\ work' = IF Known(records, a.key) THEN [work EXCEPT !.todo = @ \ {a}] ELSE v
  BY DEF Record
<1>1. BatchOK(work) /\ popups = <<>>
  BY DEF IInv, TypeOK, WorkInv, DocsInv, BatchOK
<1>2. /\ work \in Works /\ work.doc \in Documents /\ work.popups \in Seq(Keys)
      /\ work.dropped \subseteq Keys /\ work.todo \subseteq Alerts /\ work.quiet \in BOOLEAN
      /\ records \in Seq(Keys) /\ a.key \in Keys /\ Len(records) <= MaxRecords
  BY <1>1 DEF BatchOK, Works, Documents, DocInv, Loadable, Alerts
<1>3. CASE Known(records, a.key)
  <2> DEFINE u == [work EXCEPT !.todo = @ \ {a}]
  <2>1. work' = u
    BY <1>0, <1>3
  <2>2. u \in Works /\ u.doc = work.doc /\ u.popups = work.popups /\ u.dropped = work.dropped
    BY <1>2 DEF Works
  <2> HIDE DEF u
  <2>3. BatchOK(u)
    BY <1>1, <2>2 DEF BatchOK
  <2> QED
    BY <1>0, <1>1, <2>1, <2>3, BatchStep
<1>4. CASE ~ Known(records, a.key)
  <2>1. /\ more \in Seq(Keys) /\ Len(more) <= MaxRecords
        /\ a.key \in ToSet(more) /\ ToSet(more) \subseteq ToSet(records) \cup {a.key}
    BY <1>2, KeptAppend
  <2>2. ToSet(records) \subseteq Keys
    BY <1>2 DEF ToSet
  <2> HIDE DEF more
  <2> DEFINE d == [work.doc EXCEPT !.records = more]
             ps == IF a.last /\ ~ work.quiet THEN Append(work.popups, a.key) ELSE work.popups
             x == work.dropped \cup (ToSet(records) \ ToSet(more))
  <2>3. d \in Documents /\ DocInv(d) /\ d.records = more
    BY <1>1, <1>2, <2>1 DEF Documents, BatchOK, DocInv, Loadable
  <2>4. ps \in {work.popups, Append(work.popups, a.key)}
    OBVIOUS
  <2>5. ps \in Seq(Keys) /\ ToSet(ps) \subseteq ToSet(work.popups) \cup {a.key}
    BY <1>2, <2>4, AppendSet
  <2>6. /\ v \in Works /\ v.doc = d /\ v.popups = ps /\ v.dropped = x
    <3>1. x \in SUBSET Keys /\ work.todo \ {a} \in SUBSET Alerts
      BY <1>2, <2>2
    <3> HIDE DEF d, ps, x
    <3>2. v = [doc |-> d, popups |-> ps, todo |-> work.todo \ {a}, quiet |-> work.quiet, dropped |-> x]
      BY DEF d, ps, x
    <3> HIDE DEF v
    <3>3. v \in Works
      BY <1>2, <2>3, <2>5, <3>1, <3>2, WorkType
    <3> QED
      BY <3>2, <3>3
  <2>7. work' = v
    BY <1>0, <1>4
  <2> HIDE DEF v, d, ps
  <2>8. ToSet(records) \subseteq Rec(d) \cup x /\ a.key \in Rec(d) /\ work.dropped \subseteq x
    BY <2>1, <2>3 DEF Rec
  <2> HIDE DEF x
  <2>9. Rec(mem) \cup ToSet(work.popups) \subseteq ToSet(records) \cup drained \cup work.dropped
    BY <1>1 DEF BatchOK, Rec
  <2>10. Rec(mem) \cup ToSet(ps) \subseteq Rec(d) \cup drained \cup x
    BY <2>5, <2>8, <2>9
  <2>11. ASSUME a.key \notin drained \cup x
         PROVE  a.key \notin shown /\ a.key \notin ToSet(work.popups)
    <3>1. a.key \notin ToSet(records)
      BY <1>4 DEF Known
    <3>2. shown \subseteq Rec(mem) \cup drained
      BY DEF IInv, AlertInv
    <3> QED
      BY <2>8, <2>9, <2>11, <3>1, <3>2
  <2>12. Single(ps, drained \cup x)
    <3>1. Single(work.popups, drained \cup work.dropped)
      BY <1>1 DEF BatchOK
    <3>2. Single(work.popups, drained \cup x)
      BY <2>8, <3>1 DEF Single
    <3>3. CASE ps = work.popups
      BY <3>2, <3>3
    <3>4. CASE ps = Append(work.popups, a.key)
      <4> DEFINE n == Len(work.popups)
      <4>1. /\ n \in Nat /\ DOMAIN ps = 1 .. n + 1 /\ DOMAIN work.popups = 1 .. n
            /\ ps[n + 1] = a.key /\ \A i \in 1 .. n : ps[i] = work.popups[i]
        BY <1>2, <3>4
      <4> HIDE DEF n
      <4>2. \A i \in 1 .. n : work.popups[i] \in ToSet(work.popups)
        BY <4>1 DEF ToSet
      <4>3. \A i \in 1 .. n + 1 : i = n + 1 \/ i \in 1 .. n
        BY <4>1
      <4>4. ASSUME NEW i \in 1 .. n, ps[i] \notin drained \cup x
            PROVE  ps[i] \notin shown /\ \A j \in 1 .. n + 1 : j # i => ps[j] # ps[i]
        BY <2>11, <3>2, <4>1, <4>2, <4>3, <4>4 DEF Single
      <4>5. ASSUME ps[n + 1] \notin drained \cup x
            PROVE  ps[n + 1] \notin shown /\ \A j \in 1 .. n + 1 : j # n + 1 => ps[j] # ps[n + 1]
        BY <2>11, <4>1, <4>2, <4>3, <4>5
      <4> QED
        BY <4>1, <4>3, <4>4, <4>5 DEF Single
    <3> QED
      BY <2>4, <3>3, <3>4
  <2>13. BatchOK(v)
    BY <2>3, <2>6, <2>10, <2>12 DEF BatchOK
  <2> QED
    BY <1>0, <1>1, <2>7, <2>13, BatchStep
<1> QED
  BY <1>3, <1>4

(* No popup is pending, and no batch: what is left to keep. *)
LEMMA Quiesced ==
    ASSUME IInv, work' = None, popups' = <<>>, mem' = disk', disk' \in Documents, DocInv(disk'),
           disk'.records = disk.records, UNCHANGED <<shown, twice, drained>>
    PROVE  IInv'
<1>1. <<>> \in Seq(Keys) /\ ToSet(<<>>) = {} /\ DOMAIN <<>> = {}
  BY DEF ToSet
<1>2. TypeOK'
  BY <1>1 DEF IInv, TypeOK
<1>3. AlertInv'
  BY <1>1 DEF IInv, AlertInv, Rec, Single
<1>4. WorkInv' /\ DocsInv'
  BY DEF WorkInv, DocsInv, DocInv, Dated, Loadable
<1> QED
  BY <1>2, <1>3, <1>4 DEF IInv

(* The batch becomes the document, on disk first, or nothing of it remains. *)
LEMMA CommitStep ==
    ASSUME IInv, Commit
    PROVE  IInv'
<1>0. work # None /\ work' = None /\ UNCHANGED <<shown, twice>> /\ popups = <<>> /\ BatchOK(work)
  BY DEF Commit, IInv, TypeOK, WorkInv, DocsInv, BatchOK
<1>1. CASE UNCHANGED <<mem, disk, popups, drained>>
  BY <1>0, <1>1, Quiesced DEF IInv, TypeOK, AlertInv, DocsInv
<1>2. CASE /\ mem' = work.doc /\ disk' = work.doc /\ popups' = work.popups
           /\ drained' = drained \cup work.dropped
  <2>1. work.doc \in Documents /\ work.popups \in Seq(Keys) /\ work.dropped \subseteq Keys
    BY <1>0 DEF BatchOK, Works
  <2>2. TypeOK'
    BY <1>0, <1>2, <2>1 DEF IInv, TypeOK
  <2>3. shown \subseteq Rec(mem) \cup drained /\ twice \subseteq drained
    BY DEF IInv, AlertInv
  <2>4. Rec(mem) \cup ToSet(work.popups) \subseteq Rec(work.doc) \cup drained \cup work.dropped
    BY <1>0 DEF BatchOK
  <2>5. Single(work.popups, drained \cup work.dropped)
    BY <1>0 DEF BatchOK
  <2>6. AlertInv'
    BY <1>0, <1>2, <2>3, <2>4, <2>5 DEF AlertInv, Rec, Single
  <2>7. WorkInv' /\ DocsInv'
    BY <1>0, <1>2 DEF BatchOK, WorkInv, DocsInv, DocInv, Dated, Loadable
  <2> QED
    BY <2>2, <2>6, <2>7 DEF IInv
<1> QED
  BY <1>1, <1>2 DEF Commit

(* A popup is shown, or refused; one shown before is one that was dropped.  *)
LEMMA ShowStep ==
    ASSUME IInv, Show
    PROVE  IInv'
<1> DEFINE k == Head(popups)
<1>0. /\ work = None /\ work' = None /\ popups # <<>> /\ UNCHANGED <<mem, drained>>
      /\ \/ shown' = shown \cup {k} /\ twice' = twice \cup ({k} \cap shown)
         \/ UNCHANGED <<shown, twice>>
      /\ popups' \in {Tail(popups), <<>>} /\ disk' \in {disk, mem}
  BY DEF Show
<1>1. mem = disk /\ popups \in Seq(Keys)
  BY DEF IInv, TypeOK, AlertInv
<1>2. /\ Len(popups) \in Nat /\ Len(popups) >= 1 /\ DOMAIN popups = 1 .. Len(popups) /\ k = popups[1]
      /\ Tail(popups) \in Seq(Keys) /\ DOMAIN Tail(popups) = 1 .. Len(popups) - 1
      /\ \A i \in 1 .. Len(popups) - 1 : Tail(popups)[i] = popups[i + 1]
  BY <1>0, <1>1
<1>3. <<>> \in Seq(Keys) /\ DOMAIN <<>> = {}
  OBVIOUS
<1>4. k \in Keys /\ k \in ToSet(popups) /\ (k \notin drained => k \notin shown)
  BY <1>1, <1>2 DEF ToSet, IInv, AlertInv, Single
<1>5. popups' \in Seq(Keys) /\ ToSet(popups') \subseteq ToSet(popups)
  <2>1. CASE popups' = <<>>
    BY <1>3, <2>1 DEF ToSet
  <2>2. CASE popups' = Tail(popups)
    <3>1. \A i \in DOMAIN popups' : i + 1 \in DOMAIN popups /\ popups'[i] = popups[i + 1]
      BY <1>2, <2>2
    <3> QED
      BY <1>2, <2>2, <3>1 DEF ToSet
  <2> QED
    BY <1>0, <2>1, <2>2
<1>6. mem' = mem /\ disk' = disk
  BY <1>0, <1>1
<1>7. TypeOK'
  BY <1>0, <1>4, <1>5, <1>6 DEF IInv, TypeOK
<1>8. twice' \subseteq drained /\ shown' \subseteq shown \cup {k}
  BY <1>0, <1>4 DEF IInv, AlertInv
<1>9. Single(popups, drained)'
  <2>1. CASE popups' = <<>>
    BY <1>3, <2>1 DEF Single
  <2>2. CASE popups' = Tail(popups)
    <3>1. SUFFICES ASSUME NEW i \in 1 .. Len(popups) - 1, popups'[i] \notin drained
                   PROVE  /\ popups'[i] \notin shown'
                          /\ \A j \in 1 .. Len(popups) - 1 : j # i => popups'[j] # popups'[i]
      BY <1>0, <1>2, <2>2 DEF Single
    <3>2. popups'[i] = popups[i + 1] /\ i + 1 \in DOMAIN popups /\ i + 1 # 1 /\ 1 \in DOMAIN popups
      BY <1>2, <2>2
    <3>3. popups[i + 1] \notin shown /\ \A j \in DOMAIN popups : j # i + 1 => popups[j] # popups[i + 1]
      BY <3>1, <3>2 DEF IInv, AlertInv, Single
    <3>4. popups[i + 1] # k
      BY <1>2, <3>2, <3>3
    <3>5. ASSUME NEW j \in 1 .. Len(popups) - 1, j # i
          PROVE  popups'[j] # popups'[i]
      <4>1. popups'[j] = popups[j + 1] /\ j + 1 \in DOMAIN popups /\ j + 1 # i + 1
        BY <1>2, <2>2, <3>5
      <4> QED
        BY <3>2, <3>3, <4>1
    <3> QED
      BY <1>8, <3>2, <3>3, <3>4, <3>5
  <2> QED
    BY <1>0, <2>1, <2>2
<1>10. shown' \cup ToSet(popups') \subseteq Rec(disk) \cup drained
  BY <1>4, <1>5, <1>8 DEF IInv, AlertInv
<1>11. AlertInv'
  BY <1>0, <1>1, <1>6, <1>8, <1>9, <1>10 DEF AlertInv, Rec
<1>12. WorkInv' /\ DocsInv'
  BY <1>0, <1>6 DEF IInv, WorkInv, DocsInv, DocInv, Dated, Loadable
<1> QED
  BY <1>7, <1>11, <1>12 DEF IInv

(* Settings change the bands alone. *)
LEMMA SetBandsStep ==
    ASSUME IInv, NEW bands \in SUBSET Bands, SetBands(bands)
    PROVE  IInv'
<1>1. /\ work = None /\ popups = <<>> /\ UNCHANGED <<work, popups, shown, twice, drained>>
      /\ mem' = [mem EXCEPT !.bands = bands] /\ disk' = mem' /\ mem = disk /\ mem \in Documents
  BY DEF SetBands, IInv, TypeOK, AlertInv
<1>2. disk' \in Documents /\ disk'.records = disk.records /\ disk'.meter = disk.meter
  BY <1>1 DEF Documents
<1>3. DocInv(disk')
  BY <1>2 DEF IInv, DocsInv, DocInv, Loadable
<1> QED
  BY <1>1, <1>2, <1>3, Quiesced

(* A restart forgets what was under way. *)
LEMMA RestartStep ==
    ASSUME IInv, Restart
    PROVE  IInv'
  BY Quiesced DEF Restart, IInv, TypeOK, DocsInv

(* The invariant holds throughout. *)
THEOREM Invariance == Spec => []IInv
<1>1. Init => IInv
  BY Initially
<1>2. IInv /\ UNCHANGED vars => IInv'
  BY DEF IInv, vars, TypeOK, AlertInv, WorkInv, DocsInv, Rec, Single, DocInv, Dated, Loadable
<1>3. IInv /\ [Next]_vars => IInv'
  BY <1>2, SampleStep, RecordStep, CommitStep, ShowStep, SetBandsStep, RestartStep DEF Next
<1> QED
  BY <1>1, <1>3, PTL DEF Spec

(* Every variable stays in its set, for any number of samples. *)
THEOREM TypeCorrect == Spec => []TypeOK
  BY Invariance, PTL DEF IInv

(* No alert is shown twice while its record is kept: record_event's key     *)
(* test outlives failed writes, refused popups and restarts.                *)
THEOREM ShownOnce == Spec => []OnceEach
<1>1. IInv => OnceEach
  BY DEF IInv, AlertInv, OnceEach
<1> QED
  BY <1>1, Invariance, PTL

(* evaluate_notifications shows nothing before it is on disk. *)
THEOREM RecordedFirst == Spec => []ShownIsOnDisk
<1>1. IInv => ShownIsOnDisk
  BY DEF IInv, AlertInv, ShownIsOnDisk, Rec
<1> QED
  BY <1>1, Invariance, PTL

(* valid_document accepts every document that persist wrote. *)
THEOREM AlwaysLoads == Spec => []DocumentLoads
<1>1. IInv => DocumentLoads
  BY DEF IInv, DocsInv, DocInv, DocumentLoads
<1> QED
  BY <1>1, Invariance, PTL

(* Ends that drift or go back raise no reset. *)
THEOREM Advances == Spec => []ResetsAreAdvances
<1>1. IInv => ResetsAreAdvances
  BY DEF IInv, AlertInv, DocsInv, DocInv, Dated, ResetsAreAdvances
<1> QED
  BY <1>1, Invariance, PTL

=============================================================================
