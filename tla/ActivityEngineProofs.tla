------------------------ MODULE ActivityEngineProofs ------------------------
(***************************************************************************)
(* The activity engine, for any sessions and events and every bound: what  *)
(* it saves it can load, a retired session is not opened again by what is  *)
(* older, a session on disk never goes back, the sequences of the spool    *)
(* only grow, and no transition is announced twice.                        *)
(***************************************************************************)
EXTENDS ActivityEngine, FiniteSetTheorems, TLAPS

(* A session the checkpoint may hold. *)
Good(s) ==
    /\ s \in Session
    /\ s.first <= s.changed /\ s.changed <= s.at /\ s.at <= now
    /\ s.ended # None => s.ended <= s.at
    /\ s.awaiting => s.state = "waiting"
    /\ s.state = "done" => s.conf = "explicit" /\ ~ s.outcome

(* Instants are numbers. *)
LEMMA TimesNat == \A t \in Times : t \in Nat
  BY ConstantsAssumption DEF Times

(* The fields of a session. *)
LEMMA SessionFields ==
    ASSUME NEW s \in Session
    PROVE  /\ s.seq \in Nat /\ s.at \in Times /\ s.first \in Times /\ s.changed \in Times
           /\ s.ended \in Times \cup {None} /\ s.state \in States /\ s.conf \in Confidences
           /\ s.outcome \in BOOLEAN /\ s.awaiting \in BOOLEAN /\ s.lost \in BOOLEAN /\ s.known \in BOOLEAN
           /\ s.at \in Nat /\ s.first \in Nat /\ s.changed \in Nat /\ (s.ended # None => s.ended \in Nat)
           /\ s = [seq |-> s.seq, at |-> s.at, first |-> s.first, changed |-> s.changed,
                   ended |-> s.ended, state |-> s.state, conf |-> s.conf, outcome |-> s.outcome,
                   awaiting |-> s.awaiting, lost |-> s.lost, known |-> s.known]
  BY TimesNat DEF Session

(* What ending a session leaves and sets. *)
LEMMA EndedFields ==
    ASSUME NEW s \in Session, NEW t \in Times
    PROVE  /\ Ended(s, t) \in Session
           /\ Ended(s, t).seq = s.seq /\ Ended(s, t).first = s.first /\ Ended(s, t).at = t
           /\ Ended(s, t).changed = (IF s.state = "unknown" THEN s.changed ELSE t)
           /\ Ended(s, t).ended = (IF s.ended = None THEN t ELSE s.ended)
           /\ Ended(s, t).state = "unknown" /\ Ended(s, t).awaiting = FALSE
<1> DEFINE c == IF s.state = "unknown" THEN s.changed ELSE t
           n == IF s.ended = None THEN t ELSE s.ended
           e == [seq |-> s.seq, at |-> t, first |-> s.first, changed |-> c, ended |-> n,
                 state |-> "unknown", conf |-> "inferred", outcome |-> s.outcome,
                 awaiting |-> FALSE, lost |-> s.lost, known |-> s.known]
<1>1. Ended(s, t) = e
  BY DEF Ended
<1>2. c \in Times /\ n \in Times \cup {None} /\ "unknown" \in States /\ "inferred" \in Confidences
  BY SessionFields DEF States, Confidences
<1>3. /\ s.seq \in Nat /\ s.first \in Times /\ s.outcome \in BOOLEAN /\ s.lost \in BOOLEAN
      /\ s.known \in BOOLEAN
  BY SessionFields
<1>4. PICK b \in BOOLEAN : b = FALSE
  OBVIOUS
<1> HIDE DEF c, n
<1>5. e \in Session
  <2>1. e = [seq |-> s.seq, at |-> t, first |-> s.first, changed |-> c, ended |-> n,
             state |-> "unknown", conf |-> "inferred", outcome |-> s.outcome,
             awaiting |-> b, lost |-> s.lost, known |-> s.known]
    BY <1>4
  <2> HIDE DEF e
  <2> QED
    BY <1>2, <1>3, <1>4, <2>1 DEF Session
<1> QED
  BY <1>1, <1>5 DEF c, n

(* Ending a session now, or at its last event, keeps it good. *)
LEMMA EndedGood ==
    ASSUME NEW s, Good(s), NEW t \in Times, s.at <= t, t <= now, now \in Nat
    PROVE  Good(Ended(s, t))
<1>1. s \in Session /\ t \in Nat
  BY TimesNat DEF Good
<1> DEFINE e == Ended(s, t)
<1>2. /\ e \in Session /\ e.first = s.first /\ e.at = t
      /\ e.changed = (IF s.state = "unknown" THEN s.changed ELSE t)
      /\ e.ended = (IF s.ended = None THEN t ELSE s.ended)
      /\ e.state = "unknown" /\ e.awaiting = FALSE
  BY <1>1, EndedFields
<1> HIDE DEF e
<1>3. /\ s.at \in Nat /\ s.first \in Nat /\ s.changed \in Nat /\ (s.ended # None => s.ended \in Nat)
  BY <1>1, SessionFields
<1>4. e.first <= e.changed /\ e.changed <= e.at /\ e.at <= now
  BY <1>1, <1>2, <1>3 DEF Good
<1>5. e.ended # None => e.ended <= e.at
  BY <1>1, <1>2, <1>3 DEF Good
<1>6. Good(e)
  BY <1>2, <1>4, <1>5 DEF Good
<1> QED
  BY <1>6 DEF e

(* The fields of an event. *)
LEMMA EventFields ==
    ASSUME NEW e \in Events
    PROVE  /\ e.seq \in Nat /\ e.at \in Times /\ e.at \in Nat /\ e.key \in Keys
           /\ e.what.state \in States /\ e.what.conf \in Confidences /\ e.what.outcome \in BOOLEAN
           /\ e.what.state = "done" => e.what.conf = "explicit" /\ ~ e.what.outcome
<1>1. e.what \in ShapesAllowed
  BY ConstantsAssumption DEF Events
<1> QED
  BY <1>1, TimesNat DEF Events, ShapesAllowed

(* A session begins good. *)
LEMMA FreshGood ==
    ASSUME NEW e \in Events, e.at <= now
    PROVE  Good(Fresh(e)) /\ Fresh(e).at = e.at /\ Fresh(e).first = e.at
<1>1. e.seq \in Nat /\ e.at \in Times /\ e.at \in Nat
  BY EventFields
<1>2. "unknown" \in States /\ "inferred" \in Confidences
  BY DEF States, Confidences
<1>3. PICK b \in BOOLEAN : b = FALSE
  OBVIOUS
<1>4. Fresh(e) = [seq |-> e.seq, at |-> e.at, first |-> e.at, changed |-> e.at, ended |-> None,
                  state |-> "unknown", conf |-> "inferred", outcome |-> b, awaiting |-> b,
                  lost |-> b, known |-> b]
  BY <1>3 DEF Fresh
<1>5. Fresh(e) \in Session
  BY <1>1, <1>2, <1>3, <1>4 DEF Session
<1> QED
  BY <1>1, <1>3, <1>4, <1>5 DEF Good

(* What an event that only places a session changes. *)
LEMMA PlacedGood ==
    ASSUME NEW s, Good(s), NEW e \in Events, s.at <= e.at, e.at <= now, now \in Nat
    PROVE  /\ Good(Placed(s, e)) /\ Placed(s, e).seq = e.seq /\ Placed(s, e).at = e.at
           /\ Placed(s, e).first = s.first
<1>1. s \in Session /\ e.seq \in Nat /\ e.at \in Times /\ e.at \in Nat
  BY EventFields DEF Good
<1> DEFINE p == Placed(s, e)
<1>2. /\ p \in Session /\ p.seq = e.seq /\ p.at = e.at /\ p.first = s.first /\ p.changed = s.changed
      /\ p.ended = s.ended /\ p.state = s.state /\ p.conf = s.conf /\ p.outcome = s.outcome
      /\ p.awaiting = s.awaiting
  BY <1>1 DEF Placed, Session
<1> HIDE DEF p
<1>3. s.at \in Nat /\ s.changed \in Nat /\ (s.ended # None => s.ended \in Nat)
  BY <1>1, SessionFields
<1>4. p.first <= p.changed /\ p.changed <= p.at /\ p.at <= now /\ (p.ended # None => p.ended <= p.at)
  BY <1>1, <1>2, <1>3 DEF Good
<1>5. (p.awaiting => p.state = "waiting") /\ (p.state = "done" => p.conf = "explicit" /\ ~ p.outcome)
  BY <1>2 DEF Good
<1>6. Good(p)
  BY <1>2, <1>4, <1>5 DEF Good
<1> QED
  BY <1>2, <1>6 DEF p

(* What an event that changes the state makes of a session. *)
LEMMA UpdatedGood ==
    ASSUME NEW s, Good(s), NEW e \in Events, s.at <= e.at, e.at <= now, now \in Nat,
           NEW fate \in {"same", "lost", "unavailable"} \X BOOLEAN
    PROVE  /\ Good(Updated(s, e, fate)) /\ Updated(s, e, fate).seq = e.seq
           /\ Updated(s, e, fate).at = e.at /\ Updated(s, e, fate).first = s.first
<1> DEFINE u == Updated(s, e, fate)
           c == IF NewState(s, e) = s.state THEN s.changed ELSE e.at
<1>1. /\ s \in Session /\ e.seq \in Nat /\ e.at \in Times /\ e.at \in Nat /\ e.what.state \in States
      /\ e.what.conf \in Confidences /\ e.what.outcome \in BOOLEAN
      /\ e.what.state = "done" => e.what.conf = "explicit" /\ ~ e.what.outcome
  BY EventFields DEF Good
<1>2. /\ s.at \in Nat /\ s.first \in Nat /\ s.first \in Times /\ s.changed \in Nat /\ s.changed \in Times
      /\ s.ended \in Times \cup {None} /\ (s.ended # None => s.ended \in Nat)
  BY <1>1, SessionFields
<1>3. PICK a \in BOOLEAN : a = (Asked(s, e) /\ NewState(s, e) = "waiting")
  OBVIOUS
<1>4. PICK l \in BOOLEAN : l = Lost(s, fate)
  BY DEF Lost
<1>5. PICK n \in {None, s.ended, e.at} :
        u = [seq |-> e.seq, at |-> e.at, first |-> s.first, changed |-> c, ended |-> n,
             state |-> NewState(s, e), conf |-> e.what.conf, outcome |-> e.what.outcome,
             awaiting |-> a, lost |-> l, known |-> fate[2]]
  BY <1>3, <1>4 DEF Updated
<1>6. NewState(s, e) \in States /\ (NewState(s, e) = "done" => e.what.state = "done")
  BY <1>1 DEF NewState, States
<1>7. fate[2] \in BOOLEAN
  OBVIOUS
<1> HIDE DEF u
<1>8. c \in Times /\ c \in Nat /\ s.first <= c /\ c <= e.at
  BY <1>1, <1>2 DEF Good
<1> HIDE DEF c
<1>9. n \in Times \cup {None} /\ (n # None => n <= e.at)
  BY <1>1, <1>2, <1>5 DEF Good
<1>10. u \in Session
  BY <1>1, <1>2, <1>3, <1>4, <1>5, <1>6, <1>7, <1>8, <1>9 DEF Session
<1>11. /\ u.seq = e.seq /\ u.at = e.at /\ u.first = s.first /\ u.changed = c /\ u.ended = n
       /\ u.state = NewState(s, e) /\ u.conf = e.what.conf /\ u.outcome = e.what.outcome /\ u.awaiting = a
  BY <1>5
<1>12. u.awaiting => u.state = "waiting"
  BY <1>3, <1>11, Zenon
<1>13. u.state = "done" => u.conf = "explicit" /\ ~ u.outcome
  BY <1>1, <1>6, <1>11, Zenon
<1>14. Good(u)
  BY <1>8, <1>9, <1>10, <1>11, <1>12, <1>13 DEF Good
<1> QED
  BY <1>11, <1>14 DEF u

(* Whatever an event does, the session stays good and takes its place. *)
LEMMA FoldedGood ==
    ASSUME NEW s, Good(s), NEW e \in Events, s.at <= e.at, e.at <= now, now \in Nat,
           NEW fate \in {"same", "lost", "unavailable"} \X BOOLEAN
    PROVE  /\ Good(Folded(s, e, fate)) /\ Folded(s, e, fate).seq = e.seq
           /\ Folded(s, e, fate).at = e.at /\ Folded(s, e, fate).first = s.first
<1> DEFINE u == Updated(s, e, fate)
<1>1. Good(u) /\ u.seq = e.seq /\ u.at = e.at /\ u.first = s.first /\ u \in Session
  BY UpdatedGood DEF Good
<1>2. e.at \in Times /\ e.at \in Nat
  BY EventFields
<1>3. /\ Good(Ended(u, e.at)) /\ Ended(u, e.at).seq = e.seq /\ Ended(u, e.at).at = e.at
      /\ Ended(u, e.at).first = s.first
  <2>1. u.at <= e.at
    BY <1>1, <1>2
  <2> HIDE DEF u
  <2>2. Good(Ended(u, e.at))
    BY <1>1, <1>2, <2>1, EndedGood
  <2>3. Ended(u, e.at).seq = u.seq /\ Ended(u, e.at).at = e.at /\ Ended(u, e.at).first = u.first
    BY <1>1, <1>2, EndedFields
  <2> QED
    BY <1>1, <2>2, <2>3
<1>4. Folded(s, e, fate) \in {Placed(s, e), Ended(u, e.at), u}
  BY DEF Folded
<1> HIDE DEF u
<1> QED
  BY <1>1, <1>3, <1>4, PlacedGood

(* A probe leaves a session, or ends it now. *)
LEMMA ProbedGood ==
    ASSUME NEW s, Good(s), NEW probe \in Probes, now \in Times, s # None
    PROVE  /\ Good(Probed(s, probe)) /\ Probed(s, probe).seq = s.seq
           /\ Probed(s, probe).first = s.first /\ Probed(s, probe).at >= s.at
<1>1. s \in Session /\ s.at \in Nat /\ now \in Nat
  BY SessionFields, TimesNat DEF Good
<1>2. CASE Probed(s, probe) = s
  BY <1>1, <1>2
<1>3. CASE Probed(s, probe) = Ended([s EXCEPT !.lost = @ \/ probe = "missing"], now)
  <2> DEFINE l == [s EXCEPT !.lost = @ \/ probe = "missing"]
  <2>1. PICK b \in BOOLEAN : b = (s.lost \/ probe = "missing")
    OBVIOUS
  <2>2. l = [s EXCEPT !.lost = b]
    BY <2>1
  <2>3. Good(l) /\ l.seq = s.seq /\ l.first = s.first /\ l.at = s.at /\ l \in Session
    BY <1>1, <2>1, <2>2 DEF Good, Session
  <2> HIDE DEF l
  <2>4. s.at <= now
    BY DEF Good
  <2>5. /\ Good(Ended(l, now)) /\ Ended(l, now).seq = l.seq /\ Ended(l, now).first = l.first
        /\ Ended(l, now).at = now
    <3>1. l.at <= now /\ now <= now
      BY <1>1, <2>3, <2>4
    <3>2. Good(Ended(l, now))
      BY <1>1, <2>3, <3>1, EndedGood
    <3>3. Ended(l, now).seq = l.seq /\ Ended(l, now).first = l.first /\ Ended(l, now).at = now
      BY <2>3, EndedFields
    <3> QED
      BY <3>2, <3>3
  <2>6. Probed(s, probe) = Ended(l, now)
    BY <1>3 DEF l
  <2> QED
    BY <1>1, <2>3, <2>4, <2>5, <2>6
<1> QED
  BY <1>2, <1>3 DEF Probed

(*--------------------------------- engines -------------------------------*)

(* An engine the checkpoint may hold: it stays within its bounds, and a     *)
(* session that is on record as retired is not open.                        *)
Fit(E) ==
    /\ E \in Engines
    /\ IsFiniteSet(E.seen) /\ Cardinality(E.seen) <= MaxSeen /\ \A e \in E.seen : e.at <= now
    /\ IsFiniteSet(Records(E)) /\ Cardinality(Records(E)) <= MaxSeen
    /\ \A k \in Keys : E.retired[k] # None => E.retired[k] <= now /\ E.sessions[k] = None
    /\ IsFiniteSet(Live(E)) /\ Cardinality(Live(E)) <= MaxLive
    /\ \A k \in Live(E) : Good(E.sessions[k])

(* A retirement that is not on record any more is over a day ago, and the   *)
(* session, if it is open again, began after it, except for the sessions of *)
(* X, whose records made room.                                              *)
Past(E, X) ==
    \A k \in Keys \ X : gone[k] # None /\ E.retired[k] = None =>
        gone[k] + Day < now /\ (k \in Live(E) => E.sessions[k].first > gone[k])

(* A session on disk is retired in E, or there and no further back, except  *)
(* for those of X.                                                          *)
Onward(E, X) ==
    \A k \in Live(disk) \ X :
        \/ E.retired[k] # None
        \/ /\ k \in Live(E) /\ E.sessions[k].seq >= disk.sessions[k].seq
           /\ E.sessions[k].at >= disk.sessions[k].at

DiskInv ==
    /\ mem = disk /\ Fit(disk) /\ Past(disk, evicted)
    /\ \A k \in Keys : disk.retired[k] # None => gone[k] = disk.retired[k]

WorkInv ==
    work # None =>
        /\ Fit(work.engine) /\ Past(work.engine, evicted \cup work.shed)
        /\ Onward(work.engine, work.shed)
        /\ \A e \in work.queue : Valid(e)

IInv == TypeOK /\ DiskInv /\ WorkInv

(* The parts of an engine. *)
LEMMA EngineFields ==
    ASSUME NEW E \in Engines
    PROVE  /\ E.sessions \in [Keys -> Session \cup {None}] /\ E.seen \subseteq Events
           /\ E.retired \in [Keys -> Times \cup {None}]
           /\ \A k \in Keys : E.retired[k] # None => E.retired[k] \in Nat
           /\ Live(E) \subseteq Keys /\ \A k \in Keys : k \in Live(E) <=> E.sessions[k] # None
  BY TimesNat DEF Engines, Live

(* An engine that is fit can be loaded. *)
LEMMA FitLoads == ASSUME NEW E, Fit(E) PROVE Loadable(E)
  BY DEF Fit, Loadable, Good, Records

(* maintain: sessions of processes that are gone end, what is old is        *)
(* forgotten, and sessions retire.                                          *)
LEMMA MaintainedFit ==
    ASSUME TypeOK, DiskInv, NEW probes \in [Keys -> Probes], NEW m \in Maintained(disk, probes)
    PROVE  /\ Fit(m.engine) /\ Past(m.engine, evicted \cup m.shed) /\ Onward(m.engine, m.shed)
           /\ m.shed \subseteq Keys
           /\ \A k \in Keys \ m.shed : \/ m.engine.retired[k] \in {now, disk.retired[k]}
                                       \/ m.engine.retired[k] = None /\ Forgotten(disk.retired[k])
<1> DEFINE S == [k \in Keys |-> Probed(disk.sessions[k], probes[k])]
           R == {k \in Keys : S[k] # None /\ Retires(S[k])}
           all == {k \in Records(disk) : ~ Forgotten(disk.retired[k])} \cup R
           M == m.engine
<1>0. now \in Times /\ now \in Nat /\ disk \in Engines /\ Fit(disk) /\ Past(disk, evicted) /\ Day \in Nat
  BY ConstantsAssumption, TimesNat DEF TypeOK, DiskInv
<1>1. PICK kept \in Recorded(disk, R) :
        m = [engine |->
               [sessions |-> [k \in Keys |-> IF k \in R THEN None ELSE S[k]],
                seen |-> {e \in disk.seen : ~ Forgotten(e.at)},
                retired |-> [k \in Keys |-> IF k \notin kept THEN None
                                            ELSE IF k \in R THEN now ELSE disk.retired[k]]],
             shed |-> all \ kept]
  BY DEF Maintained
<1>2. \A k \in Keys : k \in Live(disk) =>
         /\ Good(S[k]) /\ S[k] \in Session /\ S[k].seq = disk.sessions[k].seq
         /\ S[k].first = disk.sessions[k].first /\ S[k].at >= disk.sessions[k].at
  <2> SUFFICES ASSUME NEW k \in Keys, k \in Live(disk)
               PROVE  /\ Good(S[k]) /\ S[k] \in Session /\ S[k].seq = disk.sessions[k].seq
                      /\ S[k].first = disk.sessions[k].first /\ S[k].at >= disk.sessions[k].at
    OBVIOUS
  <2>1. Good(disk.sessions[k]) /\ disk.sessions[k] # None /\ probes[k] \in Probes
    BY <1>0 DEF Fit, Live
  <2>2. S[k] = Probed(disk.sessions[k], probes[k])
    OBVIOUS
  <2> HIDE DEF S
  <2> QED
    BY <1>0, <2>1, <2>2, ProbedGood DEF Good
<1>3. \A k \in Keys : k \notin Live(disk) => S[k] = None
  BY <1>0, EngineFields DEF Probed
<1> HIDE DEF S
<1>4. \A k \in Keys : S[k] \in Session \cup {None}
  BY <1>2, <1>3
<1>5. kept \subseteq all /\ all \subseteq Keys /\ R \subseteq Live(disk) /\ m.shed = all \ kept
  <2>1. kept \subseteq all
    BY DEF Recorded
  <2> QED
    BY <1>1, <1>3, <2>1 DEF Records
<1>6. IsFiniteSet(kept) /\ Cardinality(kept) <= MaxSeen
  <2>1. IsFiniteSet(Live(disk)) /\ IsFiniteSet(Records(disk)) /\ MaxSeen \in Nat
    BY <1>0, ConstantsAssumption DEF Fit
  <2>2. IsFiniteSet(R) /\ IsFiniteSet({k \in Records(disk) : ~ Forgotten(disk.retired[k])})
    BY <1>5, <2>1, FS_Subset
  <2>3. IsFiniteSet(all)
    BY <2>2, FS_Union
  <2>4. IsFiniteSet(kept)
    BY <1>5, <2>3, FS_Subset
  <2>5. Cardinality(kept) = MaxSeen \/ Cardinality(kept) <= MaxSeen
    BY DEF Recorded
  <2> QED
    BY <2>1, <2>4, <2>5
<1>7. /\ M.sessions = [k \in Keys |-> IF k \in R THEN None ELSE S[k]]
      /\ M.seen = {e \in disk.seen : ~ Forgotten(e.at)}
      /\ \A k \in Keys : M.retired[k] = IF k \notin kept THEN None
                                        ELSE IF k \in R THEN now ELSE disk.retired[k]
  BY <1>1
<1>8. M \in Engines
  <2>1. [k \in Keys |-> IF k \in R THEN None ELSE S[k]] \in [Keys -> Session \cup {None}]
    BY <1>4
  <2>2. [k \in Keys |-> IF k \notin kept THEN None
                        ELSE IF k \in R THEN now ELSE disk.retired[k]] \in [Keys -> Times \cup {None}]
    BY <1>0, EngineFields
  <2>3. {e \in disk.seen : ~ Forgotten(e.at)} \subseteq Events
    BY <1>0, EngineFields
  <2>4. M = [sessions |-> [k \in Keys |-> IF k \in R THEN None ELSE S[k]],
             seen |-> {e \in disk.seen : ~ Forgotten(e.at)},
             retired |-> [k \in Keys |-> IF k \notin kept THEN None
                                         ELSE IF k \in R THEN now ELSE disk.retired[k]]]
    BY <1>1
  <2> QED
    BY <2>1, <2>2, <2>3, <2>4 DEF Engines
<1> HIDE DEF M
<1>9. \A k \in Keys : k \in Live(M) => k \in Live(disk) /\ k \notin R /\ M.sessions[k] = S[k]
  BY <1>3, <1>7, <1>8, EngineFields
<1>10. \A k \in Keys : M.retired[k] # None => M.retired[k] <= now /\ M.sessions[k] = None
  <2> SUFFICES ASSUME NEW k \in Keys, M.retired[k] # None
               PROVE  M.retired[k] <= now /\ M.sessions[k] = None
    OBVIOUS
  <2>1. CASE k \in R
    BY <1>0, <1>7, <2>1
  <2>2. CASE k \notin R
    <3>1. M.retired[k] = disk.retired[k]
      BY <1>7, <2>2
    <3>2. disk.retired[k] <= now /\ disk.sessions[k] = None
      BY <1>0, <3>1 DEF Fit
    <3>3. S[k] = None
      BY <1>0, <1>3, <3>2, EngineFields
    <3> QED
      BY <1>7, <2>2, <3>1, <3>2, <3>3
  <2> QED
    BY <2>1, <2>2
<1>11. IsFiniteSet(Live(M)) /\ Cardinality(Live(M)) <= MaxLive
  <2>1. Live(M) \in SUBSET Live(disk)
    BY <1>8, <1>9, EngineFields
  <2>2. IsFiniteSet(Live(disk)) /\ Cardinality(Live(disk)) <= MaxLive
    BY <1>0 DEF Fit
  <2>3. IsFiniteSet(Live(M)) /\ Cardinality(Live(M)) <= Cardinality(Live(disk))
    BY <2>1, <2>2, FS_Subset
  <2>4. Cardinality(Live(M)) \in Nat /\ Cardinality(Live(disk)) \in Nat /\ MaxLive \in Nat
    BY <2>2, <2>3, FS_CardinalityType, ConstantsAssumption
  <2> QED
    BY <2>2, <2>3, <2>4
<1>12. IsFiniteSet(M.seen) /\ Cardinality(M.seen) <= MaxSeen /\ \A e \in M.seen : e.at <= now
  <2>1. M.seen \in SUBSET disk.seen
    BY <1>7
  <2>2. IsFiniteSet(disk.seen) /\ Cardinality(disk.seen) <= MaxSeen /\ \A e \in disk.seen : e.at <= now
    BY <1>0 DEF Fit
  <2>3. IsFiniteSet(M.seen) /\ Cardinality(M.seen) <= Cardinality(disk.seen)
    BY <2>1, <2>2, FS_Subset
  <2>4. Cardinality(M.seen) \in Nat /\ Cardinality(disk.seen) \in Nat /\ MaxSeen \in Nat
    BY <2>2, <2>3, FS_CardinalityType, ConstantsAssumption
  <2> QED
    BY <2>1, <2>2, <2>3, <2>4
<1>13. IsFiniteSet(Records(M)) /\ Cardinality(Records(M)) <= MaxSeen
  <2>1. Records(M) \in SUBSET kept
    BY <1>7 DEF Records
  <2>2. IsFiniteSet(Records(M)) /\ Cardinality(Records(M)) <= Cardinality(kept)
    BY <1>6, <2>1, FS_Subset
  <2>3. Cardinality(Records(M)) \in Nat /\ Cardinality(kept) \in Nat /\ MaxSeen \in Nat
    BY <1>6, <2>2, FS_CardinalityType, ConstantsAssumption
  <2> QED
    BY <1>6, <2>2, <2>3
<1>14. Fit(M)
  <2>1. \A k \in Live(M) : Good(M.sessions[k])
    BY <1>2, <1>8, <1>9, EngineFields
  <2> QED
    BY <1>8, <1>10, <1>11, <1>12, <1>13, <2>1 DEF Fit
<1>15. ASSUME NEW k \in Keys \ m.shed
       PROVE  /\ M.retired[k] = None =>
                    k \notin R /\ (disk.retired[k] = None \/ Forgotten(disk.retired[k]))
              /\ \/ M.retired[k] \in {now, disk.retired[k]}
                 \/ M.retired[k] = None /\ Forgotten(disk.retired[k])
  <2>1. k \in all <=> k \in kept
    BY <1>5
  <2>2. now # None
    BY <1>0, ConstantsAssumption
  <2> QED
    BY <1>7, <2>1, <2>2 DEF Records
<1>16. Past(M, evicted \cup m.shed)
  <2> SUFFICES ASSUME NEW k \in Keys \ (evicted \cup m.shed), gone[k] # None, M.retired[k] = None
               PROVE  gone[k] + Day < now /\ (k \in Live(M) => M.sessions[k].first > gone[k])
    BY DEF Past
  <2>1. k \notin R /\ (disk.retired[k] = None \/ Forgotten(disk.retired[k]))
    BY <1>15
  <2>2. CASE disk.retired[k] = None
    BY <1>0, <1>2, <1>9, <2>2 DEF Past
  <2>3. CASE disk.retired[k] # None
    <3>1. Forgotten(disk.retired[k]) /\ gone[k] = disk.retired[k] /\ disk.sessions[k] = None
      BY <1>0, <2>1, <2>3 DEF DiskInv, Fit
    <3>2. k \notin Live(M)
      BY <1>0, <1>9, <3>1, EngineFields
    <3> QED
      BY <3>1, <3>2 DEF Forgotten
  <2> QED
    BY <2>2, <2>3
<1>17. Onward(M, m.shed)
  <2> SUFFICES ASSUME NEW k \in Live(disk) \ m.shed, M.retired[k] = None
               PROVE  /\ k \in Live(M) /\ M.sessions[k].seq >= disk.sessions[k].seq
                      /\ M.sessions[k].at >= disk.sessions[k].at
    BY DEF Onward
  <2>1. k \in Keys /\ disk.sessions[k] \in Session /\ disk.sessions[k].seq \in Nat
    BY <1>0, EngineFields, SessionFields DEF Fit, Good
  <2>2. k \notin R
    BY <1>15, <2>1
  <2>3. M.sessions[k] = S[k]
    BY <1>7, <2>1, <2>2
  <2>4. S[k] # None
    BY <1>2, <2>1, NoneAssumption
  <2> QED
    BY <1>2, <1>8, <2>1, <2>3, <2>4, EngineFields
<1>18. m.shed \subseteq Keys
  BY <1>5
<1> QED
  BY <1>14, <1>15, <1>16, <1>17, <1>18 DEF M

(* What is announced is a transition. *)
LEMMA NewsType ==
    ASSUME NEW k \in Keys, NEW s, NEW t \in Session, NEW w
    PROVE  News(k, s, t, w) \subseteq Transitions
<1>1. t.seq \in Nat
  BY SessionFields
<1> QED
  BY <1>1 DEF News, Transitions

(* A set with one more element. *)
LEMMA AddOne ==
    ASSUME NEW S, IsFiniteSet(S), NEW x, NEW T, T = S \cup {x}
    PROVE  /\ IsFiniteSet(T) /\ Cardinality(T) \in Nat /\ Cardinality(S) \in Nat
           /\ Cardinality(T) = IF x \in S THEN Cardinality(S) ELSE Cardinality(S) + 1
<1>1. /\ IsFiniteSet(S \cup {x})
      /\ Cardinality(S \cup {x}) = IF x \in S THEN Cardinality(S) ELSE Cardinality(S) + 1
  BY FS_AddElement, Zenon
<1>2. IsFiniteSet(T) /\ Cardinality(T) = IF x \in S THEN Cardinality(S) ELSE Cardinality(S) + 1
  BY <1>1, Zenon
<1> QED
  BY <1>2, FS_CardinalityType

(* An event is remembered within the bound. *)
LEMMA RememberedFit ==
    ASSUME NEW seen, IsFiniteSet(seen), Cardinality(seen) <= MaxSeen, seen \subseteq Events,
           \A f \in seen : f.at <= now, NEW e \in Events, e.at <= now,
           NEW new \in Remembered(seen, e)
    PROVE  /\ IsFiniteSet(new) /\ Cardinality(new) <= MaxSeen /\ new \subseteq Events
           /\ \A f \in new : f.at <= now
<1>0. Cardinality(seen) \in Nat /\ MaxSeen \in Nat
  BY FS_CardinalityType, ConstantsAssumption
<1>1. CASE Cardinality(seen) < MaxSeen
  <2>1. new = seen \cup {e}
    BY <1>1 DEF Remembered
  <2>2. IsFiniteSet(new) /\ Cardinality(new) <= Cardinality(seen) + 1
    BY <1>0, <2>1, AddOne
  <2>3. Cardinality(new) \in Nat
    BY <2>2, FS_CardinalityType
  <2> QED
    BY <1>0, <1>1, <2>1, <2>2, <2>3
<1>2. CASE ~ (Cardinality(seen) < MaxSeen)
  <2>1. PICK f \in Oldest(seen) : new = (seen \ {f}) \cup {e}
    BY <1>2 DEF Remembered
  <2>2. f \in seen
    BY <2>1 DEF Oldest
  <2> DEFINE rest == seen \ {f}
  <2>3. IsFiniteSet(rest) /\ Cardinality(rest) = Cardinality(seen) - 1
    BY <2>2, FS_RemoveElement
  <2>4. new = rest \cup {e}
    BY <2>1
  <2>5. \A g \in new : g \in Events /\ g.at <= now
    BY <2>1
  <2> HIDE DEF rest
  <2>6. IsFiniteSet(new) /\ Cardinality(new) <= Cardinality(rest) + 1
    BY <1>0, <2>3, <2>4, AddOne
  <2>7. Cardinality(new) \in Nat
    BY <2>6, FS_CardinalityType
  <2> QED
    BY <1>0, <2>3, <2>5, <2>6, <2>7
<1> QED
  BY <1>1, <1>2

(* apply takes one event: it is ignored, or opens a session or moves one on. *)
LEMMA TakeStep ==
    ASSUME IInv, work # None, NEW e \in work.queue,
           NEW fate \in {"same", "lost", "unavailable"} \X BOOLEAN, Take(e, fate)
    PROVE  IInv'
<1> DEFINE E == work.engine
           X == evicted \cup work.shed
           s == IF E.sessions[e.key] = None THEN Fresh(e) ELSE E.sessions[e.key]
           t == Folded(s, e, fate)
           known == \E f \in E.seen : f.id = e.id
           skip == known \/ Ignored(E, e)
<1>0. /\ now \in Times /\ now \in Nat /\ work \in Works /\ E \in Engines /\ e \in Events
      /\ Fit(E) /\ Past(E, X) /\ Onward(E, work.shed) /\ Valid(e) /\ e.at <= now /\ now <= e.at + Day /\ Day \in Nat
      /\ UNCHANGED <<now, hooks, count, spool, disk, mem, cold, out, announced, twice, gone, crowded, evicted>>
  BY TimesNat, ConstantsAssumption DEF IInv, TypeOK, WorkInv, Works, Valid, Take, files, ghosts
<1>1. PICK seen \in (IF known THEN {E.seen} ELSE Remembered(E.seen, e)) :
        work' = [engine |-> [sessions |-> IF skip THEN E.sessions ELSE [E.sessions EXCEPT ![e.key] = t],
                             seen |-> seen, retired |-> E.retired],
                 queue |-> work.queue \ {e}, existing |-> work.existing, sweep |-> work.sweep,
                 shed |-> work.shed, out |-> IF skip THEN work.out ELSE work.out \cup News(e.key, s, t, work)]
  BY DEF Take
<1>2. e.key \in Keys /\ e.at \in Nat /\ e.seq \in Nat
  BY <1>0, EventFields
<1>3. /\ E.sessions \in [Keys -> Session \cup {None}] /\ E.seen \subseteq Events
      /\ E.retired \in [Keys -> Times \cup {None}]
      /\ Live(E) \subseteq Keys /\ \A k \in Keys : k \in Live(E) <=> E.sessions[k] # None
  BY <1>0, EngineFields
<1>4. IsFiniteSet(seen) /\ Cardinality(seen) <= MaxSeen /\ seen \subseteq Events /\ \A f \in seen : f.at <= now
  <2>1. IsFiniteSet(E.seen) /\ Cardinality(E.seen) <= MaxSeen /\ \A f \in E.seen : f.at <= now
    BY <1>0 DEF Fit
  <2>2. CASE seen = E.seen
    BY <1>3, <2>1, <2>2
  <2>3. CASE seen \in Remembered(E.seen, e)
    BY <1>0, <1>3, <2>1, <2>3, RememberedFit
  <2> QED
    BY <1>1, <2>2, <2>3
<1>5. ASSUME ~ Ignored(E, e)
      PROVE  /\ E.retired[e.key] = None
             /\ E.sessions[e.key] = None => Cardinality(Live(E)) # MaxLive
             /\ E.sessions[e.key] # None => ~ (e.seq <= E.sessions[e.key].seq) /\ ~ (e.at < E.sessions[e.key].at)
  BY <1>5 DEF Ignored
<1>6. ASSUME ~ Ignored(E, e)
      PROVE  Good(s) /\ s.at <= e.at /\ s \in Session
  <2>1. CASE E.sessions[e.key] = None
    <3>1. s = Fresh(e)
      BY <2>1
    <3>2. Good(Fresh(e)) /\ Fresh(e).at = e.at
      BY <1>0, FreshGood
    <3> QED
      BY <1>2, <3>1, <3>2 DEF Good
  <2>2. CASE E.sessions[e.key] # None
    <3>1. s = E.sessions[e.key] /\ Good(s) /\ s \in Session
      BY <1>0, <1>2, <1>3, <2>2 DEF Fit
    <3>2. s.at \in Nat
      BY <3>1, SessionFields
    <3> QED
      BY <1>2, <1>5, <1>6, <2>2, <3>1, <3>2
  <2> QED
    BY <2>1, <2>2
<1>7. ASSUME ~ Ignored(E, e)
      PROVE  Good(t) /\ t.seq = e.seq /\ t.at = e.at /\ t.first = s.first /\ t \in Session /\ t # None
  <2>1. Good(s) /\ s.at <= e.at
    BY <1>6, <1>7
  <2> HIDE DEF s
  <2> QED
    BY <1>0, <2>1, FoldedGood, NoneAssumption DEF Good
<1> DEFINE Y == IF skip THEN E.sessions ELSE [E.sessions EXCEPT ![e.key] = t]
           F == [sessions |-> Y, seen |-> seen, retired |-> E.retired]
           o == IF skip THEN work.out ELSE work.out \cup News(e.key, s, t, work)
<1> HIDE DEF s, t
<1>8. Y \in [Keys -> Session \cup {None}]
  BY <1>2, <1>3, <1>7
<1>9. o \subseteq Transitions
  <2>1. work.out \subseteq Transitions
    BY <1>0 DEF Works
  <2>2. ~ skip => News(e.key, s, t, work) \subseteq Transitions
    BY <1>2, <1>7, NewsType
  <2> QED
    BY <2>1, <2>2
<1>10. F \in Engines /\ F.sessions = Y /\ F.seen = seen /\ F.retired = E.retired
  BY <1>3, <1>4, <1>8 DEF Engines
<1>11. CASE skip
  <2>1. F.sessions = E.sessions
    BY <1>10, <1>11
  <2>2. Live(F) = Live(E)
    BY <2>1 DEF Live
  <2>3. Fit(F) /\ Past(F, X) /\ Onward(F, work.shed)
    BY <1>0, <1>4, <1>10, <2>1, <2>2 DEF Fit, Past, Onward, Records
  <2> QED
    <3>1. F \in Engines /\ o \subseteq Transitions /\ work' = [engine |-> F, queue |-> work.queue \ {e},
             existing |-> work.existing, sweep |-> work.sweep, shed |-> work.shed, out |-> o]
      BY <1>1, <1>9, <1>10
    <3> HIDE DEF F, o
    <3>2. work' \in Works /\ work'.engine = F /\ work'.queue \subseteq work.queue /\ work'.shed = work.shed
      BY <1>0, <3>1 DEF Works
    <3>3. TypeOK' /\ DiskInv'
      BY <1>0, <3>2 DEF IInv, TypeOK, DiskInv, Fit, Past, Good, Live, Records
    <3>4. WorkInv'
      BY <1>0, <2>3, <3>2 DEF IInv, WorkInv, Fit, Past, Onward, Good, Live, Records, Valid
    <3> QED
      BY <3>3, <3>4 DEF IInv
<1>12. CASE ~ skip
  <2>0. ~ Ignored(E, e)
    BY <1>12
  <2>1. F.sessions = [E.sessions EXCEPT ![e.key] = t]
    BY <1>10, <1>12
  <2> HIDE DEF F
  <2>2. /\ F.sessions[e.key] = t /\ t # None /\ E.retired[e.key] = None
        /\ \A k \in Keys : k # e.key => F.sessions[k] = E.sessions[k]
    BY <1>2, <1>3, <1>5, <1>7, <2>0, <2>1
  <2>3. Live(F) = Live(E) \cup {e.key}
    BY <1>2, <2>2 DEF Live
  <2>4. IsFiniteSet(Live(E)) /\ Cardinality(Live(E)) <= MaxLive /\ Cardinality(Live(E)) \in Nat /\ MaxLive \in Nat
    BY <1>0, FS_CardinalityType, ConstantsAssumption DEF Fit
  <2>5. IsFiniteSet(Live(F)) /\ Cardinality(Live(F)) <= MaxLive
    <3>1. /\ IsFiniteSet(Live(F))
          /\ Cardinality(Live(F)) = IF e.key \in Live(E) THEN Cardinality(Live(E)) ELSE Cardinality(Live(E)) + 1
      BY <2>3, <2>4, AddOne
    <3>2. e.key \notin Live(E) => Cardinality(Live(E)) # MaxLive
      BY <1>2, <1>3, <1>5, <2>0
    <3> QED
      BY <2>4, <3>1, <3>2
  <2>6. \A k \in Live(F) : Good(F.sessions[k])
    BY <1>0, <1>2, <1>3, <1>7, <2>0, <2>2, <2>3 DEF Fit
  <2>7. Fit(F)
    <3>1. \A k \in Keys : F.retired[k] # None => F.retired[k] <= now /\ F.sessions[k] = None
      BY <1>0, <1>10, <2>2 DEF Fit
    <3>2. IsFiniteSet(Records(F)) /\ Cardinality(Records(F)) <= MaxSeen
      BY <1>0, <1>10 DEF Fit, Records
    <3> QED
      BY <1>4, <1>10, <2>5, <2>6, <3>1, <3>2 DEF Fit
  <2>8. Past(F, X)
    <3> SUFFICES ASSUME NEW k \in Keys \ X, gone[k] # None, F.retired[k] = None
                 PROVE  gone[k] + Day < now /\ (k \in Live(F) => F.sessions[k].first > gone[k])
      BY DEF Past
    <3>1. gone[k] + Day < now /\ (k \in Live(E) => E.sessions[k].first > gone[k])
      BY <1>0, <1>10 DEF Past
    <3>2. gone[k] \in Nat
      BY TimesNat DEF IInv, TypeOK
    <3>3. CASE k # e.key
      BY <2>2, <2>3, <3>1, <3>3
    <3>4. CASE k = e.key /\ k \in Live(E)
      <4>1. t.first = E.sessions[k].first
        BY <1>2, <1>3, <1>7, <2>0, <3>4 DEF s
      <4> QED
        BY <2>2, <3>1, <3>4, <4>1
    <3>5. CASE k = e.key /\ k \notin Live(E)
      <4>1. t.first = e.at
        BY <1>0, <1>2, <1>3, <1>7, <2>0, <3>5, FreshGood DEF s
      <4>2. e.at > gone[k]
        BY <1>0, <1>2, <3>1, <3>2
      <4> QED
        BY <2>2, <3>1, <3>5, <4>1, <4>2
    <3> QED
      BY <3>3, <3>4, <3>5
  <2>9. Onward(F, work.shed)
    <3> SUFFICES ASSUME NEW k \in Live(disk) \ work.shed, F.retired[k] = None
                 PROVE  /\ k \in Live(F) /\ F.sessions[k].seq >= disk.sessions[k].seq
                        /\ F.sessions[k].at >= disk.sessions[k].at
      BY DEF Onward
    <3>1. /\ k \in Live(E) /\ E.sessions[k].seq >= disk.sessions[k].seq
          /\ E.sessions[k].at >= disk.sessions[k].at /\ k \in Keys
      BY <1>0, <1>3, <1>10 DEF Onward
    <3>2. CASE k # e.key
      BY <2>2, <2>3, <3>1, <3>2
    <3>3. CASE k = e.key
      <4>1. E.sessions[k] \in Session /\ ~ (e.seq <= E.sessions[k].seq) /\ ~ (e.at < E.sessions[k].at)
        BY <1>2, <1>3, <1>5, <2>0, <3>1, <3>3
      <4>2. E.sessions[k].seq \in Nat /\ E.sessions[k].at \in Nat
        BY <4>1, SessionFields
      <4>3. disk.sessions[k].seq \in Nat /\ disk.sessions[k].at \in Nat
        BY <3>1, EngineFields, SessionFields DEF IInv, DiskInv, Fit, Good
      <4>4. F.sessions[k].seq = e.seq /\ F.sessions[k].at = e.at
        BY <1>7, <2>0, <2>2, <3>3
      <4> QED
        BY <1>2, <2>3, <3>1, <3>3, <4>1, <4>2, <4>3, <4>4
    <3> QED
      BY <3>2, <3>3
  <2> QED
    <3>1. F \in Engines /\ o \subseteq Transitions /\ work' = [engine |-> F, queue |-> work.queue \ {e},
             existing |-> work.existing, sweep |-> work.sweep, shed |-> work.shed, out |-> o]
      BY <1>1, <1>9, <1>10 DEF F
    <3> HIDE DEF o
    <3>2. work' \in Works /\ work'.engine = F /\ work'.queue \subseteq work.queue /\ work'.shed = work.shed
      BY <1>0, <3>1 DEF Works
    <3>3. TypeOK' /\ DiskInv'
      BY <1>0, <3>2 DEF IInv, TypeOK, DiskInv, Fit, Past, Good, Live, Records
    <3>4. WorkInv'
      BY <1>0, <2>7, <2>8, <2>9, <3>2 DEF IInv, WorkInv, Fit, Past, Onward, Good, Live, Records, Valid
    <3> QED
      BY <3>3, <3>4 DEF IInv
<1> QED
  BY <1>11, <1>12

(*------------------------------- the steps -------------------------------*)

(* Everything but the invariant of the tick under way survives a step that  *)
(* leaves the engines, the clock and the ghosts alone.                      *)
LEMMA Undisturbed ==
    ASSUME IInv, UNCHANGED <<now, disk, mem, gone, evicted>>, TypeOK',
           work' = work \/ work' = None
    PROVE  IInv'
<1>1. DiskInv'
  BY DEF IInv, DiskInv, Fit, Past, Good, Live, Records
<1>2. WorkInv'
  <2>1. CASE work' = None
    BY <2>1 DEF WorkInv
  <2>2. CASE work' = work
    BY <2>2 DEF IInv, WorkInv, Fit, Past, Onward, Good, Live, Records, Valid
  <2> QED
    BY <2>1, <2>2
<1> QED
  BY <1>1, <1>2 DEF IInv

(* Nothing is known at first. *)
LEMMA Initially == Init => IInv
<1> SUFFICES ASSUME Init
             PROVE  IInv
  OBVIOUS
<1>1. Empty \in Engines /\ Empty.seen = {} /\ \A k \in Keys : Empty.retired[k] = None /\ Empty.sessions[k] = None
  BY DEF Empty, Engines
<1>2. 0 \in Times /\ 0 \in 0 .. MaxEvents
  BY ConstantsAssumption DEF Times
<1>3. TypeOK
  <2>1. [k \in Keys |-> None] \in [Keys -> Times \cup {None}]
    OBVIOUS
  <2>2. cold \in BOOLEAN
    BY Zenon DEF Init
  <2> QED
    BY <1>1, <1>2, <2>1, <2>2 DEF Init, TypeOK
<1>4. Live(Empty) = {}
  BY <1>1 DEF Live
<1>5. IsFiniteSet({}) /\ Cardinality({}) = 0
  BY FS_EmptySet
<1>6. Records(Empty) = {}
  BY <1>1 DEF Records
<1>7. Fit(Empty)
  BY <1>1, <1>4, <1>5, <1>6, ConstantsAssumption DEF Fit
<1>8. DiskInv
  BY <1>1, <1>7 DEF Init, DiskInv, Past
<1>9. WorkInv
  BY DEF Init, WorkInv
<1> QED
  BY <1>3, <1>8, <1>9 DEF IInv

(* A hook observes something. *)
LEMMA HookStep ==
    ASSUME IInv, NEW k \in Keys, NEW what \in Shapes, Hook(k, what)
    PROVE  IInv'
<1>1. /\ count \in 0 .. MaxEvents /\ count < MaxEvents /\ count' = count + 1 /\ MaxEvents \in Nat
      /\ now \in Times /\ hooks \subseteq Events
      /\ UNCHANGED <<now, spool, disk, mem, cold, work, out, announced, twice, gone, crowded, evicted>>
  BY ConstantsAssumption DEF IInv, TypeOK, Hook, ghosts
<1>2. count' \in 0 .. MaxEvents /\ count' \in 1 .. MaxEvents
  BY <1>1
<1>3. [id |-> count', key |-> k, at |-> now, what |-> what, seq |-> 0, made |-> now] \in Events
  BY <1>1, <1>2 DEF Events
<1>4. hooks' \subseteq Events
  BY <1>1, <1>3 DEF Hook
<1>5. TypeOK'
  BY <1>1, <1>2, <1>4 DEF IInv, TypeOK
<1> QED
  BY <1>1, <1>5, Undisturbed

(* A hook writes its event. *)
LEMMA PublishStep ==
    ASSUME IInv, NEW e \in hooks, Publish(e)
    PROVE  IInv'
<1> DEFINE kept == {f \in spool : f.made + Day >= e.at}
           seqs == {e.at * Scale} \cup {f.seq + 1 : f \in kept}
<1>1. /\ now \in Times /\ e \in Events /\ hooks \subseteq Events /\ spool \subseteq Events
      /\ hooks' = hooks \ {e} /\ Scale \in Nat
      /\ UNCHANGED <<now, count, disk, mem, cold, work, out, announced, twice, gone, evicted>>
  BY ConstantsAssumption DEF IInv, TypeOK, Publish, ghosts
<1>2. PICK seq \in seqs : spool' = kept \cup {[e EXCEPT !.seq = seq, !.made = now]}
  BY DEF Publish
<1>3. seq \in Nat
  <2>1. e.at \in Nat /\ \A f \in kept : f.seq \in Nat
    BY <1>1, EventFields
  <2>2. CASE seq = e.at * Scale
    BY <1>1, <2>1, <2>2
  <2>3. CASE \E f \in kept : seq = f.seq + 1
    BY <2>1, <2>3
  <2> QED
    BY <1>2, <2>2, <2>3
<1>4. [e EXCEPT !.seq = seq, !.made = now] \in Events
  BY <1>1, <1>3 DEF Events
<1>5. spool' \subseteq Events
  BY <1>1, <1>2, <1>4
<1>6. crowded' \subseteq 1 .. MaxEvents
  BY <1>1, EventFields DEF IInv, TypeOK, Publish, Events
<1>7. TypeOK'
  BY <1>1, <1>5, <1>6 DEF IInv, TypeOK
<1> QED
  BY <1>1, <1>7, Undisturbed

(* A hook publishes nothing. *)
LEMMA GiveUpStep ==
    ASSUME IInv, NEW e \in hooks, GiveUp(e)
    PROVE  IInv'
<1>1. /\ hooks' \subseteq hooks /\ spool' \subseteq spool
      /\ UNCHANGED <<now, count, disk, mem, cold, work, out, announced, twice, gone, crowded, evicted>>
  BY DEF GiveUp, ghosts
<1>2. TypeOK'
  BY <1>1 DEF IInv, TypeOK
<1> QED
  BY <1>1, <1>2, Undisturbed

(* A tick begins with an engine that is maintained. *)
LEMMA BeginStep ==
    ASSUME IInv, NEW sweep \in BOOLEAN, NEW found \in SUBSET spool, NEW probes \in [Keys -> Probes],
           Begin(sweep, found, probes)
    PROVE  IInv'
<1> DEFINE q == {e \in found : Valid(e)}
<1>1. /\ mem = disk /\ found \subseteq Events
      /\ UNCHANGED <<now, hooks, count, spool, disk, mem, cold, out, announced, twice, gone, crowded, evicted>>
  BY DEF IInv, TypeOK, DiskInv, Begin, files, ghosts
<1>2. PICK m \in Maintained(disk, probes) :
        work' = [engine |-> m.engine, queue |-> q, existing |-> Live(m.engine), out |-> {},
                 sweep |-> sweep, shed |-> m.shed]
  BY <1>1 DEF Begin
<1> DEFINE M == m.engine
<1>3. Fit(M) /\ Past(M, evicted \cup m.shed) /\ Onward(M, m.shed) /\ m.shed \subseteq Keys
  BY MaintainedFit DEF IInv
<1>4. M \in Engines /\ Live(M) \subseteq Keys /\ q \subseteq Events
  BY <1>1, <1>3, EngineFields DEF Fit
<1> HIDE DEF M
<1>5. work' \in Works /\ work'.engine = M /\ work'.queue = q /\ work'.shed = m.shed
  BY <1>2, <1>3, <1>4 DEF Works, M
<1>6. TypeOK' /\ DiskInv'
  BY <1>1, <1>5 DEF IInv, TypeOK, DiskInv, Fit, Past, Good, Live, Records
<1>7. WorkInv'
  BY <1>1, <1>3, <1>5 DEF IInv, WorkInv, Fit, Past, Onward, Good, Live, Records, Valid
<1> QED
  BY <1>6, <1>7 DEF IInv

(* A tick is saved, or is as if it had not been. *)
LEMMA CommitStep ==
    ASSUME IInv, Commit
    PROVE  IInv'
<1>1. /\ work \in Works /\ Fit(work.engine) /\ Past(work.engine, evicted \cup work.shed) /\ work' = None
      /\ UNCHANGED <<now, hooks, count, spool, announced, twice, crowded>>
  BY DEF IInv, TypeOK, WorkInv, Commit, files
<1>2. CASE UNCHANGED <<disk, mem, out, cold, gone, evicted>>
  <2>1. TypeOK'
    BY <1>1, <1>2 DEF IInv, TypeOK
  <2> QED
    BY <1>1, <1>2, <2>1, Undisturbed
<1>3. CASE /\ disk' = work.engine /\ mem' = work.engine /\ out' = work.out
           /\ cold' = (cold /\ ~ work.sweep)
           /\ gone' = [k \in Keys |-> IF work.engine.retired[k] = None THEN gone[k]
                                      ELSE work.engine.retired[k]]
           /\ evicted' = evicted \cup work.shed
  <2>1. work.engine \in Engines /\ work.out \subseteq Transitions /\ work.shed \subseteq Keys
    BY <1>1 DEF Works
  <2>2. cold' \in BOOLEAN
    BY <1>3, Zenon
  <2>3. gone' \in [Keys -> Times \cup {None}]
    BY <1>3, <2>1, EngineFields DEF IInv, TypeOK
  <2>4. TypeOK'
    BY <1>1, <1>3, <2>1, <2>2, <2>3 DEF IInv, TypeOK
  <2>5. \A k \in Keys : gone'[k] = IF work.engine.retired[k] = None THEN gone[k] ELSE work.engine.retired[k]
    BY <1>3
  <2>6. Fit(disk)'
    BY <1>1, <1>3 DEF Fit, Good, Live, Records
  <2>7. Past(disk, evicted)'
    <3> SUFFICES ASSUME NEW k \in Keys \ evicted', gone'[k] # None, disk'.retired[k] = None
                 PROVE  gone'[k] + Day < now' /\ (k \in Live(disk)' => disk'.sessions[k].first > gone'[k])
      BY DEF Past
    <3>1. gone'[k] = gone[k] /\ disk' = work.engine /\ now' = now /\ k \notin evicted \cup work.shed
      BY <1>1, <1>3, <2>5
    <3>2. Live(disk)' = Live(work.engine)
      BY <3>1 DEF Live
    <3> QED
      BY <1>1, <3>1, <3>2 DEF Past
  <2>8. DiskInv'
    BY <1>3, <2>5, <2>6, <2>7 DEF DiskInv
  <2> QED
    BY <1>1, <2>4, <2>8 DEF IInv, WorkInv
<1> QED
  BY <1>2, <1>3 DEF Commit

(* Time passes between ticks. *)
LEMMA TickStep ==
    ASSUME IInv, Tick
    PROVE  IInv'
<1>1. /\ now \in Nat /\ now < MaxTime /\ now' = now + 1 /\ MaxTime \in Nat /\ Day \in Nat /\ now' \in Times
      /\ UNCHANGED <<hooks, count, spool, disk, mem, cold, work, out, announced, twice, gone, crowded, evicted>> /\ work' = None
  BY ConstantsAssumption DEF IInv, TypeOK, Tick, files, ghosts, Times
<1>2. TypeOK'
  BY <1>1 DEF IInv, TypeOK
<1>3. \A n \in Nat : n <= now => n <= now'
  BY <1>1
<1>4. disk \in Engines /\ Fit(disk) /\ Past(disk, evicted) /\ gone \in [Keys -> Times \cup {None}]
  BY DEF IInv, TypeOK, DiskInv
<1>5. ASSUME NEW k \in Live(disk)
      PROVE  Good(disk.sessions[k])'
  <2>1. Good(disk.sessions[k]) /\ disk.sessions[k].at \in Nat
    BY <1>4, SessionFields DEF Fit, Good
  <2> QED
    BY <1>1, <1>3, <2>1 DEF Good
<1>6. Fit(disk)'
  <2>1. \A e \in disk.seen : e.at <= now'
    BY <1>3, <1>4, EngineFields, EventFields DEF Fit
  <2>2. \A k \in Keys : disk.retired[k] # None => disk.retired[k] <= now' /\ disk.sessions[k] = None
    BY <1>3, <1>4, EngineFields DEF Fit
  <2>3. \A k \in Live(disk) : Good(disk.sessions[k])'
    BY <1>5
  <2>4. Live(disk)' = Live(disk)
    BY <1>1 DEF Live
  <2>5. disk' = disk
    BY <1>1
  <2>6. (\A k \in Live(disk) : Good(disk.sessions[k]))'
    BY <2>3, <2>4
  <2> QED
    BY <1>4, <2>1, <2>2, <2>4, <2>5, <2>6 DEF Fit, Records
<1>7. Past(disk, evicted)'
  <2> SUFFICES ASSUME NEW k \in Keys \ evicted', gone'[k] # None, disk'.retired[k] = None
               PROVE  gone'[k] + Day < now' /\ (k \in Live(disk)' => disk'.sessions[k].first > gone'[k])
    BY DEF Past
  <2>1. gone'[k] = gone[k] /\ disk' = disk /\ k \notin evicted /\ gone[k] \in Nat /\ Live(disk)' = Live(disk)
    BY <1>1, <1>4, TimesNat DEF Live
  <2>2. gone[k] + Day < now /\ (k \in Live(disk) => disk.sessions[k].first > gone[k])
    BY <1>4, <2>1 DEF Past
  <2> QED
    BY <1>1, <2>1, <2>2
<1>8. DiskInv'
  BY <1>1, <1>6, <1>7 DEF IInv, DiskInv
<1>9. WorkInv'
  BY <1>1 DEF WorkInv
<1> QED
  BY <1>2, <1>8, <1>9 DEF IInv

(* The next process starts from the checkpoint. *)
LEMMA RestartStep ==
    ASSUME IInv, Restart
    PROVE  IInv'
<1>1. /\ mem = disk /\ mem' = disk /\ cold' = TRUE /\ work' = None /\ out' = {}
      /\ UNCHANGED <<now, hooks, count, spool, disk, announced, twice, gone, crowded, evicted>>
  BY DEF IInv, DiskInv, Restart, files, ghosts
<1>2. cold' \in BOOLEAN
  BY <1>1, Zenon
<1>3. TypeOK'
  BY <1>1, <1>2 DEF IInv, TypeOK
<1> QED
  BY <1>1, <1>3, Undisturbed

(* A transition is announced. *)
LEMMA AnnounceStep ==
    ASSUME IInv, NEW t \in out, Announce(t)
    PROVE  IInv'
<1>1. UNCHANGED <<now, hooks, count, spool, disk, mem, cold, work, gone, crowded, evicted>>
  BY DEF Announce, files
<1>2. TypeOK'
  BY <1>1 DEF IInv, TypeOK, Announce
<1> QED
  BY <1>1, <1>2, Undisturbed

(* Every step keeps the invariant. *)
LEMMA Inductive == IInv /\ [Next]_vars => IInv'
<1> SUFFICES ASSUME IInv, [Next]_vars
             PROVE  IInv'
  OBVIOUS
<1>1. CASE UNCHANGED vars
  <2>1. UNCHANGED <<now, hooks, count, spool, disk, mem, cold, work, out, announced, twice, gone, crowded, evicted>>
    BY <1>1 DEF vars
  <2>2. TypeOK'
    BY <2>1 DEF IInv, TypeOK
  <2> QED
    BY <2>1, <2>2, Undisturbed
<1>2. ASSUME NEW k \in Keys, NEW what \in Shapes, Hook(k, what) PROVE IInv'
  BY <1>2, HookStep
<1>3. ASSUME NEW e \in hooks, Publish(e) PROVE IInv'
  BY <1>3, PublishStep
<1>4. ASSUME NEW sweep \in BOOLEAN, NEW found \in SUBSET spool, NEW probes \in [Keys -> Probes],
             Begin(sweep, found, probes)
      PROVE  IInv'
  BY <1>4, BeginStep
<1>5. ASSUME work # None, NEW e \in work.queue,
             NEW fate \in {"same", "lost", "unavailable"} \X BOOLEAN, Take(e, fate)
      PROVE  IInv'
  BY <1>5, TakeStep
<1>6. ASSUME NEW t \in out, Announce(t) PROVE IInv'
  BY <1>6, AnnounceStep
<1>7. ASSUME NEW e \in hooks, GiveUp(e) PROVE IInv'
  BY <1>7, GiveUpStep
<1> QED
  BY <1>1, <1>2, <1>3, <1>4, <1>5, <1>6, <1>7, CommitStep, RestartStep, TickStep, Zenon DEF Next

(*------------------------------- theorems --------------------------------*)

(* The invariant holds throughout: mem is what the last commit saved, a     *)
(* retirement that is off the record is more than a day old, and the tick   *)
(* under way is fit, past every retirement and no further back than disk.   *)
THEOREM Invariance == Spec => []IInv
  BY Initially, Inductive, PTL DEF Spec

(* Every variable of the engine keeps its type. *)
THEOREM TypeCorrect == Spec => []TypeOK
<1>1. IInv => TypeOK
  BY DEF IInv
<1> QED
  BY <1>1, Invariance, PTL

(* What Engine::save wrote, Engine::load accepts. *)
THEOREM AlwaysLoads == Spec => []CheckpointLoads
<1>1. IInv => CheckpointLoads
  BY FitLoads DEF IInv, DiskInv, CheckpointLoads
<1> QED
  BY <1>1, Invariance, PTL

(* A retired session is not opened again by an event from before it retired, *)
(* also after maintain has forgotten the retirement by age. The one way out  *)
(* is the bound on records: a session whose record made room for another.    *)
THEOREM NotReopened == Spec => []NoReopeningUnlessEvicted
<1>1. IInv => NoReopeningUnlessEvicted
  <2> SUFFICES ASSUME IInv, NEW k \in Live(disk) \ evicted, gone[k] # None
               PROVE  disk.sessions[k].first > gone[k]
    BY DEF NoReopeningUnlessEvicted
  <2>1. k \in Keys /\ disk.sessions[k] # None
    BY DEF Live
  <2>2. disk.retired[k] = None
    BY <2>1 DEF IInv, DiskInv, Fit
  <2> QED
    BY <2>1, <2>2 DEF IInv, DiskInv, Past
<1> QED
  BY <1>1, Invariance, PTL

(* No step takes a session on disk back to an earlier event, unless the      *)
(* session retired and was left without a record of it.                      *)
THEOREM MovesOn == Spec => SessionsMoveOn
<1> DEFINE OnDisk == \A k \in Live(disk) \ evicted' : disk'.sessions[k] # None =>
                      /\ disk'.sessions[k].seq >= disk.sessions[k].seq
                      /\ disk'.sessions[k].at >= disk.sessions[k].at
<1>1. IInv /\ [Next]_vars => [OnDisk]_vars
  <2> SUFFICES ASSUME IInv, Next, NEW k \in Live(disk) \ evicted', disk'.sessions[k] # None
               PROVE  /\ disk'.sessions[k].seq >= disk.sessions[k].seq
                      /\ disk'.sessions[k].at >= disk.sessions[k].at
    OBVIOUS
  <2>1. k \in Keys /\ disk.sessions[k].seq \in Nat /\ disk.sessions[k].at \in Nat
    BY SessionFields DEF IInv, DiskInv, Fit, Good, Live, Records
  <2>2. disk' = disk \/ (Commit /\ disk' = work.engine /\ evicted' = evicted \cup work.shed)
    BY DEF Next, Hook, Publish, GiveUp, Begin, Take, Commit, Announce, Restart, Tick
  <2>3. CASE disk' = disk
    BY <2>1, <2>3
  <2>4. CASE Commit /\ disk' = work.engine /\ evicted' = evicted \cup work.shed
    <3>1. Fit(work.engine) /\ Onward(work.engine, work.shed)
      BY <2>4 DEF IInv, WorkInv, Commit
    <3>2. work.engine.retired[k] = None
      BY <2>1, <2>4, <3>1 DEF Fit
    <3> QED
      BY <2>4, <3>1, <3>2 DEF Onward
  <2> QED
    BY <2>2, <2>3, <2>4
<1> QED
  BY <1>1, Invariance, PTL DEF Spec, SessionsMoveOn

(*-------------------------------- sequences ------------------------------*)

(* The spool: no file is from the future, no sequence is further ahead of   *)
(* its file than a full spool reaches, and the sequences that are ahead of  *)
(* the clock are all there.                                                 *)
SpoolInv ==
    /\ \A e \in hooks : e.at <= now
    /\ IsFiniteSet(spool)
    /\ \A f \in spool :
          /\ f.at <= now /\ f.made <= now
          /\ f.seq <= f.made * Scale + MaxEntries
          /\ \A n \in Nat : now * Scale <= n /\ n <= f.seq => \E g \in spool : g.seq = n

(* Multiplication by a positive number keeps the order. *)
LEMMA TimesMonotone ==
    ASSUME NEW a \in Nat, NEW b \in Nat, NEW c \in Nat
    PROVE  /\ a * c \in Nat /\ (a <= b => a * c <= b * c)
           /\ (c # 0 /\ a < b => a * c < b * c) /\ (a + b) * c = a * c + c * b
<1>1. a * c \in Nat /\ (a + b) * c = a * c + c * b
  OBVIOUS
<1>2. ASSUME NEW x \in Nat, NEW y \in Nat, x <= y
      PROVE  x * c <= y * c
  <2>1. PICK d \in Nat : y = x + d
    <3>1. y - x \in Nat /\ y = x + (y - x)
      BY <1>2
    <3> QED
      BY <3>1
  <2>2. y * c = x * c + d * c /\ d * c \in Nat /\ x * c \in Nat
    BY <2>1
  <2> QED
    BY <2>2
<1>3. ASSUME c # 0, a < b
      PROVE  a * c < b * c
  <2>1. (a + 1) * c <= b * c
    BY <1>2, <1>3
  <2>2. (a + 1) * c = a * c + c /\ b * c \in Nat
    OBVIOUS
  <2> QED
    BY <1>1, <1>3, <2>1, <2>2
<1> QED
  BY <1>1, <1>2, <1>3

(* More sequences in a row than a spool has files are not all in it. *)
LEMMA TooMany ==
    ASSUME NEW S, IsFiniteSet(S), \A f \in S : f.seq \in Nat, NEW a \in Nat, NEW b \in Nat, a <= b,
           \A n \in Nat : a <= n /\ n <= b => \E g \in S : g.seq = n
    PROVE  b - a + 1 <= Cardinality(S)
<1> DEFINE T == {f \in S : a <= f.seq /\ f.seq <= b}
           m == [f \in T |-> f.seq]
<1>1. IsFiniteSet(T) /\ Cardinality(T) <= Cardinality(S)
  BY FS_Subset
<1>2. m \in [T -> a .. b]
  OBVIOUS
<1>3. \A n \in a .. b : \E f \in T : m[f] = n
  OBVIOUS
<1>4. m \in Surjection(T, a .. b)
  BY <1>2, <1>3 DEF Surjection
<1> HIDE DEF T, m
<1>5. Cardinality(a .. b) <= Cardinality(T)
  BY <1>1, <1>4, FS_Surjection
<1>6. Cardinality(a .. b) = b - a + 1
  BY FS_Interval
<1>7. Cardinality(T) \in Nat /\ Cardinality(S) \in Nat
  BY <1>1, FS_CardinalityType
<1> QED
  BY <1>1, <1>5, <1>6, <1>7

(* A file that ages out has a sequence of the past. *)
LEMMA AgedOut ==
    ASSUME IInv, SpoolInv, NEW e \in hooks, NEW f \in spool, f.made + Day < e.at
    PROVE  f.seq < e.at * Scale /\ f.seq < now * Scale
<1>1. /\ now \in Nat /\ e.at \in Nat /\ f.seq \in Nat /\ f.made \in Nat /\ e.at <= now
      /\ Scale \in Nat /\ Scale # 0 /\ Day \in Nat /\ MaxEntries \in Nat /\ MaxEntries <= Scale * Day
  <2>1. e \in Events /\ f \in Events /\ now \in Nat
    BY TimesNat DEF IInv, TypeOK
  <2> QED
    BY <2>1, ConstantsAssumption, EntriesAssumption, TimesNat, EventFields DEF SpoolInv, Events
<1>2. (f.made + Day) * Scale < e.at * Scale /\ (f.made + Day) * Scale = f.made * Scale + Scale * Day
  BY <1>1, TimesMonotone
<1>3. f.seq <= f.made * Scale + MaxEntries
  BY DEF SpoolInv
<1>4. f.made * Scale \in Nat /\ Scale * Day \in Nat /\ e.at * Scale \in Nat /\ now * Scale \in Nat
  BY <1>1
<1>5. f.seq < e.at * Scale
  BY <1>1, <1>2, <1>3, <1>4
<1>6. e.at * Scale <= now * Scale
  BY <1>1, TimesMonotone
<1> QED
  BY <1>1, <1>4, <1>5, <1>6

(* A sequence is above every file there was, and no further ahead of the    *)
(* clock than a full spool reaches.                                         *)
LEMMA Sequences ==
    ASSUME IInv, SpoolInv, NEW e \in hooks, Publish(e)
    PROVE  \E new \in Events :
              /\ new.at = e.at /\ new.made = now /\ new.key = e.key
              /\ new \in spool' /\ \A f \in spool' : f \in spool \/ f = new
              /\ \A f \in spool : f.seq < new.seq
              /\ e.at * Scale <= new.seq /\ new.seq <= now * Scale + MaxEntries
              /\ crowded' = {} => crowded = {} /\ new.seq < (now + 1) * Scale
              /\ \A n \in Nat : now * Scale <= n /\ n < new.seq => \E g \in spool' : g.seq = n
              /\ \A f \in spool : now * Scale <= f.seq => f \in spool'
              /\ IsFiniteSet(spool')
<1> DEFINE kept == {f \in spool : f.made + Day >= e.at}
           seqs == {e.at * Scale} \cup {f.seq + 1 : f \in kept}
<1>1. /\ now \in Times /\ now \in Nat /\ e \in Events /\ spool \subseteq Events
      /\ Scale \in Nat /\ Scale # 0 /\ Day \in Nat /\ MaxEntries \in Nat /\ MaxEntries <= Scale * Day
      /\ IsFiniteSet(spool) /\ e.at <= now /\ Cardinality(spool) < MaxEntries
  BY ConstantsAssumption, EntriesAssumption, TimesNat DEF IInv, TypeOK, SpoolInv, Publish
<1>2. PICK seq \in seqs : /\ \A n \in seqs : n <= seq
                          /\ spool' = kept \cup {[e EXCEPT !.seq = seq, !.made = now]}
                          /\ crowded' = crowded \cup {i \in {e.id} : (now + 1) * Scale <= seq}
  BY DEF Publish
<1>3. e.at \in Nat /\ \A f \in spool : f.seq \in Nat /\ f.made \in Nat
  BY <1>1, TimesNat, EventFields DEF Events
<1>4. now * Scale \in Nat /\ e.at * Scale \in Nat /\ e.at * Scale <= now * Scale
  BY <1>1, <1>3, TimesMonotone
<1>5. seq \in Nat /\ e.at * Scale <= seq
  BY <1>2, <1>3, <1>4
<1> DEFINE new == [e EXCEPT !.seq = seq, !.made = now]
<1>6. new \in Events /\ new.at = e.at /\ new.made = now /\ new.key = e.key /\ new.seq = seq
  BY <1>1, <1>5 DEF Events
<1>7. spool' = kept \cup {new} /\ kept \subseteq spool
  BY <1>2
<1> HIDE DEF new
<1>8. ASSUME NEW f \in spool, f \notin kept
      PROVE  f.seq < e.at * Scale
  <2>1. f.made + Day < e.at
    BY <1>1, <1>3, <1>8
  <2> QED
    BY <2>1, AgedOut
<1>9. \A f \in spool : f.seq < seq
  <2> SUFFICES ASSUME NEW f \in spool
               PROVE  f.seq < seq
    OBVIOUS
  <2>1. CASE f \in kept
    <3>1. f.seq + 1 \in seqs
      BY <2>1
    <3> HIDE DEF seqs
    <3>2. f.seq + 1 <= seq
      BY <1>2, <3>1
    <3> QED
      BY <1>3, <1>5, <3>2
  <2>2. CASE f \notin kept
    BY <1>3, <1>4, <1>5, <1>8, <2>2
  <2> QED
    BY <2>1, <2>2
<1>10. \A f \in spool : now * Scale <= f.seq => f \in kept
  BY <1>3, <1>4, <1>8
<1>11. \A n \in Nat : now * Scale <= n /\ n < seq => \E g \in kept : g.seq = n
  <2> SUFFICES ASSUME NEW n \in Nat, now * Scale <= n, n < seq
               PROVE  \E g \in kept : g.seq = n
    OBVIOUS
  <2>1. PICK f \in kept : seq = f.seq + 1
    BY <1>2, <1>4
  <2>2. n <= f.seq
    BY <1>3, <2>1
  <2>3. PICK g \in spool : g.seq = n
    BY <2>1, <2>2 DEF SpoolInv
  <2> QED
    BY <1>10, <2>3
<1>12. seq <= now * Scale + MaxEntries
  <2> SUFFICES ASSUME now * Scale + MaxEntries < seq
               PROVE  FALSE
    BY <1>1, <1>4, <1>5
  <2>1. PICK b \in Nat : seq = b + 1 /\ now * Scale <= b
    <3>1. seq - 1 \in Nat /\ seq = (seq - 1) + 1 /\ now * Scale <= seq - 1
      BY <1>1, <1>4, <1>5
    <3> QED
      BY <3>1
  <2>2. \A n \in Nat : now * Scale <= n /\ n <= b => \E g \in spool : g.seq = n
    BY <1>4, <1>7, <1>11, <2>1
  <2>3. b - now * Scale + 1 <= Cardinality(spool)
    BY <1>1, <1>3, <1>4, <2>1, <2>2, TooMany
  <2>4. Cardinality(spool) \in Nat
    BY <1>1, FS_CardinalityType
  <2> QED
    BY <1>1, <1>4, <2>1, <2>3, <2>4
<1>13. IsFiniteSet(spool')
  <2>1. IsFiniteSet(kept)
    BY <1>1, <1>7, FS_Subset
  <2> HIDE DEF kept
  <2> QED
    BY <1>7, <2>1, AddOne
<1>14. crowded' = {} => crowded = {} /\ seq < (now + 1) * Scale
  <2>1. (now + 1) * Scale \in Nat
    BY <1>1
  <2>2. crowded' = {} => crowded = {} /\ ~ ((now + 1) * Scale <= seq)
    BY <1>2
  <2> QED
    BY <1>5, <2>1, <2>2
<1> HIDE DEF kept
<1> QED
  BY <1>5, <1>14, <1>6, <1>7, <1>9, <1>10, <1>11, <1>12, <1>13

(* Every step keeps the spool in order. *)
LEMMA SpoolInductive == IInv /\ SpoolInv /\ [Next]_vars => SpoolInv'
<1> SUFFICES ASSUME IInv, SpoolInv, [Next]_vars
             PROVE  SpoolInv'
  OBVIOUS
<1>0. now \in Nat /\ Scale \in Nat /\ spool \subseteq Events /\ hooks \subseteq Events
  BY ConstantsAssumption, TimesNat DEF IInv, TypeOK
<1>1. CASE UNCHANGED <<now, hooks, spool>>
  BY <1>1 DEF SpoolInv
<1>2. ASSUME NEW k \in Keys, NEW what \in Shapes, Hook(k, what)
      PROVE  SpoolInv'
  <2>1. /\ UNCHANGED <<now, spool>>
        /\ hooks' = hooks \cup {[id |-> count', key |-> k, at |-> now, what |-> what, seq |-> 0, made |-> now]}
    BY <1>2 DEF Hook
  <2>2. \A e \in hooks' : e.at <= now'
    BY <1>0, <2>1 DEF SpoolInv
  <2> QED
    BY <2>1, <2>2 DEF SpoolInv
<1>3. ASSUME NEW e \in hooks, Publish(e)
      PROVE  SpoolInv'
  <2>1. hooks' = hooks \ {e} /\ UNCHANGED now
    BY <1>3 DEF Publish
  <2>2. PICK new \in Events :
          /\ new.at = e.at /\ new.made = now
          /\ new \in spool' /\ \A f \in spool' : f \in spool \/ f = new
          /\ new.seq <= now * Scale + MaxEntries
          /\ \A n \in Nat : now * Scale <= n /\ n < new.seq => \E g \in spool' : g.seq = n
          /\ \A f \in spool : now * Scale <= f.seq => f \in spool'
          /\ IsFiniteSet(spool')
    BY <1>3, Sequences
  <2>3. new.seq \in Nat /\ now * Scale \in Nat /\ \A f \in spool : f.seq \in Nat
    BY <1>0, EventFields
  <2>4. \A f \in hooks' : f.at <= now
    BY <2>1 DEF SpoolInv
  <2>5. ASSUME NEW f \in spool'
        PROVE  /\ f.at <= now /\ f.made <= now
               /\ f.seq <= f.made * Scale + MaxEntries
               /\ \A n \in Nat : now * Scale <= n /\ n <= f.seq => \E g \in spool' : g.seq = n
    <3>1. CASE f = new
      <4>1. f.at <= now /\ f.made <= now
        BY <1>0, <2>2, <3>1 DEF SpoolInv
      <4>2. \A n \in Nat : now * Scale <= n /\ n <= f.seq => \E g \in spool' : g.seq = n
        BY <2>2, <2>3, <3>1
      <4> QED
        BY <2>2, <3>1, <4>1, <4>2
    <3>2. CASE f \in spool
      BY <2>2, <3>2 DEF SpoolInv
    <3> QED
      BY <2>2, <3>1, <3>2
  <2> QED
    BY <2>1, <2>2, <2>4, <2>5 DEF SpoolInv
<1>4. ASSUME NEW e \in hooks, GiveUp(e)
      PROVE  SpoolInv'
  <2>1. PICK old \in SUBSET {f \in spool : f.made + Day < e.at} : spool' = spool \ old
    BY <1>4 DEF GiveUp
  <2>2. hooks' \subseteq hooks /\ UNCHANGED now /\ spool' \subseteq spool
    BY <1>4, <2>1 DEF GiveUp
  <2>3. IsFiniteSet(spool')
    BY <2>2, FS_Subset DEF SpoolInv
  <2>4. \A f \in spool : f.seq \in Nat /\ (now * Scale <= f.seq => f \in spool')
    <3>1. \A f \in old : f.seq < now * Scale
      BY AgedOut
    <3>2. now * Scale \in Nat /\ \A f \in spool : f.seq \in Nat
      BY <1>0, EventFields
    <3> QED
      BY <2>1, <3>1, <3>2
  <2> QED
    BY <2>2, <2>3, <2>4 DEF SpoolInv
<1>5. CASE Tick
  <2>1. now' = now + 1 /\ UNCHANGED <<hooks, spool>>
    BY <1>5 DEF Tick, files
  <2>2. now * Scale <= now' * Scale /\ now' \in Nat /\ now * Scale \in Nat /\ now' * Scale \in Nat
    BY <1>0, <2>1, TimesMonotone
  <2>3. \A f \in hooks : f.at <= now'
    BY <1>0, <2>1, EventFields DEF SpoolInv
  <2>4. ASSUME NEW f \in spool
        PROVE  /\ f.at <= now' /\ f.made <= now'
               /\ f.seq <= f.made * Scale + MaxEntries
               /\ \A n \in Nat : now' * Scale <= n /\ n <= f.seq => \E g \in spool : g.seq = n
    <3>1. f.at \in Nat /\ f.made \in Nat
      BY <1>0, EventFields, TimesNat DEF Events
    <3>2. \A n \in Nat : now' * Scale <= n => now * Scale <= n
      BY <2>2
    <3> QED
      BY <1>0, <2>1, <3>1, <3>2 DEF SpoolInv
  <2> QED
    BY <2>1, <2>3, <2>4 DEF SpoolInv
<1>6. \/ UNCHANGED <<now, hooks, spool>> \/ Tick
      \/ \E k \in Keys, what \in Shapes : Hook(k, what)
      \/ \E e \in hooks : Publish(e) \/ GiveUp(e)
  BY DEF Next, Begin, Take, Commit, Announce, Restart, vars, files
<1> QED
  BY <1>1, <1>2, <1>3, <1>4, <1>5, <1>6

(* SpoolInv holds of every reachable state. *)
THEOREM SpoolInvariance == Spec => []SpoolInv
<1>1. Init => SpoolInv
  <2>1. IsFiniteSet({})
    BY FS_EmptySet
  <2> QED
    BY <2>1 DEF Init, SpoolInv
<1> QED
  BY <1>1, SpoolInductive, Invariance, PTL DEF Spec

(* writeActivityEvent gives every file a sequence above those of all files  *)
(* there were, also of the ones it removes, whose sequences it does not     *)
(* look at: a full spool uses fewer of them than a day has.                 *)
THEOREM Growing == Spec => SequencesGrow
<1>1. ASSUME IInv, SpoolInv, [Next]_vars
      PROVE  [\A f \in spool' \ spool : \A g \in spool : g.seq < f.seq]_vars
  <2>1. ASSUME NEW e \in hooks, Publish(e)
        PROVE  \A f \in spool' \ spool : \A g \in spool : g.seq < f.seq
    BY <1>1, <2>1, Sequences
  <2>2. (\E e \in hooks : Publish(e)) \/ spool' \subseteq spool
    BY <1>1 DEF Next, Hook, GiveUp, Begin, Take, Commit, Announce, Restart, Tick, vars, files
  <2>3. ASSUME spool' \subseteq spool
        PROVE  \A f \in spool' \ spool : \A g \in spool : g.seq < f.seq
    BY <2>3
  <2> QED
    BY <2>1, <2>2, <2>3
<1> QED
  BY <1>1, Invariance, SpoolInvariance, PTL DEF Spec, SequencesGrow

(*------------------------------ announcements ----------------------------*)

(* The first sequence of an instant. *)
Start(n) == n * Scale

(* A sequence that may have been given out. *)
Given(n) == n < Start(now + 1)

(* When a session of E retired last. *)
LastGone(E, k) == IF E.retired[k] = None THEN gone[k] ELSE E.retired[k]

(* Why nothing raises t again from E: the session is past it, or has        *)
(* retired since its sequence was given out, so that an event with this     *)
(* sequence is no younger than the retirement.                              *)
Spent(E, t) ==
    \/ E.sessions[t.key] # None /\ t.seq <= E.sessions[t.key].seq
    \/ LastGone(E, t.key) # None /\ t.seq < Start(LastGone(E, t.key) + 1)

Ordered(f) == Start(f.at) <= f.seq /\ Given(f.seq)

FileInv == \A f \in spool : Ordered(f)

(* The sessions that a tick under way leaves, or that have been left,       *)
(* without a record.                                                        *)
Unrecorded == evicted \cup work.shed

OutInv ==
    /\ \A t \in twice \cup (out \cap announced) : t.key \in evicted
    /\ \A t \in announced \cup out : Given(t.seq) /\ (t.key \notin evicted => Spent(disk, t))

(* The same of the tick under way. *)
TickInv ==
    work # None =>
        /\ out = {} /\ \A t \in work.out \cap announced : t.key \in Unrecorded
        /\ \A e \in work.queue : Ordered(e)
        /\ \A t \in announced \cup work.out :
              Given(t.seq) /\ (t.key \notin Unrecorded => Spent(work.engine, t))

Once == FileInv /\ OutInv /\ TickInv
OnceInv == crowded = {} => Once

(* Instants have their sequences in order. *)
LEMMA Starts ==
    ASSUME NEW a \in Nat, NEW b \in Nat
    PROVE  Start(a) \in Nat /\ (a <= b => Start(a) <= Start(b)) /\ (Start(a) < Start(b + 1) => a <= b)
<1>1. Scale \in Nat /\ Scale # 0
  BY ConstantsAssumption
<1>2. Start(a) \in Nat /\ Start(b + 1) \in Nat /\ (a <= b => Start(a) <= Start(b))
  BY <1>1, TimesMonotone DEF Start
<1>3. b + 1 <= a => Start(b + 1) <= Start(a)
  BY <1>1, TimesMonotone DEF Start
<1> QED
  BY <1>2, <1>3

(* A step that changes nothing but hooks, removes files, or stops a tick. *)
LEMMA OnceKept ==
    ASSUME Once, spool' \subseteq spool, UNCHANGED <<now, disk, announced, twice, gone, evicted>>,
           (work' = work /\ out' = out) \/ (work' = None /\ out' \subseteq out)
    PROVE  Once'
<1>1. FileInv'
  BY DEF Once, FileInv, Ordered, Given
<1>2. OutInv'
  BY DEF Once, OutInv, Given, Spent, LastGone
<1>3. TickInv'
  BY DEF Once, TickInv, Unrecorded, Ordered, Given, Spent, LastGone
<1> QED
  BY <1>1, <1>2, <1>3 DEF Once

(* A new file has a sequence of the present instant, or of its hook's. *)
LEMMA PublishOnce ==
    ASSUME IInv, SpoolInv, Once, NEW e \in hooks, Publish(e), crowded' = {}
    PROVE  Once'
<1>1. UNCHANGED <<now, disk, work, out, announced, twice, gone, evicted>>
  BY DEF Publish
<1>2. PICK new \in Events :
        /\ new.at = e.at /\ e.at * Scale <= new.seq /\ new.seq < (now + 1) * Scale
        /\ \A f \in spool' : f \in spool \/ f = new
  BY Sequences
<1>3. Ordered(new)
  BY <1>2 DEF Ordered, Given, Start
<1>4. FileInv'
  BY <1>1, <1>2, <1>3 DEF Once, FileInv, Ordered, Given
<1>5. OutInv' /\ TickInv'
  BY <1>1 DEF Once, OutInv, TickInv, Unrecorded, Ordered, Given, Spent, LastGone
<1> QED
  BY <1>4, <1>5 DEF Once

(* A session that maintain retires is retired since every sequence there    *)
(* is, and no other goes back.                                              *)
LEMMA BeginOnce ==
    ASSUME IInv, Once, NEW sweep \in BOOLEAN, NEW found \in SUBSET spool,
           NEW probes \in [Keys -> Probes], Begin(sweep, found, probes)
    PROVE  Once'
<1> DEFINE q == {e \in found : Valid(e)}
<1>1. /\ mem = disk /\ out = {} /\ now \in Nat /\ announced \subseteq Transitions
      /\ UNCHANGED <<now, hooks, count, spool, disk, mem, cold, out, announced, twice, gone, evicted>>
  BY TimesNat DEF IInv, TypeOK, DiskInv, Begin, Ready, files, ghosts
<1>2. PICK m \in Maintained(disk, probes) :
        work' = [engine |-> m.engine, queue |-> q, existing |-> Live(m.engine), out |-> {},
                 sweep |-> sweep, shed |-> m.shed]
  BY <1>1 DEF Begin
<1> DEFINE M == m.engine
<1>3. /\ Fit(M) /\ Onward(M, m.shed)
      /\ \A k \in Keys \ m.shed : M.retired[k] \in {now, None, disk.retired[k]}
  BY MaintainedFit DEF IInv
<1>5. q \subseteq spool /\ work'.queue = q /\ work'.engine = M /\ work'.out = {} /\ work'.shed = m.shed
  BY <1>2
<1> HIDE DEF M
<1>6. FileInv' /\ OutInv'
  BY <1>1 DEF Once, FileInv, OutInv, Ordered, Given, Spent, LastGone
<1>7. \A f \in work'.queue : Ordered(f)'
  BY <1>1, <1>5 DEF Once, FileInv, Ordered, Given
<1>8. ASSUME NEW t \in announced, t.key \notin evicted \cup m.shed
      PROVE  Spent(M, t)
  <2> DEFINE k == t.key
  <2>1. Given(t.seq) /\ Spent(disk, t) /\ k \in Keys \ m.shed /\ t.seq \in Nat
    BY <1>1, <1>8 DEF Once, OutInv, Transitions
  <2>2. disk \in Engines /\ Fit(disk) /\ (disk.retired[k] # None => gone[k] = disk.retired[k])
    BY <2>1 DEF IInv, DiskInv, Fit
  <2> HIDE DEF k
  <2>3. now # None
    BY <1>1, ConstantsAssumption
  <2>4. CASE M.retired[k] = now
    <3>1. LastGone(M, k) = now
      BY <2>3, <2>4 DEF LastGone
    <3> QED
      BY <2>1, <2>3, <3>1 DEF Spent, Given, k
  <2>5. CASE M.retired[k] # now /\ disk.sessions[k] # None /\ t.seq <= disk.sessions[k].seq
    <3>1. disk.retired[k] = None /\ k \in Live(disk) /\ disk.sessions[k].seq \in Nat
      BY <2>1, <2>2, <2>5, EngineFields, SessionFields DEF Fit, Good
    <3>2. M.retired[k] = None
      BY <1>3, <2>1, <2>5, <3>1
    <3>3. k \in Live(M) /\ M.sessions[k].seq >= disk.sessions[k].seq
      BY <1>3, <2>1, <3>1, <3>2 DEF Onward
    <3>4. M.sessions[k] # None /\ M.sessions[k].seq \in Nat
      BY <1>3, <3>3, SessionFields DEF Fit, Good, Live, Records
    <3>5. t.seq <= M.sessions[k].seq
      BY <2>1, <2>5, <3>1, <3>3, <3>4
    <3> QED
      BY <2>1, <3>4, <3>5 DEF Spent, k
  <2>6. CASE /\ M.retired[k] # now /\ LastGone(disk, k) # None
             /\ t.seq < Start(LastGone(disk, k) + 1)
    <3>1. LastGone(M, k) = LastGone(disk, k)
      BY <1>3, <2>1, <2>2, <2>6 DEF LastGone
    <3> QED
      BY <2>1, <2>6, <3>1 DEF Spent, k
  <2> QED
    BY <2>1, <2>4, <2>5, <2>6 DEF Spent, k
<1>9. TickInv'
  <2>1. ASSUME NEW t \in announced
        PROVE  Given(t.seq)' /\ (t.key \notin Unrecorded' => Spent(work.engine, t)')
    BY <1>1, <1>5, <1>8 DEF Once, OutInv, Given, Spent, LastGone, Unrecorded
  <2> QED
    BY <1>1, <1>5, <1>7, <2>1 DEF TickInv
<1> QED
  BY <1>6, <1>9 DEF Once

(* What taking an event does to the engine of the tick: nothing, or the     *)
(* session moves on to it, and a transition is of that session and event.   *)
LEMMA TakeEffect ==
    ASSUME IInv, work # None, NEW e \in work.queue,
           NEW fate \in {"same", "lost", "unavailable"} \X BOOLEAN, Take(e, fate)
    PROVE  LET E == work.engine
               F == work'.engine IN
           /\ F.retired = E.retired /\ work'.queue = work.queue \ {e} /\ work'.shed = work.shed
           /\ \/ F.sessions = E.sessions /\ work'.out = work.out
              \/ /\ E.retired[e.key] = None
                 /\ E.sessions[e.key] # None => E.sessions[e.key].seq < e.seq
                 /\ F.sessions[e.key] # None /\ F.sessions[e.key].seq = e.seq
                 /\ \A k \in Keys : k # e.key => F.sessions[k] = E.sessions[k]
                 /\ \A t \in work'.out : t \in work.out \/ (t.key = e.key /\ t.seq = e.seq)
<1> DEFINE E == work.engine
           s == IF E.sessions[e.key] = None THEN Fresh(e) ELSE E.sessions[e.key]
           t == Folded(s, e, fate)
           known == \E f \in E.seen : f.id = e.id
           skip == known \/ Ignored(E, e)
<1>0. /\ now \in Nat /\ work \in Works /\ E \in Engines /\ e \in Events /\ Fit(E) /\ e.at <= now
  BY TimesNat DEF IInv, TypeOK, WorkInv, Works, Valid
<1>1. PICK seen \in (IF known THEN {E.seen} ELSE Remembered(E.seen, e)) :
        work' = [engine |-> [sessions |-> IF skip THEN E.sessions ELSE [E.sessions EXCEPT ![e.key] = t],
                             seen |-> seen, retired |-> E.retired],
                 queue |-> work.queue \ {e}, existing |-> work.existing, sweep |-> work.sweep,
                 shed |-> work.shed, out |-> IF skip THEN work.out ELSE work.out \cup News(e.key, s, t, work)]
  BY DEF Take
<1>2. e.key \in Keys /\ e.at \in Nat /\ e.seq \in Nat
  BY <1>0, EventFields
<1>3. E.sessions \in [Keys -> Session \cup {None}] /\ \A k \in Keys : k \in Live(E) <=> E.sessions[k] # None
  BY <1>0, EngineFields
<1>4. CASE skip
  BY <1>1, <1>4
<1>5. CASE ~ skip
  <2>1. /\ E.retired[e.key] = None
        /\ E.sessions[e.key] # None => ~ (e.seq <= E.sessions[e.key].seq) /\ ~ (e.at < E.sessions[e.key].at)
    BY <1>5 DEF Ignored
  <2>2. Good(s) /\ s.at <= e.at /\ (E.sessions[e.key] # None => E.sessions[e.key].seq < e.seq)
    <3>1. CASE E.sessions[e.key] = None
      <4>1. Good(Fresh(e)) /\ Fresh(e).at = e.at /\ s = Fresh(e)
        BY <1>0, <3>1, FreshGood
      <4> QED
        BY <1>2, <3>1, <4>1
    <3>2. CASE E.sessions[e.key] # None
      <4>1. s = E.sessions[e.key] /\ Good(s) /\ s \in Session
        BY <1>0, <1>2, <1>3, <3>2 DEF Fit
      <4>2. s.at \in Nat /\ s.seq \in Nat
        BY <4>1, SessionFields
      <4> QED
        BY <1>2, <2>1, <3>2, <4>1, <4>2
    <3> QED
      BY <3>1, <3>2
  <2> HIDE DEF s
  <2>3. t.seq = e.seq /\ t # None
    BY <1>0, <2>2, FoldedGood, NoneAssumption DEF Good
  <2> HIDE DEF t
  <2>4. \A u \in News(e.key, s, t, work) : u.key = e.key /\ u.seq = e.seq
    BY <2>3 DEF News
  <2>5. /\ work'.engine.sessions = [E.sessions EXCEPT ![e.key] = t] /\ work'.engine.retired = E.retired
        /\ work'.queue = work.queue \ {e} /\ work'.shed = work.shed
        /\ work'.out = work.out \cup News(e.key, s, t, work)
    BY <1>1, <1>5
  <2>6. /\ work'.engine.sessions[e.key] = t
        /\ \A k \in Keys : k # e.key => work'.engine.sessions[k] = E.sessions[k]
    BY <1>2, <1>3, <2>5
  <2> QED
    BY <2>1, <2>2, <2>3, <2>4, <2>5, <2>6
<1> QED
  BY <1>4, <1>5

(* An event that raises a transition is ahead of its session and younger    *)
(* than its last retirement, so the transition is not announced yet.        *)
LEMMA TakeOnce ==
    ASSUME IInv, Once, work # None, NEW e \in work.queue,
           NEW fate \in {"same", "lost", "unavailable"} \X BOOLEAN, Take(e, fate)
    PROVE  Once'
<1> DEFINE E == work.engine
           F == work'.engine
<1>1. /\ now \in Nat /\ work \in Works /\ E \in Engines /\ e \in Events /\ Past(E, Unrecorded) /\ e.at <= now
      /\ now <= e.at + Day /\ Day \in Nat /\ announced \subseteq Transitions /\ work.out \subseteq Transitions
      /\ gone \in [Keys -> Times \cup {None}]
      /\ UNCHANGED <<now, hooks, count, spool, disk, mem, cold, out, announced, twice, gone, evicted>>
  BY TimesNat, ConstantsAssumption DEF IInv, TypeOK, WorkInv, Works, Valid, Take, files, ghosts, Unrecorded
<1>2. /\ F.retired = E.retired /\ work'.queue = work.queue \ {e} /\ work'.shed = work.shed
      /\ \/ F.sessions = E.sessions /\ work'.out = work.out
         \/ /\ E.retired[e.key] = None
            /\ E.sessions[e.key] # None => E.sessions[e.key].seq < e.seq
            /\ F.sessions[e.key] # None /\ F.sessions[e.key].seq = e.seq
            /\ \A k \in Keys : k # e.key => F.sessions[k] = E.sessions[k]
            /\ \A t \in work'.out : t \in work.out \/ (t.key = e.key /\ t.seq = e.seq)
  BY TakeEffect
<1>3. e.key \in Keys /\ e.at \in Nat /\ e.seq \in Nat /\ Start(e.at) <= e.seq /\ Given(e.seq)
  BY <1>1, EventFields DEF Once, TickInv, Ordered
<1>4. \A k \in Keys : E.sessions[k] # None => E.sessions[k].seq \in Nat
  BY <1>1, EngineFields, SessionFields
<1>5. /\ out = {} /\ (\A t \in work.out \cap announced : t.key \in Unrecorded)
      /\ \A f \in work.queue : Ordered(f)
      /\ \A t \in announced \cup work.out : Given(t.seq) /\ (t.key \notin Unrecorded => Spent(E, t))
  BY DEF Once, TickInv
<1> HIDE DEF E, F
<1>6. ASSUME NEW t \in announced \cup work.out, t.key \notin Unrecorded
      PROVE  Given(t.seq) /\ Spent(F, t)
  <2>1. Given(t.seq) /\ Spent(E, t) /\ t.key \in Keys /\ t.seq \in Nat
    BY <1>1, <1>5, <1>6 DEF Transitions
  <2>2. CASE E.sessions[t.key] # None /\ t.seq <= E.sessions[t.key].seq
    <3>1. F.sessions[t.key] # None /\ t.seq <= F.sessions[t.key].seq
      BY <1>2, <1>3, <1>4, <2>1, <2>2
    <3> QED
      BY <2>1, <3>1 DEF Spent
  <2>3. CASE LastGone(E, t.key) # None /\ t.seq < Start(LastGone(E, t.key) + 1)
    <3>1. LastGone(F, t.key) = LastGone(E, t.key)
      BY <1>2 DEF LastGone
    <3> QED
      BY <2>1, <2>3, <3>1 DEF Spent
  <2> QED
    BY <2>1, <2>2, <2>3 DEF Spent
<1>7. ASSUME NEW t \in work'.out, t \notin work.out
      PROVE  Given(t.seq) /\ Spent(F, t) /\ (t \in announced => t.key \in Unrecorded)
  <2>1. /\ E.retired[e.key] = None /\ t.key = e.key /\ t.seq = e.seq
        /\ E.sessions[e.key] # None => E.sessions[e.key].seq < e.seq
        /\ F.sessions[e.key] # None /\ F.sessions[e.key].seq = e.seq
    BY <1>2, <1>7
  <2>2. Given(t.seq) /\ Spent(F, t)
    BY <1>3, <2>1 DEF Spent
  <2>3. ASSUME t \in announced, t.key \notin Unrecorded
        PROVE  FALSE
    <3>1. Spent(E, t)
      BY <1>5, <2>3
    <3>2. ~ (E.sessions[e.key] # None /\ e.seq <= E.sessions[e.key].seq)
      BY <1>3, <1>4, <2>1
    <3>3. gone[e.key] # None /\ e.seq < Start(gone[e.key] + 1)
      BY <2>1, <3>1, <3>2 DEF Spent, LastGone
    <3>4. gone[e.key] + Day < now /\ gone[e.key] \in Nat
      BY <1>1, <1>3, <2>1, <2>3, <3>3, TimesNat DEF Past
    <3>5. Start(e.at) \in Nat /\ Start(gone[e.key] + 1) \in Nat
      BY <1>3, <3>4, Starts
    <3>6. e.at <= gone[e.key]
      BY <1>3, <3>3, <3>4, <3>5, Starts
    <3> QED
      BY <1>1, <1>3, <3>4, <3>6
  <2> QED
    BY <2>2, <2>3
<1>8. FileInv' /\ OutInv'
  BY <1>1 DEF Once, FileInv, OutInv, Ordered, Given, Spent, LastGone
<1>9. TickInv'
  <2>0. Unrecorded' = Unrecorded
    BY <1>1, <1>2 DEF Unrecorded
  <2>1. \A t \in work'.out \cap announced : t.key \in Unrecorded
    BY <1>5, <1>7
  <2>2. \A f \in work'.queue : Ordered(f)
    BY <1>2, <1>5
  <2>3. \A t \in announced \cup work'.out : Given(t.seq) /\ (t.key \notin Unrecorded => Spent(F, t))
    BY <1>5, <1>6, <1>7
  <2> QED
    BY <1>1, <1>5, <2>0, <2>1, <2>2, <2>3 DEF TickInv, Ordered, Given, Spent, LastGone, F
<1> QED
  BY <1>8, <1>9 DEF Once

(* What a saved tick hands off has not been announced. *)
LEMMA CommitOnce ==
    ASSUME IInv, Once, Commit
    PROVE  Once'
<1>1. /\ work # None /\ work' = None /\ out = {} /\ work \in Works
      /\ UNCHANGED <<now, hooks, count, spool, announced, twice>>
  BY DEF IInv, TypeOK, Once, TickInv, Commit, files
<1>2. CASE UNCHANGED <<disk, mem, out, cold, gone, evicted>>
  BY <1>1, <1>2, OnceKept
<1>3. CASE /\ disk' = work.engine /\ out' = work.out
           /\ gone' = [k \in Keys |-> IF work.engine.retired[k] = None THEN gone[k]
                                      ELSE work.engine.retired[k]]
           /\ evicted' = Unrecorded
  <2>1. announced \subseteq Transitions /\ work.out \subseteq Transitions
    BY <1>1 DEF IInv, TypeOK, Works
  <2>2. ASSUME NEW t \in announced \cup work.out
        PROVE  Given(t.seq)' /\ (t.key \notin evicted' => Spent(disk, t)')
    <3>1. Given(t.seq) /\ (t.key \notin evicted' => Spent(work.engine, t)) /\ t.key \in Keys
      BY <1>1, <1>3, <2>1 DEF Once, TickInv, Transitions
    <3>2. LastGone(disk, t.key)' = LastGone(work.engine, t.key)
      BY <1>3, <3>1 DEF LastGone
    <3>3. t.key \notin evicted' => Spent(disk, t)'
      BY <1>3, <3>1, <3>2 DEF Spent
    <3> QED
      BY <1>1, <3>1, <3>3 DEF Given
  <2>3. OutInv'
    BY <1>1, <1>3, <2>2 DEF Once, OutInv, TickInv, Unrecorded
  <2>4. FileInv'
    BY <1>1 DEF Once, FileInv, Ordered, Given
  <2> QED
    BY <1>1, <2>3, <2>4 DEF Once, TickInv
<1> QED
  BY <1>2, <1>3 DEF Commit, Unrecorded

(* Time makes no sequence new. *)
LEMMA TickOnce ==
    ASSUME IInv, Once, Tick
    PROVE  Once'
<1>1. /\ now \in Nat /\ now' = now + 1 /\ spool \subseteq Events /\ work' = None
      /\ out \subseteq Transitions /\ announced \subseteq Transitions
      /\ UNCHANGED <<spool, disk, work, out, announced, twice, gone, evicted>>
  BY TimesNat DEF IInv, TypeOK, Tick, files, ghosts
<1>2. ASSUME NEW n \in Nat, Given(n)
      PROVE  Given(n)'
  <2>1. Start(now + 1) <= Start(now' + 1) /\ Start(now + 1) \in Nat /\ Start(now' + 1) \in Nat
    BY <1>1, Starts
  <2> QED
    BY <1>2, <2>1 DEF Given, Start
<1>3. FileInv'
  <2>1. \A f \in spool : f.seq \in Nat /\ Ordered(f)
    BY <1>1, EventFields DEF Once, FileInv
  <2> QED
    BY <1>1, <1>2, <2>1 DEF FileInv, Ordered
<1>4. OutInv'
  <2>1. \A t \in announced \cup out :
          t.seq \in Nat /\ Given(t.seq) /\ (t.key \notin evicted => Spent(disk, t))
    BY <1>1 DEF Once, OutInv, Transitions
  <2>2. \A t \in announced \cup out : t.key \notin evicted => Spent(disk, t)'
    BY <1>1, <2>1 DEF Spent, LastGone
  <2>3. \A t \in announced \cup out : Given(t.seq)'
    BY <1>2, <2>1
  <2> QED
    BY <1>1, <2>2, <2>3 DEF Once, OutInv
<1> QED
  BY <1>1, <1>3, <1>4 DEF Once, TickInv

(* Every step keeps what makes an announcement the only one. *)
LEMMA OnceInductive == IInv /\ SpoolInv /\ OnceInv /\ [Next]_vars => OnceInv'
<1> SUFFICES ASSUME IInv, SpoolInv, OnceInv, [Next]_vars, crowded' = {}
             PROVE  Once'
  BY DEF OnceInv
<1>0. crowded = {} /\ Once
  <2>1. crowded \subseteq crowded'
    BY DEF Next, Hook, Publish, GiveUp, Begin, Take, Commit, Announce, Restart, Tick, vars, ghosts
  <2> QED
    BY <2>1 DEF OnceInv
<1>1. CASE UNCHANGED vars
  BY <1>0, <1>1, OnceKept DEF vars
<1>2. ASSUME NEW k \in Keys, NEW what \in Shapes, Hook(k, what) PROVE Once'
  BY <1>0, <1>2, OnceKept DEF Hook, ghosts
<1>3. ASSUME NEW e \in hooks, Publish(e) PROVE Once'
  BY <1>0, <1>3, PublishOnce
<1>4. ASSUME NEW e \in hooks, GiveUp(e) PROVE Once'
  BY <1>0, <1>4, OnceKept DEF GiveUp, ghosts
<1>5. ASSUME NEW sweep \in BOOLEAN, NEW found \in SUBSET spool, NEW probes \in [Keys -> Probes],
             Begin(sweep, found, probes)
      PROVE  Once'
  BY <1>0, <1>5, BeginOnce
<1>6. ASSUME work # None, NEW e \in work.queue,
             NEW fate \in {"same", "lost", "unavailable"} \X BOOLEAN, Take(e, fate)
      PROVE  Once'
  BY <1>0, <1>6, TakeOnce
<1>7. ASSUME NEW t \in out, Announce(t)
      PROVE  Once'
  <2>1. /\ out' = out \ {t} /\ announced' = announced \cup {t} /\ twice' = twice \cup ({t} \cap announced)
        /\ work = None /\ UNCHANGED <<now, spool, disk, work, gone, evicted>>
    BY <1>0, <1>7 DEF Announce, files, Once, OutInv, TickInv
  <2>2. FileInv' /\ OutInv'
    BY <1>0, <2>1 DEF Once, FileInv, OutInv, Ordered, Given, Spent, LastGone
  <2> QED
    BY <2>1, <2>2 DEF Once, TickInv
<1>8. CASE Restart
  BY <1>0, <1>8, OnceKept DEF Restart, files, ghosts
<1>9. CASE Commit
  BY <1>0, <1>9, CommitOnce
<1>10. CASE Tick
  BY <1>0, <1>10, TickOnce
<1> QED
  BY <1>1, <1>2, <1>3, <1>4, <1>5, <1>6, <1>7, <1>8, <1>9, <1>10, Zenon DEF Next

(* No transition is announced twice, whatever is swept again, saved or not, *)
(* forgotten at MAX_SEEN or by age, and however often the process dies or a *)
(* hook gives up: a session that is past an event, or retired since its     *)
(* sequence was given out, does not raise its transition again. A session   *)
(* whose record of retirement made room at MAX_SEEN is excepted, alone.     *)
THEOREM AnnouncesOnce == Spec => []AnnouncedOnceUnlessCrowded
<1>1. Init => OnceInv
  BY DEF Init, OnceInv, Once, FileInv, OutInv, TickInv
<1>2. OnceInv => AnnouncedOnceUnlessCrowded
  BY DEF OnceInv, Once, OutInv, AnnouncedOnceUnlessCrowded
<1> QED
  BY <1>1, <1>2, OnceInductive, Invariance, SpoolInvariance, PTL DEF Spec

=============================================================================
