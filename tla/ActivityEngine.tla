--------------------------- MODULE ActivityEngine ---------------------------
(***************************************************************************)
(* Agent activity, from the hooks that write events into the spool to the  *)
(* desktop that folds them into sessions, saves a checkpoint and announces *)
(* that an agent waits or is done.                                         *)
(*                                                                         *)
(*   packages/core/src/activity/spool.ts                     the writers   *)
(*   apps/desktop/src-tauri/src/activity/spool.rs, engine.rs, runtime.rs,  *)
(*   contract.rs                                             the consumer  *)
(*                                                                         *)
(* A tick of the consumer is one thread's work, but hooks write meanwhile, *)
(* the write of the checkpoint may fail and the process may die anywhere.  *)
(* The `.writer' directory lock is taken to exclude: allocation and        *)
(* publication of a sequence are one step. The clock does not go back.     *)
(***************************************************************************)
EXTENDS Naturals, FiniteSets

CONSTANTS
    Keys,       \* sessions: pairs <<agent, session id>>
    Shapes,     \* what an event says, besides when and about which session
    Day,        \* DAY and MAX_ACTIVITY_EVENT_AGE_MS
    Scale,      \* sequences per instant
    MaxEntries, \* MAX_ENTRIES, `.writer' among them
    MaxSeen,    \* MAX_SEEN
    MaxLive,    \* LIVE_SESSIONS
    MaxEvents,  \* bound: events hooks observe
    MaxTime,    \* bound on the clock
    None

States == {"busy", "waiting", "done", "idle", "unknown"}
Confidences == {"explicit", "inferred"}
Signals == {"observation", "user_question", "claude_stop", "session_ended"}

(* Event::valid, the part that does not depend on the clock. *)
ShapesAllowed ==
    {h \in [state : States, conf : Confidences, outcome : BOOLEAN, signal : Signals,
            side : BOOLEAN, ppid : BOOLEAN] :
        /\ h.outcome => h.state # "done"
        /\ h.state = "done" \/ h.signal \in {"user_question", "claude_stop"} => h.conf = "explicit"}

ASSUME ConstantsAssumption ==
    /\ Shapes \subseteq ShapesAllowed
    /\ Day \in Nat \ {0} /\ Scale \in Nat \ {0} /\ MaxSeen \in Nat \ {0} /\ MaxLive \in Nat
    /\ MaxEvents \in Nat /\ MaxTime \in Nat /\ None \notin Nat

(* A full spool uses fewer sequences than a day has: 65 536 entries against *)
(* a thousand for every millisecond.                                        *)
ASSUME EntriesAssumption == MaxEntries \in Nat /\ MaxEntries <= Scale * Day

Times == 0 .. MaxTime
Events == [id : 1 .. MaxEvents, key : Keys, at : Times, what : Shapes, seq : Nat, made : Times]

Session ==
    [seq : Nat, at : Times, first : Times, changed : Times, ended : Times \cup {None},
     state : States, conf : Confidences, outcome : BOOLEAN, awaiting : BOOLEAN,
     lost : BOOLEAN, known : BOOLEAN]

ASSUME NoneAssumption == None \notin Session

(* Engine, as the checkpoint holds it: `retired' keeps when. *)
Engines ==
    [sessions : [Keys -> Session \cup {None}], seen : SUBSET Events, retired : [Keys -> Times \cup {None}]]

Transitions == [key : Keys, seq : Nat, kind : {"waiting", "done"}]

VARIABLES
    now,        \* the clock
    hooks,      \* events observed and not yet written
    count,      \* events observed so far
    spool,      \* event files
    disk,       \* the checkpoint
    mem,        \* the engine in memory
    cold,       \* whether this process has yet to finish a sweep
    work,       \* the tick under way, or None
    out,        \* transitions of the last tick that are still to be announced
    announced,  \* transitions announced
    twice,      \* transitions announced more than once
    gone,       \* when each session was last retired on disk, or None
    crowded,    \* events whose sequence ran into the next instant's
    evicted     \* sessions of which a record of retirement made room for another

vars == <<now, hooks, count, spool, disk, mem, cold, work, out, announced, twice, gone, crowded, evicted>>
files == <<hooks, count, spool>>
ghosts == <<announced, twice, gone, crowded, evicted>>

Works ==
    [engine : Engines, queue : SUBSET Events, existing : SUBSET Keys, out : SUBSET Transitions,
     sweep : BOOLEAN, shed : SUBSET Keys]

TypeOK ==
    /\ now \in Times /\ count \in 0 .. MaxEvents
    /\ hooks \subseteq Events /\ spool \subseteq Events
    /\ disk \in Engines /\ mem \in Engines /\ cold \in BOOLEAN
    /\ work \in Works \cup {None}
    /\ out \subseteq Transitions /\ announced \subseteq Transitions /\ twice \subseteq Transitions
    /\ gone \in [Keys -> Times \cup {None}] /\ crowded \subseteq 1 .. MaxEvents
    /\ evicted \subseteq Keys

Empty == [sessions |-> [k \in Keys |-> None], seen |-> {}, retired |-> [k \in Keys |-> None]]

Init ==
    /\ now = 0 /\ hooks = {} /\ count = 0 /\ spool = {}
    /\ disk = Empty /\ mem = Empty /\ cold = TRUE
    /\ work = None /\ out = {}
    /\ announced = {} /\ twice = {} /\ gone = [k \in Keys |-> None] /\ crowded = {} /\ evicted = {}

(*------------------------------ the writers ------------------------------*)

(* eventCommand: a hook observes something. *)
Hook(k, what) ==
    /\ count < MaxEvents /\ count' = count + 1
    /\ hooks' = hooks \cup {[id |-> count', key |-> k, at |-> now, what |-> what, seq |-> 0, made |-> now]}
    /\ UNCHANGED <<now, spool, disk, mem, cold, work, out, ghosts>>

(* Mutant: the sequence is the instant's, whatever is in the spool. *)
Publish_FromInstant(e) ==
    /\ e \in hooks /\ hooks' = hooks \ {e}
    /\ Cardinality(spool) < MaxEntries
    /\ spool' = {f \in spool : f.made + Day >= e.at} \cup {[e EXCEPT !.seq = e.at * Scale, !.made = now]}
    /\ UNCHANGED <<now, count, disk, mem, cold, work, out, ghosts>>

(* writeActivityEvent, with the instant the hook began at: a full spool is  *)
(* refused, files that age out go, and the sequence is above that instant   *)
(* and above every file.                                                    *)
Publish(e) ==
    /\ e \in hooks /\ hooks' = hooks \ {e}
    /\ Cardinality(spool) < MaxEntries
    /\ LET kept == {f \in spool : f.made + Day >= e.at}
           seqs == {e.at * Scale} \cup {f.seq + 1 : f \in kept} IN
       \E seq \in seqs :
          /\ \A n \in seqs : n <= seq
          /\ spool' = kept \cup {[e EXCEPT !.seq = seq, !.made = now]}
          /\ crowded' = crowded \cup {i \in {e.id} : (now + 1) * Scale <= seq}
    /\ UNCHANGED <<now, count, disk, mem, cold, work, out, announced, twice, gone, evicted>>

(* A hook that is killed, whose deadline passes, or that finds an unsafe    *)
(* entry or too many bytes, publishes nothing; files that age out may be    *)
(* gone by then.                                                            *)
GiveUp(e) ==
    /\ e \in hooks /\ hooks' = hooks \ {e}
    /\ Cardinality(spool) < MaxEntries
    /\ \E old \in SUBSET {f \in spool : f.made + Day < e.at} :
          old # {} /\ spool' = spool \ old
    /\ UNCHANGED <<now, count, disk, mem, cold, work, out, ghosts>>

(*------------------------------ the engine -------------------------------*)

(* Mutant: the session ends later than it was observed. *)
Ended_KeepsObserved(s, t) ==
    [s EXCEPT !.changed = IF s.state = "unknown" THEN @ ELSE t,
              !.state = "unknown", !.conf = "inferred", !.awaiting = FALSE,
              !.ended = IF @ = None THEN t ELSE @]

(* Session::ended *)
Ended(s, t) ==
    [seq |-> s.seq, at |-> t, first |-> s.first,
     changed |-> IF s.state = "unknown" THEN s.changed ELSE t,
     ended |-> IF s.ended = None THEN t ELSE s.ended,
     state |-> "unknown", conf |-> "inferred", outcome |-> s.outcome, awaiting |-> FALSE,
     lost |-> s.lost, known |-> s.known]

(* Session::retire *)
Retires(s) ==
    \/ s.ended # None /\ s.ended + Day <= now
    \/ s.ended = None /\ s.state = "idle" /\ s.changed + Day <= now

Probes == {"alive", "missing", "unavailable"}

(* The first part of maintain: a session whose process is gone ends. *)
Probed(s, probe) ==
    IF s = None \/ s.ended # None \/ ~ s.known \/ probe = "alive" THEN s
    ELSE Ended([s EXCEPT !.lost = @ \/ probe = "missing"], now)

(* Mutant: a record is forgotten while an event as old is still valid. *)
Forgotten_Early(t) == t + Day <= now

(* What is over a day old is forgotten. *)
Forgotten(t) == t + Day < now

Records(engine) == {k \in Keys : engine.retired[k] # None}

(* The records there are after some sessions retire, in the order of their  *)
(* digests, which may be any: at MAX_SEEN the oldest record makes room for  *)
(* the next, also one of the same instant, but the last to retire has one.  *)
Recorded(engine, retiring) ==
    LET all == {k \in Records(engine) : ~ Forgotten(engine.retired[k])} \cup retiring
        at(k) == IF k \in retiring THEN now ELSE engine.retired[k] IN
    IF Cardinality(all) <= MaxSeen THEN {all}
    ELSE {kept \in SUBSET all :
            /\ Cardinality(kept) = MaxSeen /\ kept \cap retiring # {}
            /\ \A k \in kept, d \in all \ kept : at(d) <= at(k)}

(* maintain: sessions whose process is gone end, what is old is forgotten,  *)
(* and sessions retire. `shed' are those left without a record.             *)
Maintained(engine, probes) ==
    LET sessions == [k \in Keys |-> Probed(engine.sessions[k], probes[k])]
        retiring == {k \in Keys : sessions[k] # None /\ Retires(sessions[k])}
        all == {k \in Records(engine) : ~ Forgotten(engine.retired[k])} \cup retiring IN
    {[engine |->
        [sessions |-> [k \in Keys |-> IF k \in retiring THEN None ELSE sessions[k]],
         seen |-> {e \in engine.seen : ~ Forgotten(e.at)},
         retired |-> [k \in Keys |-> IF k \notin kept THEN None
                                     ELSE IF k \in retiring THEN now ELSE engine.retired[k]]],
      shed |-> all \ kept] : kept \in Recorded(engine, retiring)}

(* Event::valid, the part about its age. *)
Valid(e) == e.at <= now /\ now <= e.at + Day

(* At MAX_SEEN the oldest id makes room. *)
Oldest(seen) == {f \in seen : \A g \in seen : f.at < g.at \/ (f.at = g.at /\ f.id <= g.id)}
Remembered(seen, e) ==
    IF Cardinality(seen) < MaxSeen THEN {seen \cup {e}}
    ELSE {(seen \ {f}) \cup {e} : f \in Oldest(seen)}

Live(engine) == {k \in Keys : engine.sessions[k] # None}

(* Mutant: only the sequence tells an old event. *)
Ignored_SequenceOnly(engine, e) ==
    LET s == engine.sessions[e.key] IN
    \/ engine.retired[e.key] # None
    \/ s = None /\ Cardinality(Live(engine)) = MaxLive
    \/ s # None /\ e.seq <= s.seq

(* What makes apply leave a session alone. *)
Ignored(engine, e) ==
    LET s == engine.sessions[e.key] IN
    \/ engine.retired[e.key] # None
    \/ \E k \in Live(engine) : k[2] = e.key[2] /\ k[1] # e.key[1]
    \/ s = None /\ Cardinality(Live(engine)) = MaxLive
    \/ s # None /\ (e.seq <= s.seq \/ e.at < s.at)

Fresh(e) ==
    [seq |-> e.seq, at |-> e.at, first |-> e.at, changed |-> e.at, ended |-> None,
     state |-> "unknown", conf |-> "inferred", outcome |-> FALSE, awaiting |-> FALSE,
     lost |-> FALSE, known |-> FALSE]

(* How the process of a session and of an event may turn out, and whether   *)
(* one is known afterwards.                                                 *)
Fates(s, e) ==
    IF e.what.ppid THEN {<<"same", TRUE>>} \cup {"lost", "unavailable"} \X BOOLEAN
    ELSE IF s.known THEN {"same", "lost", "unavailable"} \X {TRUE}
    ELSE {<<"same", FALSE>>}

(* What an event that is not ignored makes of a session: only its place in  *)
(* the order, or its state too, which a process that is gone ends.          *)
Placed(s, e) == [s EXCEPT !.seq = e.seq, !.at = e.at]

Asked(s, e) == s.awaiting \/ e.what.signal = "user_question"
NewState(s, e) ==
    IF e.what.signal = "user_question" \/ (e.what.signal = "claude_stop" /\ Asked(s, e))
    THEN "waiting" ELSE e.what.state

Lost(s, fate) == s.lost \/ fate[1] = "lost"
Vanished(s, e, fate) ==
    Lost(s, fate) \/ fate[1] = "unavailable" \/ e.what.signal = "session_ended"

Updated(s, e, fate) ==
    LET state == NewState(s, e)
        ending == Vanished(s, e, fate) \/ state = "done" \/ e.what.outcome
        same == state = s.state /\ e.what.outcome = s.outcome IN
    [seq |-> e.seq, at |-> e.at, first |-> s.first,
     changed |-> IF state = s.state THEN s.changed ELSE e.at,
     ended |-> IF ~ ending THEN None ELSE IF same /\ s.ended # None THEN s.ended ELSE e.at,
     state |-> state, conf |-> e.what.conf, outcome |-> e.what.outcome,
     awaiting |-> Asked(s, e) /\ state = "waiting",
     lost |-> Lost(s, fate), known |-> fate[2]]

Folded(s, e, fate) ==
    IF e.what.side \/ (~ Vanished(s, e, fate) /\ s.conf = "explicit" /\ e.what.conf = "inferred")
    THEN Placed(s, e)
    ELSE IF Vanished(s, e, fate) THEN Ended(Updated(s, e, fate), e.at) ELSE Updated(s, e, fate)

(* Mutant: every change of state is announced. *)
News_AnyState(k, s, t, w) ==
    IF w.sweep /\ ~ cold /\ k \in w.existing /\ t.state # s.state
    THEN {[key |-> k, seq |-> t.seq, kind |-> t.state]} ELSE {}

(* What apply announces about a session that went from s to t. *)
News(k, s, t, w) ==
    IF /\ w.sweep /\ ~ cold /\ k \in w.existing
       /\ t.state # s.state /\ t.state \in {"waiting", "done"}
       /\ ~ t.outcome /\ t.conf = "explicit"
    THEN {[key |-> k, seq |-> t.seq, kind |-> t.state]} ELSE {}

(*------------------------------- the tick --------------------------------*)

Ready == work = None /\ out = {}

(* Consumer::tick: the sweep found some of the files; a long sweep is not   *)
(* finished and the engine is only maintained.                              *)
Begin(sweep, found, probes) ==
    /\ Ready
    /\ ~ sweep => found = {}
    /\ \E m \in Maintained(mem, probes) :
          work' = [engine |-> m.engine, queue |-> {e \in found : Valid(e)},
                   existing |-> Live(m.engine), out |-> {}, sweep |-> sweep, shed |-> m.shed]
    /\ UNCHANGED <<now, files, disk, mem, cold, out, ghosts>>

(* apply takes the events of the sweep in the order of their sequences. *)
Take(e, fate) ==
    /\ work # None
    /\ e \in work.queue /\ \A f \in work.queue : e.seq < f.seq \/ (e.seq = f.seq /\ e.id <= f.id)
    /\ LET engine == work.engine
           s == IF engine.sessions[e.key] = None THEN Fresh(e) ELSE engine.sessions[e.key]
           t == Folded(s, e, fate)
           known == \E f \in engine.seen : f.id = e.id
           skip == known \/ Ignored(engine, e) IN
       /\ fate \in Fates(s, e)
       /\ \E seen \in (IF known THEN {engine.seen} ELSE Remembered(engine.seen, e)) :
          work' = [engine |-> [sessions |-> IF skip THEN engine.sessions
                                            ELSE [engine.sessions EXCEPT ![e.key] = t],
                               seen |-> seen, retired |-> engine.retired],
                   queue |-> work.queue \ {e}, existing |-> work.existing, sweep |-> work.sweep,
                   shed |-> work.shed,
                   out |-> IF skip THEN work.out ELSE work.out \cup News(e.key, s, t, work)]
    /\ UNCHANGED <<now, files, disk, mem, cold, out, ghosts>>

(* Mutant: a checkpoint that could not be saved does not stop the hand-off. *)
Commit_AnnounceAnyway ==
    /\ work # None /\ work.queue = {}
    /\ \/ disk' = work.engine /\ mem' = work.engine /\ cold' = (cold /\ ~ work.sweep)
       \/ UNCHANGED <<disk, mem, cold>>
    /\ out' = work.out /\ work' = None
    /\ UNCHANGED <<now, files, ghosts>>

(* The checkpoint is saved before anything is handed off; when that fails   *)
(* the tick is as if it had not been.                                       *)
Commit ==
    /\ work # None /\ work.queue = {}
    /\ \/ /\ disk' = work.engine /\ mem' = work.engine /\ out' = work.out
          /\ cold' = (cold /\ ~ work.sweep)
          /\ gone' = [k \in Keys |-> IF work.engine.retired[k] = None THEN gone[k]
                                     ELSE work.engine.retired[k]]
          /\ evicted' = evicted \cup work.shed
       \/ UNCHANGED <<disk, mem, out, cold, gone, evicted>>
    /\ work' = None
    /\ UNCHANGED <<now, files, announced, twice, crowded>>

(* publish *)
Announce(t) ==
    /\ t \in out /\ out' = out \ {t}
    /\ announced' = announced \cup {t}
    /\ twice' = twice \cup ({t} \cap announced)
    /\ UNCHANGED <<now, files, disk, mem, cold, work, gone, crowded, evicted>>

(* Engine::valid, the test a checkpoint must pass to be loaded. *)
Loadable(engine) ==
    /\ Cardinality(engine.seen) <= MaxSeen /\ \A e \in engine.seen : e.at <= now
    /\ Cardinality(Records(engine)) <= MaxSeen
    /\ \A k \in Records(engine) : engine.retired[k] <= now
    /\ Cardinality(Live(engine)) <= MaxLive
    /\ \A k \in Live(engine) :
          LET s == engine.sessions[k] IN
          /\ s.first <= s.changed /\ s.changed <= s.at /\ s.at <= now
          /\ s.ended # None => s.ended <= s.at
          /\ s.awaiting => s.state = "waiting"
          /\ s.state = "done" => s.conf = "explicit" /\ ~ s.outcome

(* The process dies, and the next one loads the checkpoint; one that cannot *)
(* be loaded stops every tick.                                              *)
Restart ==
    /\ Loadable(disk)
    /\ mem' = disk /\ cold' = TRUE /\ work' = None /\ out' = {}
    /\ UNCHANGED <<now, files, disk, ghosts>>

Tick ==
    /\ now < MaxTime /\ now' = now + 1
    /\ work = None
    /\ UNCHANGED <<files, disk, mem, cold, work, out, ghosts>>

Next ==
    \/ \E k \in Keys, what \in Shapes : Hook(k, what)
    \/ \E e \in hooks : Publish(e) \/ GiveUp(e)
    \/ \E sweep \in BOOLEAN, found \in SUBSET spool, probes \in [Keys -> Probes] :
          Begin(sweep, found, probes)
    \/ work # None /\ \E e \in work.queue :
          \E fate \in {"same", "lost", "unavailable"} \X BOOLEAN : Take(e, fate)
    \/ Commit
    \/ \E t \in out : Announce(t)
    \/ Restart \/ Tick

Spec == Init /\ [][Next]_vars

(*------------------------------ properties -------------------------------*)

(* `A crash after this point can lose a notification, but cannot announce   *)
(* the same transition twice', whatever is read again, saved or not, and    *)
(* forgotten at the bound or by age. Two bounds end this: so many files in  *)
(* one instant that their sequences run into the next, and, for a session   *)
(* alone, so many retirements in a day that its record had to make room.    *)
AnnouncedOnceUnlessCrowded == crowded = {} => \A t \in twice : t.key \in evicted

(* The engine can always load what it saved. *)
CheckpointLoads == Loadable(disk)

(* A retired session is not opened again by an event from before it         *)
(* retired, also after the record of the retirement is forgotten by age,    *)
(* unless a record of it had to make room for another before that.          *)
NoReopeningUnlessEvicted ==
    \A k \in Live(disk) \ evicted : gone[k] # None => disk.sessions[k].first > gone[k]

(* A session on disk never goes back to an earlier event, unless it retired *)
(* and a record of that made room.                                          *)
SessionsMoveOn ==
    [][\A k \in Live(disk) \ evicted' : disk'.sessions[k] # None =>
          /\ disk'.sessions[k].seq >= disk.sessions[k].seq
          /\ disk'.sessions[k].at >= disk.sessions[k].at]_vars

(* A file that is published comes after every file the spool held, also     *)
(* those that make way for it and those of hooks that began later: what     *)
(* remains is enough to go on from.                                         *)
SequencesGrow ==
    [][\A f \in spool' \ spool : \A g \in spool : g.seq < f.seq]_vars

=============================================================================
