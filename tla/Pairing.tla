------------------------------- MODULE Pairing ------------------------------
(***************************************************************************)
(* Pairing a phone from the desktop: the one pairing the runtime holds     *)
(* under its mutex, the commands that talk to the service about it, and    *)
(* the panel of the window that polls, draws and decides.                  *)
(*                                                                         *)
(*   apps/desktop/src-tauri/src/pairing.rs   PairingRuntime and commands   *)
(*   apps/desktop/ui/pairing.js              the panel                     *)
(*                                                                         *)
(* A command runs until its request is sent, waits for the answer or the   *)
(* failure, and resumes: it writes what it learned and its result is drawn *)
(* by the panel.  Other commands run in between.  The service is external. *)
(***************************************************************************)
EXTENDS Naturals

CONSTANTS
    Calls,      \* commands that can be in flight at once
    Codes,      \* codes the service can hand out
    TTL,        \* PAIRING_TTL_SECONDS
    MaxTime,    \* bound on the clock
    None

ASSUME ConstantsAssumption == TTL \in Nat \ {0} /\ MaxTime \in Nat

(* PairingPhase, with the statuses the service sends. *)
Statuses == {"pending", "claimed", "approved", "denied", "delivered"}
Phases == Statuses \cup {"deciding", "expired"}
Settled(phase) == phase \in {"approved", "denied", "delivered", "expired"}

(* Mutant: a pairing that is being decided is still asked about. *)
Quiet_OnlySettled(phase) == Settled(phase)

Quiet(phase) == Settled(phase) \/ phase = "deciding"

Session == [code : Codes, exp : Nat, phase : Phases]

ASSUME NoneAssumption == None \notin Statuses \cup Session

Verdicts == {"approved", "denied"}
Kinds == {"idle", "start", "status"} \cup Verdicts

Answers == Statuses \cup {"none", "failed"}   \* "none": not yet answered

VARIABLES
    now,      \* the clock
    held,     \* PairingRuntime.session
    call,     \* the commands in flight
    service,  \* the service's row of each code, or None
    view,     \* state.session of the panel
    message,  \* whether the panel shows a failure instead
    polling,  \* whether the panel's timer runs
    late      \* whether a status answer was written over a pairing that had
              \* changed since the question was asked

vars == <<now, held, call, service, view, message, polling, late>>
panel == <<view, message, polling>>

Idle == [kind |-> "idle", session |-> None, answer |-> "none"]

TypeOK ==
    /\ now \in 0 .. MaxTime
    /\ held \in Session \cup {None}
    /\ call \in [Calls -> [kind : Kinds, session : Session \cup {None},
                           answer : Answers]]
    /\ service \in [Codes -> Statuses \cup {None}]
    /\ view \in Session \cup {None}
    /\ message \in BOOLEAN /\ polling \in BOOLEAN /\ late \in BOOLEAN

Init ==
    /\ now = 0 /\ held = None
    /\ call = [c \in Calls |-> Idle]
    /\ service = [k \in Codes |-> None]
    /\ view = None /\ message = FALSE /\ polling = FALSE
    /\ late = FALSE

Send(c, kind, session) ==
    /\ call[c].kind = "idle"
    /\ call' = [call EXCEPT ![c] = [kind |-> kind, session |-> session, answer |-> "none"]]

Return(c) == call' = [call EXCEPT ![c] = Idle]

(* adopt: the panel draws a pairing, and stops the timer of a settled one. *)
Adopt(session) ==
    /\ view' = session /\ message' = FALSE
    /\ polling' = (polling /\ ~ Settled(session.phase))

(* A failed command is shown; a failed poll ends polling. *)
Fail(kind) ==
    /\ message' = TRUE /\ polling' = (polling /\ kind # "status")
    /\ UNCHANGED view

(*-------------------------- commands begin ------------------------------*)

(* begin: the panel forgets what it showed and pairing_start asks for a code. *)
Begin(c) ==
    /\ view # None => message \/ Settled(view.phase)
    /\ Send(c, "start", None)
    /\ polling' = FALSE /\ message' = FALSE /\ view' = None
    /\ UNCHANGED <<now, held, service, late>>

(* poll: the timer fires, whatever other polls are out, and pairing_status  *)
(* reads the pairing and asks the service how it stands.                    *)
Poll(c) ==
    /\ polling /\ held # None /\ ~ Quiet(held.phase)
    /\ Send(c, "status", held)
    /\ UNCHANGED <<now, held, service, panel, late>>

(* A quiet pairing is returned as it is, and no pairing is an error. *)
PollQuiet ==
    /\ polling /\ (held # None => Quiet(held.phase))
    /\ IF held = None THEN Fail("status") ELSE Adopt(held)
    /\ UNCHANGED <<now, held, call, service, late>>

(* guard_decision: only a claimed pairing that has not expired. *)
Decidable == held # None /\ held.exp > now /\ held.phase = "claimed"

(* begin_decision, for a press on Approve or Deny: the pairing becomes one *)
(* that is being decided, under the lock that checked it.                   *)
Decide(c, verdict) ==
    /\ view # None /\ ~ message /\ view.phase = "claimed"
    /\ Decidable
    /\ held' = [held EXCEPT !.phase = "deciding"]
    /\ Send(c, verdict, held)
    /\ UNCHANGED <<now, service, panel, late>>

(* A press that guard_decision refuses shows a failure. *)
Refused ==
    /\ view # None /\ ~ message /\ view.phase = "claimed"
    /\ ~ Decidable
    /\ message' = TRUE
    /\ UNCHANGED <<now, held, call, service, view, polling, late>>

(* end: the timer stops, pairing_cancel forgets the pairing, so does the panel. *)
Cancel ==
    /\ view # None /\ ~ message /\ view.phase = "pending"
    /\ held' = None /\ view' = None /\ polling' = FALSE
    /\ UNCHANGED <<now, call, service, message, late>>

(*------------------------------ the service ------------------------------*)

Fresh == {k \in Codes : service[k] = None}

Answer(c, status) == call' = [call EXCEPT ![c].answer = status]

(* The service takes a request: it makes a new code, says how a code     *)
(* stands, or decides one that is claimed.                                  *)
Serve(c) ==
    /\ call[c].kind # "idle" /\ call[c].answer = "none"
    /\ \/ /\ call[c].kind = "start"
          /\ \E k \in Fresh :
             /\ service' = [service EXCEPT ![k] = "pending"]
             /\ call' = [call EXCEPT ![c] =
                           [kind |-> "start", answer |-> "pending",
                            session |-> [code |-> k, exp |-> now + TTL, phase |-> "pending"]]]
       \/ /\ call[c].kind = "status"
          /\ Answer(c, service[call[c].session.code])
          /\ UNCHANGED service
       \/ /\ call[c].kind \in Verdicts /\ service[call[c].session.code] = "claimed"
          /\ service' = [service EXCEPT ![call[c].session.code] = call[c].kind]
          /\ Answer(c, call[c].kind)
    /\ UNCHANGED <<now, held, panel, late>>

(* The request fails, times out, is refused or its answer cannot be read:   *)
(* the service may or may not have done what was asked.                     *)
Lose(c) ==
    /\ call[c].kind # "idle"
    /\ Answer(c, "failed")
    /\ UNCHANGED <<now, held, service, panel, late>>

(* The phone claims a code, or fetches what an approval gave it. *)
Phone(k) ==
    /\ \/ service[k] = "pending" /\ service' = [service EXCEPT ![k] = "claimed"]
       \/ service[k] = "approved" /\ service' = [service EXCEPT ![k] = "delivered"]
    /\ UNCHANGED <<now, held, call, panel, late>>

Tick ==
    /\ now < MaxTime /\ now' = now + 1
    /\ UNCHANGED <<held, call, service, panel, late>>

(*------------------------- commands resume ------------------------------*)

Resuming(c, kinds) == call[c].kind \in kinds /\ call[c].answer # "none" /\ Return(c)

(* pairing_start: parse_create refuses an expiry that has passed or lies    *)
(* beyond the lifetime; a new pairing replaces any other, and is polled.    *)
Created(c) ==
    /\ Resuming(c, {"start"})
    /\ LET s == call[c].session IN
       IF call[c].answer # "failed" /\ s.exp > now /\ s.exp - now <= TTL
       THEN /\ held' = s
            /\ view' = s /\ message' = FALSE /\ polling' = TRUE
       ELSE Fail("start") /\ UNCHANGED held
    /\ UNCHANGED <<now, service, late>>

(* Mutant: a phase nobody else knows. *)
Read_Lapsed(session, status) ==
    [session EXCEPT !.phase = IF ~ Settled(status) /\ session.exp <= now THEN "lapsed" ELSE status]

(* parse_status: what the service says, or that the code ran out. *)
Read(session, status) ==
    [session EXCEPT !.phase = IF ~ Settled(status) /\ session.exp <= now THEN "expired" ELSE status]

(* pairing_status writes its reading over whatever is held. *)
Polled(c) ==
    /\ Resuming(c, {"status"})
    /\ IF call[c].answer = "failed"
       THEN Fail("status") /\ UNCHANGED <<held, late>>
       ELSE LET s == Read(call[c].session, call[c].answer) IN
            /\ held' = s /\ Adopt(s)
            /\ late' = (late \/ held # call[c].session)
    /\ UNCHANGED <<now, service>>

(* Mutant: the answer is written whatever is held. *)
Decided_Always(c) ==
    /\ Resuming(c, Verdicts)
    /\ LET decided == [call[c].session EXCEPT !.phase = call[c].kind] IN
       IF call[c].answer = call[c].kind
       THEN held' = decided /\ Adopt(decided)
       ELSE Fail("decide") /\ UNCHANGED held
    /\ UNCHANGED <<now, service, late>>

(* Mutant: a failed decision leaves the pairing as it is. *)
Decided_NoAbandon(c) ==
    /\ Resuming(c, Verdicts)
    /\ LET s == call[c].session
           decided == [s EXCEPT !.phase = call[c].kind] IN
       IF call[c].answer = call[c].kind
       THEN /\ held' = (IF held # None /\ held.code = s.code THEN decided ELSE held)
            /\ Adopt(decided)
       ELSE Fail("decide") /\ UNCHANGED held
    /\ UNCHANGED <<now, service, late>>

(* settle writes an answer onto the pairing it is about, if that one is     *)
(* still held; abandon_decision puts it back when it is still undecided.    *)
Decided(c) ==
    /\ Resuming(c, Verdicts)
    /\ LET s == call[c].session
           mine == held # None /\ held.code = s.code
           decided == [s EXCEPT !.phase = call[c].kind] IN
       IF call[c].answer = call[c].kind
       THEN held' = (IF mine THEN decided ELSE held) /\ Adopt(decided)
       ELSE /\ held' = (IF mine /\ held.phase = "deciding" THEN s ELSE held)
            /\ Fail("decide")
    /\ UNCHANGED <<now, service, late>>

(* pairingPanelClosed, pairingPanelOpened, and signing out. *)
Close == polling' = FALSE /\ UNCHANGED <<now, held, call, service, view, message, late>>
Open ==
    /\ view # None /\ ~ Settled(view.phase)
    /\ polling' = TRUE
    /\ UNCHANGED <<now, held, call, service, view, message, late>>
SignOut ==
    /\ view' = None /\ message' = FALSE /\ polling' = FALSE
    /\ UNCHANGED <<now, held, call, service, late>>

Step(c) == Serve(c) \/ Lose(c) \/ Created(c) \/ Polled(c) \/ Decided(c)

Next ==
    \/ \E c \in Calls :
          \/ Begin(c) \/ Poll(c) \/ Step(c)
          \/ \E verdict \in Verdicts : Decide(c, verdict)
    \/ \E k \in Codes : Phone(k)
    \/ PollQuiet \/ Refused \/ Cancel \/ Tick \/ Close \/ Open \/ SignOut

(* A request is bounded by its timeout and a command always resumes.  The   *)
(* person, the phone and the timer owe nothing.                             *)
Spec == Init /\ [][Next]_vars /\ \A c \in Calls : WF_vars(Step(c))

(*------------------------------ properties -------------------------------*)

Deciding(c) == call[c].kind \in Verdicts

(* At most one decision about a code is in flight: what begin_decision's    *)
(* single lock and the quiet phase are for.                                 *)
OneDecision ==
    \A c, d \in Calls :
        Deciding(c) /\ Deciding(d) /\ c # d => call[c].session.code # call[d].session.code

(* The same, until a status answer is written over a pairing that changed   *)
(* since the question was asked.                                            *)
OneDecisionUnlessLate == late \/ OneDecision

(* A pairing that was cancelled or replaced is not held again: a code comes *)
(* to be held only from the answer that created it, which comes once.  No   *)
(* answer to a decision and no failure of one brings it back; only a late   *)
(* status answer can.                                                       *)
NoReturnUnlessLate ==
    [][\/ late' \/ held' = None
       \/ held # None /\ held'.code = held.code
       \/ \E c \in Calls : call[c].kind = "start" /\ call[c].session = held' /\ call'[c] = Idle]_vars

BeingDecided == held # None /\ held.phase = "deciding"

(* A pairing is being decided only while a decision about it is in flight,  *)
(* so an unreachable service strands nothing.                               *)
DecidingIsCarried ==
    BeingDecided =>
        \E c \in Calls : Deciding(c) /\ call[c].session.code = held.code

(* No pairing stays in the quiet phase, where it is neither polled nor      *)
(* decidable: the request of a decision ends, and its end writes an answer  *)
(* or puts the pairing back.                                                *)
DecidingEnds == BeingDecided ~> ~ BeingDecided

=============================================================================
