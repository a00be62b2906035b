---------------------------- MODULE PairingProofs ---------------------------
(***************************************************************************)
(* Pairing, for any number of commands in flight and of codes: the types,  *)
(* one decision per code, no stranded decision, no pairing that comes back.*)
(***************************************************************************)
EXTENDS Pairing, TLAPS

(* A command in flight has the pairing it is about, as it was when the      *)
(* command began; the service knows the code of every pairing.              *)
CallInv ==
    /\ held # None => service[held.code] # None
    /\ \A c \in Calls :
          LET s == call[c].session IN
          /\ s # None => service[s.code] # None
          /\ call[c].kind = "status" => s # None /\ ~ Quiet(s.phase)
          /\ Deciding(c) => s # None /\ s.phase = "claimed"
          /\ call[c].kind = "start" =>
                /\ s # None => s.phase = "pending"
                /\ call[c].answer \in Statuses => s # None

(* A code that was created and not yet adopted is nobody else's. *)
FreshInv ==
    \A c \in Calls : call[c].kind = "start" /\ call[c].session # None =>
        /\ held # None => held.code # call[c].session.code
        /\ \A d \in Calls \ {c} :
              call[d].session # None => call[d].session.code # call[c].session.code

(* While nothing came late, a pairing somebody decides about is marked. *)
HeldInv ==
    ~ late =>
        /\ OneDecision
        /\ \A c \in Calls : Deciding(c) /\ held # None /\ held.code = call[c].session.code
              => held.phase = "deciding"

IInv == TypeOK /\ CallInv /\ FreshInv /\ DecidingIsCarried /\ HeldInv

(* The steps that leave the pairing, the commands and the service alone. *)
Drawn == PollQuiet \/ Refused \/ Tick \/ Close \/ Open \/ SignOut

(* Initially nothing is held and nothing is in flight. *)
LEMMA Initially == Init => IInv
<1> SUFFICES ASSUME Init PROVE IInv
  OBVIOUS
<1>1. \A c \in Calls : call[c].kind = "idle" /\ call[c].session = None /\ ~ Deciding(c)
  BY DEF Init, Idle, Deciding, Verdicts
<1>2. TypeOK
  <2>1. now \in 0 .. MaxTime
    BY ConstantsAssumption DEF Init
  <2>2. call \in [Calls -> [kind : Kinds, session : Session \cup {None}, answer : Answers]]
    BY DEF Init, Idle, Kinds, Answers
  <2>3. message \in BOOLEAN /\ polling \in BOOLEAN /\ late \in BOOLEAN
    BY DEF Init
  <2>4. held = None /\ view = None /\ service \in [Codes -> Statuses \cup {None}]
    BY DEF Init
  <2> QED
    BY <2>1, <2>2, <2>3, <2>4, Zenon DEF TypeOK
<1>3. CallInv /\ FreshInv
  BY <1>1 DEF Init, CallInv, FreshInv
<1>4. DecidingIsCarried /\ HeldInv
  BY <1>1 DEF Init, DecidingIsCarried, BeingDecided, HeldInv, OneDecision
<1> QED
  BY <1>2, <1>3, <1>4 DEF IInv

(* Every record in flight has its fields typed. *)
LEMMA CallType ==
    ASSUME TypeOK, NEW c \in Calls
    PROVE  /\ call[c].kind \in Kinds /\ call[c].answer \in Answers
           /\ call[c].session \in Session \cup {None}
           /\ call[c].session # None => /\ call[c].session.code \in Codes
                                        /\ call[c].session.exp \in Nat
                                        /\ call[c].session.phase \in Phases
           /\ call[c] = [kind |-> call[c].kind, session |-> call[c].session, answer |-> call[c].answer]
  BY DEF TypeOK, Session

(* Changing the phase of a pairing keeps its type. *)
LEMMA PhaseType ==
    ASSUME NEW s \in Session, NEW p \in Phases
    PROVE  /\ [s EXCEPT !.phase = p] \in Session
           /\ [s EXCEPT !.phase = p].code = s.code
           /\ [s EXCEPT !.phase = p].phase = p
           /\ [s EXCEPT !.phase = p] # None
  BY NoneAssumption DEF Session

(* Whatever the service says of a code becomes a phase. *)
LEMMA ReadType ==
    ASSUME TypeOK, NEW s \in Session, NEW a \in Statuses
    PROVE  /\ Read(s, a) \in Session /\ Read(s, a) # None
           /\ Read(s, a).code = s.code /\ Read(s, a).phase # "deciding"
<1>1. PICK p \in Phases : Read(s, a) = [s EXCEPT !.phase = p] /\ p # "deciding"
  BY DEF Read, Phases, Statuses
<1> QED
  BY <1>1, PhaseType

(* What a resumed command leaves of the others. *)
LEMMA Resumed ==
    ASSUME TypeOK, NEW c \in Calls, NEW ks, Resuming(c, ks)
    PROVE  /\ call[c].kind \in ks /\ call[c].answer # "none"
           /\ call'[c] = Idle /\ \A d \in Calls \ {c} : call'[d] = call[d]
           /\ call' \in [Calls -> [kind : Kinds, session : Session \cup {None}, answer : Answers]]
  BY DEF Resuming, Return, TypeOK, Idle, Kinds, Answers

(* What a command that begins adds. *)
LEMMA Sent ==
    ASSUME TypeOK, NEW c \in Calls, NEW kind \in Kinds, NEW s \in Session \cup {None},
           Send(c, kind, s)
    PROVE  /\ call[c].kind = "idle"
           /\ call'[c] = [kind |-> kind, session |-> s, answer |-> "none"]
           /\ \A d \in Calls \ {c} : call'[d] = call[d]
           /\ call' \in [Calls -> [kind : Kinds, session : Session \cup {None}, answer : Answers]]
  BY DEF Send, TypeOK, Answers

(* The panel stays typed whatever it draws. *)
LEMMA PanelType ==
    ASSUME TypeOK
    PROVE  /\ \A s \in Session : Adopt(s) => view' \in Session /\ message' \in BOOLEAN /\ polling' \in BOOLEAN
           /\ \A k \in {"start", "status", "decide"} :
                 Fail(k) => view' \in Session \cup {None} /\ message' \in BOOLEAN /\ polling' \in BOOLEAN
  BY DEF TypeOK, Adopt, Fail

(* Steps that leave pairing, commands and service alone keep the invariant. *)
LEMMA DrawnStep ==
    ASSUME IInv, Drawn \/ UNCHANGED vars
    PROVE  IInv'
<1>1. UNCHANGED <<held, call, service, late>>
  BY DEF Drawn, PollQuiet, Refused, Tick, Close, Open, SignOut, vars
<1>2. TypeOK'
  <2>1. CASE PollQuiet
    BY <1>1, <2>1, PanelType DEF IInv, TypeOK, PollQuiet
  <2>2. CASE Refused \/ Tick \/ Close \/ Open \/ SignOut
    <3>1. now' \in 0 .. MaxTime
      BY <2>2, ConstantsAssumption DEF IInv, TypeOK, Refused, Tick, Close, Open, SignOut
    <3>2. view' \in Session \cup {None}
      BY <2>2 DEF IInv, TypeOK, Refused, Tick, Close, Open, SignOut, panel
    <3>3. message' \in BOOLEAN /\ polling' \in BOOLEAN
      BY <2>2, Zenon DEF IInv, TypeOK, Refused, Tick, Close, Open, SignOut, panel
    <3> QED
      BY <1>1, <3>1, <3>2, <3>3, Zenon DEF IInv, TypeOK
  <2>3. CASE UNCHANGED vars
    BY <2>3 DEF vars, IInv, TypeOK
  <2> QED
    BY <2>1, <2>2, <2>3 DEF Drawn
<1>3. CallInv' /\ FreshInv'
  BY <1>1 DEF IInv, CallInv, FreshInv, Deciding
<1>4. DecidingIsCarried' /\ HeldInv'
  BY <1>1 DEF IInv, DecidingIsCarried, BeingDecided, HeldInv, OneDecision, Deciding
<1> QED
  BY <1>2, <1>3, <1>4 DEF IInv

(* The phone moves a code on, and forgets none. *)
LEMMA PhoneStep ==
    ASSUME IInv, NEW k \in Codes, Phone(k)
    PROVE  IInv'
<1>1. UNCHANGED <<now, held, call, view, message, polling, late>>
  BY DEF Phone, panel
<1>2. /\ service' \in [Codes -> Statuses \cup {None}]
      /\ \A j \in Codes : service[j] # None => service'[j] # None
  BY NoneAssumption DEF Phone, IInv, TypeOK, Statuses
<1>3. TypeOK'
  BY <1>1, <1>2 DEF IInv, TypeOK
<1>4. held # None => held.code \in Codes
  BY DEF IInv, TypeOK, Session
<1>5. CallInv'
  BY <1>1, <1>2, <1>4, CallType DEF IInv, CallInv, Deciding
<1>6. FreshInv'
  BY <1>1 DEF IInv, FreshInv
<1>7. DecidingIsCarried' /\ HeldInv'
  BY <1>1 DEF IInv, DecidingIsCarried, BeingDecided, HeldInv, OneDecision, Deciding
<1> QED
  BY <1>3, <1>5, <1>6, <1>7 DEF IInv

(* A new pairing is asked for. *)
LEMMA BeginStep ==
    ASSUME IInv, NEW c \in Calls, Begin(c)
    PROVE  IInv'
<1>1. UNCHANGED <<now, held, service, late>>
  BY DEF Begin
<1>2. /\ call[c].kind = "idle"
      /\ call'[c] = [kind |-> "start", session |-> None, answer |-> "none"]
      /\ \A d \in Calls \ {c} : call'[d] = call[d]
      /\ call' \in [Calls -> [kind : Kinds, session : Session \cup {None}, answer : Answers]]
  <2>1. TypeOK /\ "start" \in Kinds /\ None \in Session \cup {None} /\ Send(c, "start", None)
    BY DEF IInv, Begin, Kinds
  <2> HIDE DEF Kinds, Session, Answers, Send, TypeOK
  <2> QED
    BY <2>1, Sent
<1>3. TypeOK'
  BY <1>1, <1>2 DEF IInv, TypeOK, Begin
<1>4. ~ Deciding(c) /\ ~ Deciding(c)' /\ \A d \in Calls \ {c} : Deciding(d)' = Deciding(d)
  BY <1>2 DEF Deciding, Verdicts
<1>5. CallInv'
  BY <1>1, <1>2, <1>4 DEF IInv, CallInv, Statuses
<1>6. FreshInv'
  BY <1>1, <1>2 DEF IInv, FreshInv
<1>7. DecidingIsCarried'
  BY <1>1, <1>2, <1>4 DEF IInv, DecidingIsCarried, BeingDecided
<1>8. HeldInv'
  BY <1>1, <1>2, <1>4 DEF IInv, HeldInv, OneDecision
<1> QED
  BY <1>3, <1>5, <1>6, <1>7, <1>8 DEF IInv

(* A status is asked for. *)
LEMMA PollStep ==
    ASSUME IInv, NEW c \in Calls, Poll(c)
    PROVE  IInv'
<1>1. UNCHANGED <<now, held, service, view, message, polling, late>> /\ held # None /\ ~ Quiet(held.phase)
  BY DEF Poll, panel
<1>2. /\ call[c].kind = "idle"
      /\ call'[c] = [kind |-> "status", session |-> held, answer |-> "none"]
      /\ \A d \in Calls \ {c} : call'[d] = call[d]
      /\ call' \in [Calls -> [kind : Kinds, session : Session \cup {None}, answer : Answers]]
  <2>1. TypeOK /\ "status" \in Kinds /\ held \in Session \cup {None} /\ Send(c, "status", held)
    BY DEF IInv, TypeOK, Poll, Kinds
  <2> QED
    BY <2>1, Sent
<1>3. TypeOK'
  BY <1>1, <1>2, Zenon DEF IInv, TypeOK
<1>4. ~ Deciding(c) /\ ~ Deciding(c)' /\ \A d \in Calls \ {c} : Deciding(d)' = Deciding(d)
  BY <1>2 DEF Deciding, Verdicts
<1>5. CallInv'
  BY <1>1, <1>2, <1>4 DEF IInv, CallInv
<1>6. FreshInv'
  BY <1>1, <1>2 DEF IInv, FreshInv
<1>7. DecidingIsCarried'
  BY <1>1, <1>2, <1>4 DEF IInv, DecidingIsCarried, BeingDecided
<1>8. HeldInv'
  BY <1>1, <1>2, <1>4 DEF IInv, HeldInv, OneDecision
<1> QED
  BY <1>3, <1>5, <1>6, <1>7, <1>8 DEF IInv

(* A decision begins: nobody decides about a pairing that is claimed. *)
LEMMA DecideStep ==
    ASSUME IInv, NEW c \in Calls, NEW v \in Verdicts, Decide(c, v)
    PROVE  IInv'
<1>1. /\ UNCHANGED <<now, service, view, message, polling, late>> /\ held # None /\ held \in Session
      /\ held.phase = "claimed" /\ held' = [held EXCEPT !.phase = "deciding"]
  BY DEF Decide, Decidable, panel, IInv, TypeOK
<1>2. held' \in Session /\ held' # None /\ held'.code = held.code /\ held'.phase = "deciding"
  BY <1>1, PhaseType DEF Phases
<1>3. /\ call[c].kind = "idle"
      /\ call'[c] = [kind |-> v, session |-> held, answer |-> "none"]
      /\ \A d \in Calls \ {c} : call'[d] = call[d]
      /\ call' \in [Calls -> [kind : Kinds, session : Session \cup {None}, answer : Answers]]
  <2>1. TypeOK /\ v \in Kinds /\ held \in Session \cup {None} /\ Send(c, v, held)
    BY DEF IInv, TypeOK, Decide, Kinds
  <2> QED
    BY <2>1, Sent
<1>4. TypeOK'
  BY <1>1, <1>2, <1>3, Zenon DEF IInv, TypeOK
<1>5. ~ Deciding(c) /\ Deciding(c)' /\ \A d \in Calls \ {c} : Deciding(d)' = Deciding(d)
  BY <1>3 DEF Deciding, Verdicts
<1>6. CallInv'
  BY <1>1, <1>2, <1>3, <1>5 DEF IInv, CallInv, Verdicts
<1>7. FreshInv'
  BY <1>1, <1>2, <1>3 DEF IInv, FreshInv, Verdicts
<1>8. DecidingIsCarried'
  BY <1>2, <1>3, <1>5 DEF DecidingIsCarried
<1>9. HeldInv'
  BY <1>1, <1>2, <1>3, <1>5 DEF IInv, HeldInv, OneDecision
<1> QED
  BY <1>4, <1>6, <1>7, <1>8, <1>9 DEF IInv

(* The panel ends the pairing. *)
LEMMA CancelStep ==
    ASSUME IInv, Cancel
    PROVE  IInv'
<1>1. UNCHANGED <<now, call, service, message, late>> /\ held' = None /\ view' = None /\ polling' = FALSE
  BY DEF Cancel
<1>2. TypeOK'
  BY <1>1, Zenon DEF IInv, TypeOK
<1>3. CallInv' /\ FreshInv'
  BY <1>1 DEF IInv, CallInv, FreshInv, Deciding
<1>4. DecidingIsCarried' /\ HeldInv'
  BY <1>1 DEF IInv, DecidingIsCarried, BeingDecided, HeldInv, OneDecision, Deciding
<1> QED
  BY <1>2, <1>3, <1>4 DEF IInv

(* An answer arrives: only a created code changes what a command is about.  *)
LEMMA AnswerStep ==
    ASSUME IInv, NEW c \in Calls, NEW a \in Answers, Answer(c, a),
           call[c].kind = "start" /\ a \in Statuses => call[c].session # None,
           UNCHANGED <<now, held, view, message, polling, late>>,
           service' \in [Codes -> Statuses \cup {None}],
           \A j \in Codes : service[j] # None => service'[j] # None
    PROVE  IInv'
<1>1. /\ \A d \in Calls : call'[d].kind = call[d].kind /\ call'[d].session = call[d].session
      /\ call'[c].answer = a /\ \A d \in Calls \ {c} : call'[d].answer = call[d].answer
      /\ call' \in [Calls -> [kind : Kinds, session : Session \cup {None}, answer : Answers]]
  BY CallType DEF IInv, TypeOK, Answer
<1>2. TypeOK'
  BY <1>1, Zenon DEF IInv, TypeOK
<1>3. \A d \in Calls : Deciding(d)' = Deciding(d)
  BY <1>1 DEF Deciding
<1>4. held # None => held.code \in Codes
  BY DEF IInv, TypeOK, Session
<1>5. CallInv'
  BY <1>1, <1>3, <1>4, CallType DEF IInv, CallInv
<1>6. FreshInv'
  BY <1>1 DEF IInv, FreshInv
<1>7. DecidingIsCarried' /\ HeldInv'
  BY <1>1, <1>3 DEF IInv, DecidingIsCarried, BeingDecided, HeldInv, OneDecision
<1> QED
  BY <1>2, <1>5, <1>6, <1>7 DEF IInv

(* A request fails. *)
LEMMA LoseStep ==
    ASSUME IInv, NEW c \in Calls, Lose(c)
    PROVE  IInv'
<1>1. "failed" \in Answers /\ "failed" \notin Statuses
  BY DEF Answers, Statuses
<1>2. Answer(c, "failed") /\ UNCHANGED <<now, held, service, view, message, polling, late>>
  BY DEF Lose, panel
<1>3. service' \in [Codes -> Statuses \cup {None}] /\ \A j \in Codes : service[j] # None => service'[j] # None
  BY <1>2 DEF IInv, TypeOK
<1> QED
  BY <1>1, <1>2, <1>3, AnswerStep

(* The service takes a request. *)
LEMMA ServeStep ==
    ASSUME IInv, NEW c \in Calls, Serve(c)
    PROVE  IInv'
<1>0. UNCHANGED <<now, held, view, message, polling, late>> /\ call[c].kind # "idle"
  BY DEF Serve, panel
<1>1. CASE call[c].kind = "status"
  <2>1. Answer(c, service[call[c].session.code]) /\ service' = service
    BY <1>1 DEF Serve, Verdicts
  <2>2. service[call[c].session.code] \in Answers
    BY <1>1, CallType DEF IInv, CallInv, TypeOK, Answers
  <2>3. service' \in [Codes -> Statuses \cup {None}] /\ \A j \in Codes : service[j] # None => service'[j] # None
    BY <2>1 DEF IInv, TypeOK
  <2> QED
    BY <1>0, <1>1, <2>1, <2>2, <2>3, AnswerStep
<1>2. CASE Deciding(c)
  <2>1. /\ Answer(c, call[c].kind) /\ call[c].kind \in Verdicts
        /\ service' = [service EXCEPT ![call[c].session.code] = call[c].kind]
    BY <1>2 DEF Serve, Deciding, Verdicts
  <2>2. call[c].kind \in Answers /\ call[c].kind # "start" /\ call[c].kind \in Statuses
    BY <2>1 DEF Answers, Statuses, Verdicts
  <2>3. service' \in [Codes -> Statuses \cup {None}] /\ \A j \in Codes : service[j] # None => service'[j] # None
    BY <2>1, <2>2, NoneAssumption DEF IInv, TypeOK
  <2> QED
    BY <1>0, <2>1, <2>2, <2>3, AnswerStep
<1>3. CASE call[c].kind = "start"
  <2>1. PICK k \in Fresh :
          /\ service' = [service EXCEPT ![k] = "pending"]
          /\ call' = [call EXCEPT ![c] =
                        [kind |-> "start", answer |-> "pending",
                         session |-> [code |-> k, exp |-> now + TTL, phase |-> "pending"]]]
    BY <1>3 DEF Serve, Verdicts
  <2> DEFINE s == [code |-> k, exp |-> now + TTL, phase |-> "pending"]
  <2>2. k \in Codes /\ service[k] = None /\ now + TTL \in Nat
    BY <2>1, ConstantsAssumption DEF Fresh, IInv, TypeOK
  <2>3. s \in Session /\ s # None /\ s.code = k /\ s.phase = "pending"
    BY <2>2, NoneAssumption DEF Session, Phases, Statuses
  <2> HIDE DEF s
  <2>4. /\ call'[c] = [kind |-> "start", session |-> s, answer |-> "pending"]
        /\ \A d \in Calls \ {c} : call'[d] = call[d]
        /\ call' \in [Calls -> [kind : Kinds, session : Session \cup {None}, answer : Answers]]
    <3>1. call' = [call EXCEPT ![c] = [kind |-> "start", answer |-> "pending", session |-> s]]
      BY <2>1 DEF s
    <3> QED
      BY <2>3, <3>1 DEF IInv, TypeOK, Kinds, Answers, Statuses
  <2>5. /\ service' \in [Codes -> Statuses \cup {None}] /\ service'[k] # None
        /\ \A j \in Codes : service[j] # None => service'[j] # None
    BY <2>1, <2>2, NoneAssumption DEF IInv, TypeOK, Statuses
  <2>6. TypeOK'
    BY <1>0, <2>4, <2>5, Zenon DEF IInv, TypeOK
  <2>7. ~ Deciding(c) /\ ~ Deciding(c)' /\ \A d \in Calls \ {c} : Deciding(d)' = Deciding(d)
    BY <1>3, <2>4 DEF Deciding, Verdicts
  <2>8. held # None => held.code \in Codes
    BY DEF IInv, TypeOK, Session
  <2>9. CallInv'
    BY <1>0, <2>2, <2>3, <2>4, <2>5, <2>7, <2>8, CallType DEF IInv, CallInv
  <2>10. \A d \in Calls \ {c} : call[d].session # None => call[d].session.code # k
    BY <2>2 DEF IInv, CallInv
  <2>11. held # None => held.code # k
    BY <2>2 DEF IInv, CallInv
  <2>12. FreshInv'
    BY <1>0, <2>3, <2>4, <2>10, <2>11 DEF IInv, FreshInv
  <2>13. DecidingIsCarried'
    BY <1>0, <2>4, <2>7 DEF IInv, DecidingIsCarried, BeingDecided
  <2>14. HeldInv'
    BY <1>0, <2>4, <2>7 DEF IInv, HeldInv, OneDecision
  <2> QED
    BY <2>6, <2>9, <2>12, <2>13, <2>14 DEF IInv
<1> QED
  BY <1>1, <1>2, <1>3 DEF Serve, Deciding

(* A command that resumes leaves the others, so what it does not write      *)
(* stays true of them.                                                      *)
LEMMA ResumedStep ==
    ASSUME IInv, NEW c \in Calls, NEW ks, Resuming(c, ks), UNCHANGED <<now, service>>,
           held' \in Session \cup {None}, view' \in Session \cup {None},
           message' \in BOOLEAN, polling' \in BOOLEAN, late' \in BOOLEAN,
           held' # None => \/ held # None /\ held'.code = held.code
                           \/ call[c].session # None /\ held'.code = call[c].session.code
    PROVE  TypeOK' /\ CallInv' /\ FreshInv'
<1>1. /\ call'[c] = Idle /\ \A d \in Calls \ {c} : call'[d] = call[d]
      /\ call' \in [Calls -> [kind : Kinds, session : Session \cup {None}, answer : Answers]]
  <2> TypeOK
    BY DEF IInv
  <2> QED
    BY Resumed
<1>2. TypeOK'
  BY <1>1, Zenon DEF IInv, TypeOK
<1>3. Idle.kind = "idle" /\ Idle.session = None /\ "idle" \notin Verdicts
  BY DEF Idle, Verdicts
<1>4. CallInv'
  BY <1>1, <1>3 DEF IInv, CallInv, Deciding
<1>5. FreshInv'
  BY <1>1, <1>3 DEF IInv, FreshInv
<1> QED
  BY <1>2, <1>4, <1>5

(* Which commands decide after one resumed. *)
LEMMA StillDeciding ==
    ASSUME TypeOK, NEW c \in Calls, NEW ks, Resuming(c, ks)
    PROVE  /\ ~ Deciding(c)'
           /\ \A d \in Calls \ {c} : Deciding(d)' = Deciding(d) /\ call'[d].session = call[d].session
  BY Resumed DEF Deciding, Idle, Verdicts

(* A created pairing is held: nobody decides about it yet. *)
LEMMA CreatedStep ==
    ASSUME IInv, NEW c \in Calls, Created(c)
    PROVE  IInv'
<1> DEFINE s == call[c].session
<1>0. /\ TypeOK /\ Resuming(c, {"start"}) /\ UNCHANGED <<now, service, late>>
      /\ call[c].kind = "start" /\ call[c].answer # "none"
  BY DEF Created, IInv, Resuming
<1>1. CASE held' = held /\ Fail("start")
  <2>1. view' \in Session \cup {None} /\ message' \in BOOLEAN /\ polling' \in BOOLEAN
    BY <1>0, <1>1, PanelType
  <2>2. late' \in BOOLEAN /\ held' \in Session \cup {None}
    BY <1>0, <1>1 DEF TypeOK
  <2>3. TypeOK' /\ CallInv' /\ FreshInv'
    BY <1>0, <1>1, <2>1, <2>2, ResumedStep
  <2>4. ~ Deciding(c)
    BY <1>0 DEF Deciding, Verdicts
  <2>5. DecidingIsCarried'
    BY <1>0, <1>1, <2>4, StillDeciding DEF IInv, DecidingIsCarried, BeingDecided
  <2>6. HeldInv'
    BY <1>0, <1>1, StillDeciding DEF IInv, HeldInv, OneDecision
  <2> QED
    BY <2>3, <2>5, <2>6 DEF IInv
<1>2. CASE /\ call[c].answer # "failed" /\ held' = s
           /\ view' = s /\ message' = FALSE /\ polling' = TRUE
  <2>1. call[c].answer \in Statuses
    BY <1>0, <1>2, CallType DEF Answers
  <2>2. s # None /\ s \in Session /\ s.phase = "pending"
    BY <1>0, <2>1, CallType DEF IInv, CallInv
  <2>3. late' \in BOOLEAN
    BY <1>0 DEF TypeOK
  <2>4. TypeOK' /\ CallInv' /\ FreshInv'
    BY <1>0, <1>2, <2>2, <2>3, ResumedStep
  <2>5. DecidingIsCarried'
    BY <1>2, <2>2 DEF DecidingIsCarried, BeingDecided
  <2>6. \A d \in Calls \ {c} : Deciding(d) => call[d].session.code # s.code
    BY <1>0, <2>2 DEF IInv, FreshInv, CallInv
  <2>7. HeldInv'
    BY <1>0, <1>2, <2>2, <2>6, StillDeciding DEF IInv, HeldInv, OneDecision
  <2> QED
    BY <2>4, <2>5, <2>7 DEF IInv
<1> QED
  BY <1>1, <1>2 DEF Created

(* A status answer is written; unless it is late, over the pairing that was *)
(* asked about, which nobody decides about.                                 *)
LEMMA PolledStep ==
    ASSUME IInv, NEW c \in Calls, Polled(c)
    PROVE  IInv'
<1> DEFINE s == call[c].session
<1>0. /\ TypeOK /\ Resuming(c, {"status"}) /\ UNCHANGED <<now, service>>
      /\ call[c].kind = "status" /\ call[c].answer # "none" /\ ~ Deciding(c)
  BY DEF Polled, IInv, Resuming, Deciding, Verdicts
<1>1. CASE held' = held /\ late' = late /\ Fail("status")
  <2>1. view' \in Session \cup {None} /\ message' \in BOOLEAN /\ polling' \in BOOLEAN
    BY <1>0, <1>1, PanelType
  <2>2. late' \in BOOLEAN /\ held' \in Session \cup {None}
    BY <1>0, <1>1 DEF TypeOK
  <2>3. TypeOK' /\ CallInv' /\ FreshInv'
    BY <1>0, <1>1, <2>1, <2>2, ResumedStep
  <2>4. DecidingIsCarried'
    BY <1>0, <1>1, StillDeciding DEF IInv, DecidingIsCarried, BeingDecided
  <2>5. HeldInv'
    BY <1>0, <1>1, StillDeciding DEF IInv, HeldInv, OneDecision
  <2> QED
    BY <2>3, <2>4, <2>5 DEF IInv
<1>2. CASE /\ call[c].answer # "failed" /\ held' = Read(s, call[c].answer) /\ Adopt(held')
           /\ late' = (late \/ held # s)
  <2>1. call[c].answer \in Statuses
    BY <1>0, <1>2, CallType DEF Answers
  <2>2. s # None /\ s \in Session /\ ~ Quiet(s.phase)
    BY <1>0, CallType DEF IInv, CallInv
  <2>3. held' \in Session /\ held' # None /\ held'.code = s.code /\ held'.phase # "deciding"
    BY <1>0, <1>2, <2>1, <2>2, ReadType
  <2>4. view' \in Session \cup {None} /\ message' \in BOOLEAN /\ polling' \in BOOLEAN
    BY <1>0, <1>2, <2>3, PanelType
  <2>5. late' \in BOOLEAN
    BY <1>2, Zenon
  <2>6. TypeOK' /\ CallInv' /\ FreshInv'
    BY <1>0, <2>2, <2>3, <2>4, <2>5, ResumedStep
  <2>7. DecidingIsCarried'
    BY <2>3 DEF DecidingIsCarried, BeingDecided
  <2>8. ASSUME ~ late'
        PROVE  ~ late /\ held = s
    BY <1>2, <2>8, Zenon
  <2>9. ~ late' => \A d \in Calls : Deciding(d) => call[d].session.code # s.code
    BY <2>2, <2>8 DEF IInv, HeldInv, Quiet
  <2>10. HeldInv'
    BY <1>0, <2>3, <2>8, <2>9, StillDeciding DEF IInv, HeldInv, OneDecision
  <2> QED
    BY <2>6, <2>7, <2>10 DEF IInv
<1> QED
  BY <1>0, <1>1, <1>2 DEF Polled

(* A decision ends: its answer settles the pairing it is about, a failure   *)
(* puts that pairing back, and no other pairing is touched.                 *)
LEMMA DecidedStep ==
    ASSUME IInv, NEW c \in Calls, Decided(c)
    PROVE  IInv'
<1> DEFINE s == call[c].session
           mine == held # None /\ held.code = s.code
           decided == [s EXCEPT !.phase = call[c].kind]
<1>0. /\ TypeOK /\ Resuming(c, Verdicts) /\ UNCHANGED <<now, service, late>>
      /\ call[c].kind \in Verdicts /\ Deciding(c)
  BY DEF Decided, IInv, Resuming, Deciding
<1>1. s # None /\ s \in Session /\ s.phase = "claimed"
  BY <1>0, CallType DEF IInv, CallInv
<1>2. decided \in Session /\ decided # None /\ decided.code = s.code /\ decided.phase \in Verdicts
  BY <1>0, <1>1, PhaseType DEF Verdicts, Phases, Statuses
<1>3. /\ held' \in {held, decided, s} /\ (held' # held => mine)
      /\ mine => held' # None /\ held'.code = s.code /\ held'.phase # "deciding"
  <2> HIDE DEF decided
  <2>1. CASE call[c].answer = call[c].kind
    BY <1>1, <1>2, <2>1 DEF Decided, decided, Verdicts
  <2>2. CASE call[c].answer # call[c].kind
    BY <1>1, <2>2 DEF Decided
  <2> QED
    BY <2>1, <2>2
<1>4. view' \in Session \cup {None} /\ message' \in BOOLEAN /\ polling' \in BOOLEAN
  <2>1. Adopt(decided) \/ Fail("decide")
    BY DEF Decided
  <2> QED
    BY <1>0, <1>2, <2>1, PanelType
<1>5. late' \in BOOLEAN /\ held' \in Session \cup {None}
  BY <1>0, <1>1, <1>2, <1>3 DEF TypeOK
<1> HIDE DEF decided
<1>6. TypeOK' /\ CallInv' /\ FreshInv'
  BY <1>0, <1>1, <1>3, <1>4, <1>5, ResumedStep
<1>7. DecidingIsCarried'
  BY <1>0, <1>3, StillDeciding DEF IInv, DecidingIsCarried, BeingDecided
<1>8. HeldInv'
  BY <1>0, <1>3, StillDeciding DEF IInv, HeldInv, OneDecision
<1> QED
  BY <1>6, <1>7, <1>8 DEF IInv

(* The invariant holds throughout. *)
THEOREM Invariance == Spec => []IInv
<1>1. Init => IInv
  BY Initially
<1>2. IInv /\ [Next]_vars => IInv'
  BY DrawnStep, PhoneStep, BeginStep, PollStep, DecideStep, CancelStep, LoseStep, ServeStep,
     CreatedStep, PolledStep, DecidedStep DEF Next, Step, Drawn
<1> QED
  BY <1>1, <1>2, PTL DEF Spec

(* Every variable stays in its set: no answer of the service makes a phase  *)
(* that the runtime and the panel do not know.                              *)
THEOREM TypeCorrect == Spec => []TypeOK
  BY Invariance, PTL DEF IInv

(* Two decisions about one code are never in flight together, unless a      *)
(* status answer was written over a pairing that had changed.               *)
THEOREM OneDecisionPerCode == Spec => []OneDecisionUnlessLate
<1>1. IInv => OneDecisionUnlessLate
  BY Zenon DEF IInv, HeldInv, OneDecisionUnlessLate
<1> QED
  BY <1>1, Invariance, PTL

(* A pairing that is being decided has its decision in flight. *)
THEOREM Carried == Spec => []DecidingIsCarried
  BY Invariance, PTL DEF IInv

(* A step holds a code that was not held only where the code was created,   *)
(* or where a status answer came late.                                      *)
LEMMA NoReturnStep ==
    ASSUME IInv, Next
    PROVE  \/ late' \/ held' = None
           \/ held # None /\ held'.code = held.code
           \/ \E c \in Calls : call[c].kind = "start" /\ call[c].session = held' /\ call'[c] = Idle
<1> DEFINE Kept == held' = None \/ (held # None /\ held'.code = held.code)
<1>1. ASSUME held' = held PROVE Kept
  BY <1>1
<1>2. ASSUME NEW c \in Calls, NEW v \in Verdicts, Decide(c, v) PROVE Kept
  <2>1. held # None /\ held \in Session /\ held' = [held EXCEPT !.phase = "deciding"]
    BY <1>2 DEF Decide, Decidable, IInv, TypeOK
  <2> QED
    BY <2>1, PhaseType DEF Phases
<1>3. ASSUME NEW c \in Calls, Created(c), held' # held
      PROVE  call[c].kind = "start" /\ call[c].session = held' /\ call'[c] = Idle
  BY <1>3, Resumed DEF Created, IInv
<1>4. ASSUME NEW c \in Calls, Polled(c), held' # held, ~ late'
      PROVE  Kept
  <2>1. /\ TypeOK /\ Resuming(c, {"status"}) /\ call[c].kind = "status" /\ call[c].answer \in Statuses
        /\ held' = Read(call[c].session, call[c].answer) /\ held = call[c].session
    <3>1. TypeOK /\ Resuming(c, {"status"}) /\ call[c].kind = "status" /\ call[c].answer # "none"
      BY <1>4 DEF Polled, IInv, Resuming
    <3>2. /\ call[c].answer # "failed" /\ held' = Read(call[c].session, call[c].answer)
          /\ late' = (late \/ held # call[c].session)
      BY <1>4 DEF Polled
    <3>3. call[c].answer \in Statuses
      BY <3>1, <3>2, CallType DEF Answers
    <3>4. held = call[c].session
      BY <1>4, <3>2, Zenon
    <3> QED
      BY <3>1, <3>2, <3>3, <3>4
  <2>2. call[c].session # None /\ call[c].session \in Session
    BY <2>1, CallType DEF IInv, CallInv
  <2> QED
    BY <2>1, <2>2, ReadType
<1>5. ASSUME NEW c \in Calls, Decided(c), held' # held
      PROVE  Kept
  <2> DEFINE s == call[c].session
             decided == [s EXCEPT !.phase = call[c].kind]
  <2>1. call[c].kind \in Verdicts /\ s # None /\ s \in Session
    BY <1>5, CallType DEF Decided, Resuming, IInv, CallInv, Deciding
  <2>2. decided.code = s.code
    BY <2>1, PhaseType DEF Verdicts, Phases, Statuses
  <2>3. held # None /\ held.code = s.code /\ held' \in {decided, s}
    BY <1>5 DEF Decided
  <2> QED
    BY <2>2, <2>3
<1>6. ASSUME Cancel PROVE Kept
  BY <1>6 DEF Cancel
<1>7. \/ held' = held
      \/ \E c \in Calls : Created(c) \/ Polled(c) \/ Decided(c) \/ \E v \in Verdicts : Decide(c, v)
      \/ Cancel
  BY DEF Next, Step, Begin, Poll, Serve, Lose, Phone, PollQuiet, Refused, Tick, Close, Open, SignOut
<1> HIDE DEF Kept
<1>8. Kept \/ late' \/ \E c \in Calls : call[c].kind = "start" /\ call[c].session = held' /\ call'[c] = Idle
  BY <1>1, <1>2, <1>3, <1>4, <1>5, <1>6, <1>7
<1> QED
  BY <1>8, Zenon DEF Kept

(* A pairing that was cancelled or replaced does not come back, unless a    *)
(* status answer was written over a pairing that had changed.               *)
THEOREM NoReturn == Spec => NoReturnUnlessLate
<1> DEFINE Ok == \/ late' \/ held' = None
                 \/ held # None /\ held'.code = held.code
                 \/ \E c \in Calls : call[c].kind = "start" /\ call[c].session = held' /\ call'[c] = Idle
<1>1. IInv /\ [Next]_vars => [Ok]_vars
  BY NoReturnStep
<1> HIDE DEF Ok
<1>2. Spec => [][Ok]_vars
  BY <1>1, Invariance, PTL DEF Spec
<1> QED
  BY <1>2 DEF NoReturnUnlessLate, Ok

=============================================================================
