---------------------------- MODULE Notifications ---------------------------
(***************************************************************************)
(* The desktop's usage alerts: what a batch of samples makes of the        *)
(* notification document, when that reaches the disk, and which popups are *)
(* shown for it.                                                           *)
(*                                                                         *)
(*   apps/desktop/src-tauri/src/notifications.rs                           *)
(*                                                                         *)
(* One meter of one account.  The commands run one after another on the    *)
(* main thread, so what can come between two steps is a failed write and   *)
(* the death of the process.  The list of events the bell draws follows    *)
(* the records and is left out; quiet hours and snooze are a choice made   *)
(* when a sample is taken.                                                 *)
(***************************************************************************)
EXTENDS Integers, Sequences, SequencesExt

CONSTANTS
    Values,      \* readings, percent
    Ends,        \* window ends a provider states, seconds
    NoEnd,       \* the window id of a reading that states none
    Bands,       \* THRESHOLDS
    Low, Drop, High, Confirm,  \* LOW_RESET_PERCENT, RESET_DROP_PERCENT,
                               \* RESET_HIGH_PERCENT, RESET_CONFIRM_SECONDS
    Advance,     \* MIN_WINDOW_ADVANCE_SECONDS
    MaxRecords,  \* MAX_RECORDS
    MaxTime,     \* bound: the last instant a sample is observed at
    None

Reset == 0   \* stands where a threshold's key has its band

ASSUME ConstantsAssumption ==
    /\ Values \subseteq Nat /\ Ends \subseteq Nat /\ Bands \subseteq Nat \ {Reset}
    /\ Low \in Nat /\ Drop \in Nat /\ High \in Nat /\ Confirm \in Nat
    /\ Advance \in Nat \ {0} /\ MaxRecords \in Nat \ {0} /\ MaxTime \in Nat
    /\ NoEnd \notin Nat /\ None \notin Nat

Times == 1 .. MaxTime
Windows == Ends \cup {NoEnd}
Samples == [value : Values, end : Windows, at : Times]

(* The uniqueness key of an AlertRecord. *)
Keys == [end : Windows, reset : Nat, band : Bands \cup {Reset}]

(* MeterState.  `first' and `turns' remember the first end stated and how   *)
(* often it was taken to have advanced.                                     *)
Meters ==
    [end : Windows, reset : Nat, at : Times, last : Values, peak : Values, low : Times \cup {None},
     first : Windows, turns : Nat]

(* NotificationDocument: the meter, or None before its first sample, the    *)
(* keys on record, oldest first, and the bands enabled.                     *)
Documents == [meter : Meters \cup {None}, records : Seq(Keys), bands : SUBSET Bands]

(* What a batch has made so far: its document and its popups, the alerts of *)
(* the sample at hand still to be recorded, whether popups are forbidden    *)
(* for it, and the keys whose record made room.                             *)
Alerts == [key : Keys, last : BOOLEAN]
Works ==
    [doc : Documents, popups : Seq(Keys), todo : SUBSET Alerts, quiet : BOOLEAN, dropped : SUBSET Keys]

VARIABLES
    mem,      \* the document in memory
    disk,     \* the document on disk
    work,     \* the batch under way, or None
    popups,   \* popups of the batch that is being shown
    shown,    \* keys a popup was shown for
    twice,    \* keys a popup was shown for more than once
    drained   \* keys whose record was dropped at the bound

vars == <<mem, disk, work, popups, shown, twice, drained>>

ASSUME NoneAssumption == None \notin Meters \cup Works

TypeOK ==
    /\ mem \in Documents /\ disk \in Documents
    /\ work \in Works \cup {None}
    /\ popups \in Seq(Keys)
    /\ shown \subseteq Keys /\ twice \subseteq Keys /\ drained \subseteq Keys

Empty == [meter |-> None, records |-> <<>>, bands |-> Bands]

Init ==
    /\ mem = Empty /\ disk = Empty
    /\ work = None /\ popups = <<>>
    /\ shown = {} /\ twice = {} /\ drained = {}

(*----------------------------- evaluate_document -------------------------*)

Baseline(s) ==
    [end |-> s.end, reset |-> 0, at |-> s.at, last |-> s.value, peak |-> s.value, low |-> None,
     first |-> s.end, turns |-> 0]

(* authoritative_window_advanced: both ends are stated and the new one is   *)
(* later by more than two writers of one window disagree.                   *)
Advanced(p, s) == p.end # NoEnd /\ s.end # NoEnd /\ s.end - p.end >= Advance

(* hysteresis_reset, for a reading without an end: what it does to the      *)
(* candidate, and whether a second low reading confirms it.                 *)
Plausible(p, s) == s.end = NoEnd /\ s.value <= Low /\ p.peak >= High
Candidate(p, s) ==
    IF ~ Plausible(p, s) THEN None
    ELSE IF p.low = None /\ p.last - s.value >= Drop THEN s.at ELSE p.low
Inferred(p, s) ==
    Plausible(p, s) /\ p.low # None /\ s.at > p.low /\ s.at - p.low >= Confirm

Turned(p, s) == Advanced(p, s) \/ Inferred(p, s)
ResetId(p, s) == IF Turned(p, s) THEN p.reset + 1 ELSE p.reset

(* Mutant: the end follows every reading that states one. *)
NewEnd_Follows(p, s) == IF s.end = NoEnd THEN p.end ELSE s.end

(* The window end moves forward only, and a reading without one keeps it.   *)
NewEnd(p, s) ==
    IF p.end # NoEnd /\ (s.end = NoEnd \/ s.end < p.end) THEN p.end ELSE s.end

(* Mutant: a reset forgets the peak. *)
Moved_NoPeak(p, s) ==
    [end |-> NewEnd(p, s), at |-> s.at, last |-> s.value, reset |-> ResetId(p, s),
     peak |-> IF Turned(p, s) THEN None ELSE IF s.value > p.peak THEN s.value ELSE p.peak,
     low |-> IF Turned(p, s) THEN None ELSE Candidate(p, s),
     first |-> IF p.end = NoEnd THEN s.end ELSE p.first,
     turns |-> IF Advanced(p, s) THEN p.turns + 1 ELSE p.turns]

(* The meter after a sample. *)
Moved(p, s) ==
    [end |-> NewEnd(p, s), at |-> s.at, last |-> s.value, reset |-> ResetId(p, s),
     peak |-> IF Turned(p, s) \/ s.value > p.peak THEN s.value ELSE p.peak,
     low |-> IF Turned(p, s) THEN None ELSE Candidate(p, s),
     first |-> IF p.end = NoEnd THEN s.end ELSE p.first,
     turns |-> IF Advanced(p, s) THEN p.turns + 1 ELSE p.turns]

(* The bands a reading crosses, and the highest enabled one, which is the   *)
(* last to be recorded and alone gets a popup; a reset gets one too.        *)
Crossed(p, s) == {b \in Bands : p.last < b /\ s.value >= b}
Highest(bands) == {b \in bands : \A c \in bands : c <= b}

Due(doc, s) ==
    LET p == doc.meter
        crossed == Crossed(p, s)
        loud == Highest(crossed \cap doc.bands)
        bands == IF Turned(p, s) THEN {Reset} ELSE crossed IN
    {[key |-> [end |-> s.end, reset |-> ResetId(p, s), band |-> b],
      last |-> b = Reset \/ b \in loud] : b \in bands}

(* One sample of a batch: a first one is the baseline, one that is not newer *)
(* is ignored, any other moves the meter and names the alerts to record.    *)
Sample(s, quiet) ==
    /\ work = None => popups = <<>>
    /\ work # None => work.todo = {}
    /\ LET w == IF work # None THEN work
                ELSE [doc |-> mem, popups |-> <<>>, todo |-> {}, quiet |-> FALSE, dropped |-> {}]
           p == w.doc.meter IN
       work' = IF p = None THEN [w EXCEPT !.doc = [w.doc EXCEPT !.meter = Baseline(s)]]
               ELSE IF s.at <= p.at THEN w
               ELSE [doc |-> [w.doc EXCEPT !.meter = Moved(p, s)], popups |-> w.popups,
                     todo |-> Due(w.doc, s), quiet |-> quiet, dropped |-> w.dropped]
    /\ UNCHANGED <<mem, disk, popups, shown, twice, drained>>

(* Mutant: one record too many. *)
Kept_OneMore(records) ==
    IF Len(records) <= MaxRecords + 1 THEN records
    ELSE SubSeq(records, Len(records) - MaxRecords, Len(records))

(* MAX_RECORDS: the oldest make room. *)
Kept(records) ==
    IF Len(records) <= MaxRecords THEN records
    ELSE SubSeq(records, Len(records) - MaxRecords + 1, Len(records))

(* Mutant: a key on record is recorded, and shown, again. *)
Known_Never(records, k) == FALSE

Known(records, k) == k \in ToSet(records)

(* The alert whose turn it is. *)
Turn(a) ==
    /\ a \in work.todo
    /\ a.last => work.todo = {a}
    /\ \A b \in work.todo : b.last \/ a.key.band <= b.key.band

(* record_event: a key on record is skipped. *)
Record(a) ==
    /\ work # None /\ Turn(a)
    /\ LET records == work.doc.records
           more == Kept(Append(records, a.key)) IN
       work' = IF Known(records, a.key) THEN [work EXCEPT !.todo = @ \ {a}]
               ELSE [doc |-> [work.doc EXCEPT !.records = more], todo |-> work.todo \ {a},
                     popups |-> IF a.last /\ ~ work.quiet THEN Append(work.popups, a.key) ELSE work.popups,
                     quiet |-> work.quiet,
                     dropped |-> work.dropped \cup (ToSet(records) \ ToSet(more))]
    /\ UNCHANGED <<mem, disk, popups, shown, twice, drained>>

(*--------------------------- evaluate_notifications ----------------------*)

(* Mutant: a batch that could not be written is shown all the same. *)
Commit_ShowAnyway ==
    /\ work # None /\ work.todo = {}
    /\ popups' = work.popups /\ work' = None
    /\ UNCHANGED <<mem, disk, shown, twice, drained>>

(* The batch is persisted, and then becomes the document; or the write      *)
(* fails and nothing of the batch remains.                                  *)
Commit ==
    /\ work # None /\ work.todo = {}
    /\ \/ /\ mem' = work.doc /\ disk' = work.doc /\ popups' = work.popups
          /\ drained' = drained \cup work.dropped
       \/ UNCHANGED <<mem, disk, popups, drained>>
    /\ work' = None
    /\ UNCHANGED <<shown, twice>>

(* One popup is shown, or the system refuses; then it is marked and the     *)
(* document persisted, and a failure of that ends the command, with the     *)
(* popups it had left.                                                      *)
Show ==
    /\ work = None /\ popups # <<>>
    /\ \/ /\ shown' = shown \cup {Head(popups)}
          /\ twice' = twice \cup ({Head(popups)} \cap shown)
       \/ UNCHANGED <<shown, twice>>
    /\ \/ disk' = mem /\ popups' = Tail(popups)
       \/ popups' = <<>> /\ UNCHANGED disk
    /\ UNCHANGED <<mem, work, drained>>

(* set_notification_settings *)
SetBands(bands) ==
    /\ work = None /\ popups = <<>>
    /\ mem' = [mem EXCEPT !.bands = bands] /\ disk' = mem'
    /\ UNCHANGED <<work, popups, shown, twice, drained>>

(* valid_document, which a document must pass to be loaded. *)
Loadable(doc) ==
    Len(doc.records) <= MaxRecords /\ (doc.meter # None => doc.meter.peak >= doc.meter.last)

(* The process ends and another starts from the disk, NotificationState::at; *)
(* without a document that can be loaded every command fails.               *)
Restart ==
    /\ Loadable(disk)
    /\ mem' = disk /\ work' = None /\ popups' = <<>>
    /\ UNCHANGED <<disk, shown, twice, drained>>

Next ==
    \/ \E s \in Samples, quiet \in BOOLEAN : Sample(s, quiet)
    \/ work # None /\ \E a \in work.todo : Record(a)
    \/ Commit \/ Show \/ Restart
    \/ \E bands \in SUBSET Bands : SetBands(bands)

Spec == Init /\ [][Next]_vars

(*------------------------------- properties ------------------------------*)

(* No alert is shown twice, across failed writes and restarts, while its    *)
(* record is kept.                                                          *)
OnceEach == twice \subseteq drained

(* An alert is shown only for what the disk already records, so a restart   *)
(* cannot repeat it.                                                        *)
ShownIsOnDisk == shown \subseteq ToSet(disk.records) \cup drained

(* What was saved can be loaded: a document refused at the start leaves the  *)
(* bell and every alert dead until the file is removed by hand.             *)
DocumentLoads == Loadable(disk)

(* Ends that drift or alternate raise no resets: every reset taken from a   *)
(* stated end has moved that end forward by a window's worth.               *)
ResetsAreAdvances ==
    \A doc \in {mem, disk} :
        doc.meter # None /\ doc.meter.end # NoEnd =>
            doc.meter.end >= doc.meter.first + Advance * doc.meter.turns

=============================================================================
