---------------------------- MODULE RefreshStart ---------------------------
(***************************************************************************)
(* How a render of the status line starts a detached refresh behind        *)
(* itself, at most once per window whatever becomes of the child.          *)
(*                                                                         *)
(*   packages/core/src/acquire/coordination.ts  spawnDetachedRefresh       *)
(*   packages/cli/src/cli.ts                    startRefreshBehind         *)
(*                                                                         *)
(* `window' numbers the REFRESH_START_INTERVAL_MILLISECONDS that have      *)
(* passed.  A render computes its window from the instant it began at, and *)
(* has created its token, or failed to, before the clock is more than Late *)
(* windows ahead of it.                                                    *)
(***************************************************************************)
EXTENDS Naturals

CONSTANTS
    Renders,     \* renders of the status line, in any number of processes
    Late,        \* how many windows a render may lag behind the clock
    MaxWindow    \* bound: the last window

ASSUME ConstantsAssumption ==
    /\ MaxWindow \in Nat
    /\ Late \in 0 .. 2

Windows == 0 .. MaxWindow

Labels == {"idle", "look", "reserve", "scan", "unlink", "spawn"}

VARIABLES
    window,   \* the current window
    pc,       \* where each render is
    win,      \* the window it computed
    listed,   \* the old tokens it found and has not yet removed
    tokens,   \* openlimiter-refresh-start-<window>.token files
    starts    \* refreshes started, by the window of the render

vars == <<window, pc, win, listed, tokens, starts>>

TypeOK ==
    /\ window \in Windows
    /\ pc \in [Renders -> Labels]
    /\ win \in [Renders -> Windows]
    /\ listed \in [Renders -> SUBSET Windows]
    /\ tokens \subseteq Windows
    /\ starts \in [Windows -> Nat]

Init ==
    /\ window = 0
    /\ pc = [r \in Renders |-> "idle"]
    /\ win = [r \in Renders |-> 0]
    /\ listed = [r \in Renders |-> {}]
    /\ tokens = {}
    /\ starts = [w \in Windows |-> 0]

Goto(r, label) == pc' = [pc EXCEPT ![r] = label]

Leave(r) ==
    /\ Goto(r, "idle")
    /\ win' = [win EXCEPT ![r] = 0]
    /\ listed' = [listed EXCEPT ![r] = {}]

(* The render's instant is read and shouldStartRefresh finds the cache due. *)
Decide(r) ==
    /\ pc[r] = "idle"
    /\ \E w \in Windows :
          /\ w <= window /\ window <= w + Late
          /\ win' = [win EXCEPT ![r] = w]
    /\ Goto(r, "look")
    /\ UNCHANGED <<window, listed, tokens, starts>>

(* refreshLockHeld: somebody is refreshing, or nobody is.  The child takes  *)
(* the lock, so what is seen here binds nobody.                             *)
Look(r) ==
    /\ pc[r] = "look"
    /\ \/ Leave(r)
       \/ Goto(r, "reserve") /\ UNCHANGED <<win, listed>>
    /\ UNCHANGED <<window, tokens, starts>>

(* writeFile with "wx": the token of the window is made, or it exists, or   *)
(* it cannot be made; only the first goes on.                               *)
Reserve(r) ==
    /\ pc[r] = "reserve"
    /\ \/ /\ win[r] \notin tokens
          /\ tokens' = tokens \union {win[r]}
          /\ Goto(r, "scan") /\ UNCHANGED <<win, listed>>
       \/ Leave(r) /\ UNCHANGED tokens
    /\ UNCHANGED <<window, starts>>

(* Mutant: a token only two windows behind is removed as well. *)
Old_Early(w, t) == t + 1 < w

Old(w, t) == t + 2 < w

(* removeOldStartTokens: the directory is read ...                          *)
Scan(r) ==
    /\ pc[r] = "scan"
    /\ listed' = [listed EXCEPT ![r] = {t \in tokens : Old(win[r], t)}]
    /\ Goto(r, "unlink")
    /\ UNCHANGED <<window, win, tokens, starts>>

(* ... and every old token unlinked, or not if the unlink fails.            *)
Unlink(r) ==
    /\ pc[r] = "unlink"
    /\ \/ \E t \in listed[r] :
             /\ listed' = [listed EXCEPT ![r] = @ \ {t}]
             /\ tokens' \in {tokens, tokens \ {t}}
             /\ UNCHANGED pc
       \/ listed[r] = {} /\ Goto(r, "spawn") /\ UNCHANGED <<listed, tokens>>
    /\ UNCHANGED <<window, win, starts>>

(* The child is handed to the operating system; whether it ever runs is not *)
(* known here.                                                              *)
Spawn(r) ==
    /\ pc[r] = "spawn"
    /\ starts' = [starts EXCEPT ![win[r]] = @ + 1]
    /\ Leave(r)
    /\ UNCHANGED <<window, tokens>>

(* A render is killed, or its spawn throws.                                 *)
Die(r) ==
    /\ pc[r] # "idle"
    /\ Leave(r)
    /\ UNCHANGED <<window, tokens, starts>>

(* The next window begins; no render still short of its token lags further  *)
(* than Late.                                                               *)
Advance ==
    /\ window < MaxWindow
    /\ \A r \in Renders : pc[r] \in {"look", "reserve"} => window < win[r] + Late
    /\ window' = window + 1
    /\ UNCHANGED <<pc, win, listed, tokens, starts>>

Next ==
    \/ Advance
    \/ \E r \in Renders :
          \/ Decide(r) \/ Look(r) \/ Reserve(r) \/ Scan(r) \/ Unlink(r)
          \/ Spawn(r) \/ Die(r)

Spec == Init /\ [][Next]_vars

----------------------------------------------------------------------------
(* Properties.                                                              *)

(* `This bound makes it one start per window at most, whatever became of    *)
(* the child': no two renders start a refresh for the same window, although *)
(* tokens are removed and a late render may come after a faster clock has   *)
(* moved on.                                                                *)
OneStartPerWindow == \A w \in Windows : starts[w] <= 1

(* Reserving, scanning, removing and dying are invisible: what is left of   *)
(* spawnDetachedRefresh is a step that starts a window not started before.  *)
Once == INSTANCE AtMostOnce WITH Items <- Windows, count <- starts
StartsAtMostOnce == Once!Spec

============================================================================
