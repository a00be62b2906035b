-------------------------- MODULE MCActivityEngine --------------------------
(* ActivityEngine over the events that open a session, let it wait,         *)
(* complete it, end it, and come from a subagent, with one session id that  *)
(* two agents claim.                                                        *)
EXTENDS ActivityEngine, TLC

CONSTANTS claude, codex, x

MCKeys == {<<claude, x>>, <<codex, x>>}
AgentSymmetry == Permutations({claude, codex})

Says(state, conf, signal) ==
    [state |-> state, conf |-> conf, outcome |-> FALSE, signal |-> signal, side |-> FALSE, ppid |-> FALSE]

MCShapes ==
    {[Says("busy", "explicit", "observation") EXCEPT !.ppid = TRUE],
     Says("done", "explicit", "claude_stop"),
     Says("waiting", "explicit", "user_question"),
     [Says("idle", "inferred", "session_ended") EXCEPT !.outcome = TRUE],
     [Says("busy", "explicit", "observation") EXCEPT !.side = TRUE]}

=============================================================================
