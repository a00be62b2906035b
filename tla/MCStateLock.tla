---------------------------- MODULE MCStateLock ----------------------------
(* Instances of StateLock for TLC. *)
EXTENDS StateLock

CONSTANTS n1, n2, n3, r1, f1, f2, cli, other, desktop

(* n1 and n2 share one Node process, n3 runs in another, the rest in the    *)
(* desktop.                                                                 *)
Placement ==
    [w \in Writers |-> CASE w \in {n1, n2} -> cli
                         [] w = n3 -> other
                         [] OTHER -> desktop]
=============================================================================
