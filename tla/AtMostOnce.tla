----------------------------- MODULE AtMostOnce -----------------------------
(***************************************************************************)
(* What the guards against repeated work promise: each item is done by one *)
(* step, once, or never.  Which items are done, and when, is open.         *)
(***************************************************************************)
EXTENDS Naturals

CONSTANT Items

VARIABLE count  \* how often each item was done

Init == count = [i \in Items |-> 0]

Do(i) == count[i] = 0 /\ count' = [count EXCEPT ![i] = 1]

Next == \E i \in Items : Do(i)

Spec == Init /\ [][Next]_count

=============================================================================
