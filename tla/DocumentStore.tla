--------------------------- MODULE DocumentStore ---------------------------
(***************************************************************************)
(* What a lock around a document promises its writers: the document is one *)
(* store, an update of it is one step that keeps what is there, and none   *)
(* is applied twice.  The promise ends when a lock in use is taken away,   *)
(* which changes nothing by itself.                                        *)
(***************************************************************************)
VARIABLES
    doc,     \* the updates the document contains
    broken   \* whether a lock was taken away while in use

Init == doc = {} /\ broken = FALSE

Update ==
    /\ ~ broken /\ UNCHANGED broken
    /\ \E u \in doc' : u \notin doc /\ doc' = doc \union {u}

Break == broken' = TRUE /\ UNCHANGED doc

(* Whatever becomes of the document afterwards, the promise stays broken. *)
Adrift == broken /\ broken' = TRUE

Next == Update \/ Break \/ Adrift

Spec == Init /\ [][Next]_<<doc, broken>>

=============================================================================
