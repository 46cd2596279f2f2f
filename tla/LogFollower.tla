----------------------------- MODULE LogFollower -----------------------------
(***************************************************************************)
(* What the downstream pull promises of a terminal, without pages, locks,  *)
(* requests or failures: it follows the published rows of the change log   *)
(* with a position that only moves forward, and the position passes a row  *)
(* in the step that takes it. A row may be skipped; no row is taken twice. *)
(***************************************************************************)
EXTENDS Integers

CONSTANTS Terminal, Row

VARIABLES
    published,   \* rows of the change log that are committed
    position,    \* the cursor of a terminal
    taken        \* rows a terminal has applied

Init ==
    /\ published = {}
    /\ position = [t \in Terminal |-> 0]
    /\ taken = [t \in Terminal |-> {}]

Publish(s) ==
    /\ s \notin published
    /\ published' = published \cup {s}
    /\ UNCHANGED <<position, taken>>

Advance(t, s) ==
    /\ s \in published
    /\ s > position[t]
    /\ position' = [position EXCEPT ![t] = s]
    /\ UNCHANGED published

Take(t, s) ==
    /\ s \notin taken[t]
    /\ Advance(t, s)
    /\ taken' = [taken EXCEPT ![t] = @ \cup {s}]

Skip(t, s) ==
    /\ Advance(t, s)
    /\ UNCHANGED taken

Next == \E s \in Row : Publish(s) \/ \E t \in Terminal : Take(t, s) \/ Skip(t, s)

Spec == Init /\ [][Next]_<<published, position, taken>>
=============================================================================
