----------------------------- MODULE LanePool ------------------------------
(***************************************************************************)
(* What the dispatcher promises, without saying how: stages are started    *)
(* one at a time, on a book that runs none, and only when every slot the   *)
(* stage needs has room; a book keeps its slots until its stage ends.      *)
(* Several may end at once, when the process does.                         *)
(***************************************************************************)
EXTENDS Integers, FiniteSets

CONSTANTS
    Book, Stage, NoState,
    Slot,               \* kinds of slots
    UsesSlot(_, _),     \* does the stage need one of that kind?
    SlotCap(_)          \* how many there are of it

VARIABLE running        \* the stage each book runs, NoState for none

Held(l) == {b \in Book : running[b] # NoState /\ UsesSlot(running[b], l)}

Init == running = [b \in Book |-> NoState]

Grant(b, s) ==
    /\ running[b] = NoState
    /\ running' = [running EXCEPT ![b] = s]
    /\ \A l \in Slot : UsesSlot(s, l) => Cardinality(Held(l)) < SlotCap(l)

Release(gone) == running' = [b \in Book |-> IF b \in gone THEN NoState ELSE running[b]]

Next == \/ \E b \in Book, s \in Stage : Grant(b, s)
        \/ \E gone \in SUBSET Book : Release(gone)

Spec == Init /\ [][Next]_running
=============================================================================
