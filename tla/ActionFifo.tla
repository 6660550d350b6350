------------------------------ MODULE ActionFifo ------------------------------
(***************************************************************************)
(* The to-be-executed queue of actions as init's readme.txt describes it:   *)
(* an action is added to the tail unless it is already on the queue, and    *)
(* the actions of the queue are taken from it in sequence.                  *)
(***************************************************************************)
EXTENDS Sequences, SequencesExt

CONSTANTS Actions, NoAction

VARIABLES queue, current

vars == <<queue, current>>

Init == queue = <<>> /\ current = NoAction

Add(a) ==
    /\ queue' = IF Contains(queue, a) THEN queue ELSE Append(queue, a)
    /\ UNCHANGED current

Take ==
    /\ queue # <<>>
    /\ current' = Head(queue)
    /\ queue' = Tail(queue)

Rest == queue = <<>> /\ current' = NoAction /\ UNCHANGED queue

Next == (\E a \in Actions : Add(a)) \/ Take \/ Rest

Spec == Init /\ [][Next]_vars
=============================================================================
