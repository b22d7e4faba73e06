------------------------- MODULE AtomicTrajectories -------------------------
(***************************************************************************)
(* What the engine promises about the Trajectory entities of its runs:     *)
(* every adjudication behaves as if it counted its step, and raised the    *)
(* sensitivity label, in one indivisible step.                             *)
(***************************************************************************)
EXTENDS Integers

CONSTANTS Trajs, Levels

VARIABLE rows   \* per trajectory, its step count and label

Init == rows = [t \in Trajs |-> [steps |-> 0, label |-> 0]]

Count(t) == rows' = [rows EXCEPT ![t].steps = @ + 1]

Raise(t, l) ==
    /\ l > rows[t].label
    /\ rows' = [rows EXCEPT ![t].label = l]

Next == \E t \in Trajs : Count(t) \/ \E l \in Levels : Raise(t, l)

Spec == Init /\ [][Next]_rows
=============================================================================
