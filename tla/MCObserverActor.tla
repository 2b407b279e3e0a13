--------------------------- MODULE MCObserverActor ---------------------------
(* The observer on small instances.  Each configuration selects the kinds of *)
(* command whose interplay its properties are about.                         *)
EXTENDS ObserverOperations, TLC

CONSTANTS a, b, c, p, q

AllKinds == {cmd.kind : cmd \in Command \ {Stop}}
OperationKinds == {"Watch", "RenameThread", "AcquireWrite", "StartTurn", "InterruptTurn",
                   "ForkThread"}
InterruptKinds == {"Watch", "AcquireWrite", "StartTurn", "InterruptTurn"}
SelectionKinds == {"Watch", "StartTurn"}

\* for the runs without temporal properties
Symmetry == Permutations({a, b}) \cup Permutations({p, q})
=============================================================================
