------------------------- MODULE ExclusiveOperations -------------------------
(***************************************************************************)
(* What a Codex history observer promises about the operations it admits    *)
(* one at a time (thread start, thread fork, turn): a request is reserved,  *)
(* then refused or accepted; an accepted request begins exactly once and    *)
(* finishes before the next one is reserved, unless the observer closes.    *)
(***************************************************************************)
CONSTANT Operations

VARIABLES phase,     \* where the one request there may be has got to
          operation  \* its kind, or "Idle"

vars == <<phase, operation>>

Init == phase = "idle" /\ operation = "Idle"

Reserve(o) == phase = "idle" /\ phase' = "reserved" /\ operation' = o
Refuse == phase = "reserved" /\ phase' = "idle" /\ operation' = "Idle"
Accept == phase = "reserved" /\ phase' = "accepted" /\ UNCHANGED operation
Begin == phase = "accepted" /\ phase' = "running" /\ UNCHANGED operation
Finish == phase = "running" /\ phase' = "idle" /\ operation' = "Idle"
Close == phase # "closed" /\ phase' = "closed" /\ operation' = "Idle"

Next == (\E o \in Operations : Reserve(o))
        \/ Refuse \/ Accept \/ Begin \/ Finish \/ Close

Spec == Init /\ [][Next]_vars
=============================================================================
