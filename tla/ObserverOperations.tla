------------------------- MODULE ObserverOperations --------------------------
(***************************************************************************)
(* The observer implements ExclusiveOperations.  The phase of the request   *)
(* follows from where it is: with the client that reserved it, on its way   *)
(* to the worker (in the channel, deferred, or behind other parts of the    *)
(* update), or in the hands of the worker.  A gate held for a request that  *)
(* is nowhere has no phase: the promise does not allow it.                  *)
(***************************************************************************)
EXTENDS ObserverActor

RunningStages == {"fork", "start", "turnSelect", "turn", "turnBegin", "turnRun",
                  "turnDrain"}
Closed == stage \in {"exit", "stopped"}

Reserved == gate # "Idle" /\ ~Closed
AtClient == \E p \in Callers : callers[p] # None

Phase == CASE Closed -> "closed"
           [] ~Closed /\ ~Reserved -> "idle"
           [] Reserved /\ AtClient -> "reserved"
           [] Reserved /\ ~AtClient /\ stage \in RunningStages -> "running"
           [] Reserved /\ ~AtClient /\ stage \notin RunningStages ->
                 IF InFlight = {} THEN "lost" ELSE "accepted"

Promise == INSTANCE ExclusiveOperations
             WITH phase <- Phase, operation <- IF Closed THEN "Idle" ELSE gate

(* Every step of clients and worker is a step of one exclusive operation or  *)
(* leaves it alone: coalescing, deferral and polls neither lose a request    *)
(* that was accepted nor run it twice, and it never runs while another one   *)
(* is reserved.  That it is finished is GateReopens.                         *)
ImplementsExclusiveOperations == Promise!Spec
=============================================================================
