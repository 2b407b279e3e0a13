--------------------------- MODULE CommandDeferral ---------------------------
(***************************************************************************)
(* What deferral does to a stream of commands.  While the worker works an   *)
(* update off it awaits one operation after another; drive_operation merges *)
(* the commands that arrive meanwhile into an update of its own, and when   *)
(* the operation completes run_observer merges that one into the update that *)
(* will be the next (`following`, worker/operation.rs, worker/actor.rs).    *)
(* How the arrivals are split over operations is up to timing, so it must   *)
(* not matter: the next update has to be the one a single drain_commands of *)
(* the whole stream would have built, which `whole` records.                *)
(***************************************************************************)
EXTENDS CommandUpdate

CONSTANTS Issued,      \* the commands that may arrive
          MaxArrivals  \* bound on the arrivals

IssuedAssumption == Issued \subseteq Command \ {Stop}

VARIABLES whole,     \* the arrivals merged by one drain
          deferred,  \* `following`: deferred by the operations that completed
          arriving,  \* deferred by the operation in flight
          arrivals   \* commands so far

deferral_vars == <<whole, deferred, arriving, arrivals>>

DeferralInit ==
    whole = EmptyUpdate /\ deferred = EmptyUpdate /\ arriving = EmptyUpdate /\ arrivals = 0

Arrive(c) ==
    /\ arrivals < MaxArrivals
    /\ arrivals' = arrivals + 1
    /\ whole' = merge_command(whole, c)
    /\ arriving' = merge_command(arriving, c)
    /\ UNCHANGED deferred

DeferralCompletes ==
    /\ ~is_empty(arriving)
    /\ deferred' = merge(deferred, arriving)
    /\ arriving' = EmptyUpdate
    /\ UNCHANGED <<whole, arrivals>>

DeferralNext == (\E c \in Issued : Arrive(c)) \/ DeferralCompletes

DeferralSpec == DeferralInit /\ [][DeferralNext]_deferral_vars

DeferralTypeOK ==
    whole \in Updates /\ deferred \in Updates /\ arriving \in Updates /\ arrivals \in Nat

(* However the arrivals were split over operations in flight, deferring them *)
(* and merging the deferrals in order (merge, run_observer's `following`)    *)
(* builds the update that one drain of all of them builds: no command is     *)
(* lost, overtaken by an older one of its kind, or applied twice.            *)
DeferralIsTransparent == whole = merge(deferred, arriving)
=============================================================================
