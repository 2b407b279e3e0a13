---------------------------- MODULE CommandUpdate ----------------------------
(***************************************************************************)
(* The commands of a Codex history observer and the CommandUpdate they are  *)
(* coalesced into (observer/commands/mod.rs).  The worker never handles one *)
(* command at a time: everything waiting in its channel, or received while  *)
(* it awaits an operation, is merged into one update whose parts are then   *)
(* worked off in a fixed order.                                             *)
(*                                                                          *)
(* Request payloads (prompts, names, directories, options) are abstracted   *)
(* away.  A turn request carries a number, the position of that request     *)
(* among the turns asked for so far; a steer or an interrupt carries the    *)
(* number of the latest turn asked for when it was issued.                  *)
(***************************************************************************)
EXTENDS Naturals, Sequences

CONSTANTS Threads,  \* identifiers of persisted threads
          MaxTurns, \* bound on the turns asked for
          None      \* Option::None

Turns == 1 .. MaxTurns
Scopes == {"Active", "Archived"}

Watch == [kind : {"Watch"}, thread : Threads]
SetThreadListScope == [kind : {"SetThreadListScope"}, scope : Scopes]
Refresh == [kind : {"Refresh"}]
WriteAccess == [kind : {"AcquireWrite", "ReleaseWrite"}, thread : Threads]
RenameThread == [kind : {"RenameThread"}, thread : Threads]
ForkThread == [kind : {"ForkThread"}, thread : Threads]
ChangeThreadLifecycle ==
    [kind : {"ChangeThreadLifecycle"}, thread : Threads,
     action : {"Archive", "Restore"}]
StartThread == [kind : {"StartThread"}]
StartTurn == [kind : {"StartTurn"}, thread : Threads, turn : Turns]
TurnControl ==
    [kind : {"SteerTurn", "InterruptTurn"}, thread : Threads, turn : 0 .. MaxTurns]
ResolveInteraction == [kind : {"ResolveInteraction"}]
Control == TurnControl \cup ResolveInteraction
Stop == [kind |-> "Stop"]

Exclusive == ForkThread \cup StartThread \cup StartTurn
Shared == Watch \cup SetThreadListScope \cup Refresh \cup WriteAccess
            \cup RenameThread \cup ChangeThreadLifecycle \cup Control
Command == Exclusive \cup Shared \cup {Stop}

\* None is no payload of an optional field of an update.
ASSUME NoneAssumption == None \notin Threads \cup Scopes \cup Command
ASSUME MaxTurnsAssumption == MaxTurns \in Nat

-----------------------------------------------------------------------------
(* CommandUpdate: an optional field holds None or the command's payload.    *)
Updates ==
    [watched   : Threads \cup {None},
     scope     : Scopes \cup {None},
     refresh   : BOOLEAN,
     write     : WriteAccess \cup {None},
     rename    : RenameThread \cup {None},
     fork      : ForkThread \cup {None},
     lifecycle : Seq(ChangeThreadLifecycle),
     start     : StartThread \cup {None},
     turn      : StartTurn \cup {None},
     controls  : Seq(Control)]

EmptyUpdate ==
    [watched |-> None, scope |-> None, refresh |-> FALSE, write |-> None,
     rename |-> None, fork |-> None, lifecycle |-> <<>>, start |-> None,
     turn |-> None, controls |-> <<>>]

is_empty(u) == u = EmptyUpdate

\* deferral bug: the older intent survives the newer one
Newest_keeping_older(older, newer) == IF older = None THEN newer ELSE older

\* An intent a newer one replaces, and a reserved operation it does not.
Newest(older, newer) == IF newer = None THEN older ELSE newer
First(older, newer) == IF older = None THEN newer ELSE older

merge(older, newer) ==
    [watched   |-> Newest(older.watched, newer.watched),
     scope     |-> Newest(older.scope, newer.scope),
     refresh   |-> older.refresh \/ newer.refresh,
     write     |-> Newest(older.write, newer.write),
     rename    |-> Newest(older.rename, newer.rename),
     fork      |-> First(older.fork, newer.fork),
     lifecycle |-> older.lifecycle \o newer.lifecycle,
     start     |-> First(older.start, newer.start),
     turn      |-> First(older.turn, newer.turn),
     controls  |-> older.controls \o newer.controls]

\* merge_command returns false for Stop; callers test for Stop themselves.
merge_command(u, c) ==
    CASE c.kind = "Watch" -> [u EXCEPT !.watched = c.thread]
      [] c.kind = "SetThreadListScope" -> [u EXCEPT !.scope = c.scope]
      [] c.kind = "Refresh" -> [u EXCEPT !.refresh = TRUE]
      [] c.kind \in {"AcquireWrite", "ReleaseWrite"} -> [u EXCEPT !.write = c]
      [] c.kind = "RenameThread" -> [u EXCEPT !.rename = c]
      [] c.kind = "ForkThread" -> [u EXCEPT !.fork = First(@, c)]
      [] c.kind = "ChangeThreadLifecycle" -> [u EXCEPT !.lifecycle = Append(@, c)]
      [] c.kind = "StartThread" -> [u EXCEPT !.start = First(@, c)]
      [] c.kind = "StartTurn" -> [u EXCEPT !.turn = First(@, c)]
      [] c.kind \in {"SteerTurn", "InterruptTurn", "ResolveInteraction"} ->
            [u EXCEPT !.controls = Append(@, c)]

\* The exclusive requests an update carries; the gate admits one at a time.
Requests(u) == {u.fork, u.start, u.turn} \ {None}

is_exclusive_operation_only(u) ==
    /\ [u EXCEPT !.fork = None, !.start = None, !.turn = None] = EmptyUpdate
    /\ \E r \in Exclusive : Requests(u) = {r}
=============================================================================
