----------------------------- MODULE ThreadWriters -----------------------------
(***************************************************************************)
(* Changes of threads through the app-server, whose answers can get lost:   *)
(* renaming, archiving and restoring on the history session's connection,   *)
(* and starting, forking and acquiring a thread on a connection of its own  *)
(* that then is the thread's writer (CodexHistorySession and                *)
(* CodexThreadWriter in history.rs, the classes of CodexError in error.rs). *)
(*                                                                          *)
(* Every connection is a process of its own; the lease of a thread is held  *)
(* by one process and is free once that has exited.  A request may have     *)
(* been applied when it fails.  Another client takes and frees leases too.  *)
(***************************************************************************)
EXTENDS Integers, FiniteSets

CONSTANTS Threads,        \* every thread there can be
          InitialThreads, \* those there are at the start
          MaxConnections, \* bound on the connections opened
          MaxOperations,  \* bound on the operations of the client
          None, Other     \* nobody, and the other client

ThreadsAssumption == InitialThreads \subseteq Threads
BoundsAssumption == MaxConnections \in Nat \ {0} /\ MaxOperations \in Nat

VARIABLES
    threads,   \* the threads that exist
    lease,     \* per thread: the connection that may write it
    running,   \* connections whose process runs
    session,   \* the connection of the history session
    writers,   \* per thread: the connection of the writer the caller holds
    opened,    \* connections opened so far
    cancelled, \* CodexHistoryCancellation
    op,        \* the operation in progress
    operations, \* operations so far
    last       \* how the last operation ended

server == <<threads, lease, running>>
client == <<session, writers, opened>>
vars == <<server, client, cancelled, op, operations, last>>

Connections == 1 .. MaxConnections
Kinds == {"rename", "archive", "unarchive", "start", "fork", "acquire"}
OnSession == {"rename", "archive", "unarchive"}
Creations == {"start", "fork"}

NoneAssumption ==
    /\ None \notin Threads /\ None \notin Kinds /\ None \notin Connections
    /\ Other \notin Connections /\ Other # None

\* What a request can end with, apart from its answer.
Errors == {"Io", "UnexpectedEof", "TimedOut", "Server", "InvalidResponse"}
is_connection_lost(error) == error \in {"Io", "UnexpectedEof", "TimedOut"}

NoOp == [kind |-> None, thread |-> None, step |-> "idle", on |-> None,
         retried |-> FALSE, applied |-> 0, pending |-> FALSE]
NoResult == [kind |-> None, thread |-> None, ok |-> FALSE, applied |-> 0]

Attempts ==
    [kind : Kinds \cup {None}, thread : Threads \cup {None},
     step : {"idle", "connect", "request", "replace", "shutdown"},
     on : Connections \cup {None}, retried : BOOLEAN, applied : 0 .. 2,
     pending : BOOLEAN]

TypeOK ==
    /\ threads \subseteq Threads
    /\ lease \in [Threads -> Connections \cup {None, Other}]
    /\ running \subseteq Connections
    /\ session \in Connections
    /\ writers \in [Threads -> Connections \cup {None}]
    /\ opened \in Connections /\ cancelled \in BOOLEAN
    /\ op \in Attempts

Init ==
    /\ threads = InitialThreads
    /\ lease = [thread \in Threads |-> None]
    /\ running = {1} /\ session = 1 /\ opened = 1
    /\ writers = [thread \in Threads |-> None]
    /\ cancelled = FALSE /\ op = NoOp /\ operations = 0 /\ last = NoResult

---------------------------------------------------------------------------
(* The app-server processes                                                 *)

\* The leases of a process that has exited are free.
Exit(connection) ==
    /\ running' = running \ {connection}
    /\ lease' = [thread \in Threads |->
                   IF lease[thread] = connection THEN None ELSE lease[thread]]

\* A request takes effect once, if it does at all.  A creation makes a thread,
\* and its process holds the lease.
Apply ==
    /\ op.step = "request" /\ op.pending /\ op.on \in running
    /\ op.kind = "acquire" => lease[op.thread] \in {None, op.on}
    /\ op.kind \in Creations => Threads # threads
    /\ LET created == CHOOSE thread \in Threads : thread \notin threads
           subject == IF op.kind \in Creations THEN created ELSE op.thread
       IN  /\ threads' = threads \cup {subject}
           /\ lease' = IF op.kind \in OnSession THEN lease
                         ELSE [lease EXCEPT ![subject] = op.on]
           /\ op' = [op EXCEPT !.pending = FALSE, !.applied = @ + 1,
                               !.thread = subject]
    /\ UNCHANGED <<running, client, cancelled, operations, last>>

ProcessExits ==
    /\ \E connection \in running : Exit(connection)
    /\ UNCHANGED <<threads, client, cancelled, op, operations, last>>
OtherWrites(thread) ==
    /\ thread \in threads
    /\ lease' = [lease EXCEPT ![thread] =
                   IF @ = None THEN Other ELSE IF @ = Other THEN None ELSE @]
    /\ lease' # lease
    /\ UNCHANGED <<threads, running, client, cancelled, op, operations, last>>

---------------------------------------------------------------------------
(* Operations of the client                                                 *)

Begin(kind, thread) ==
    /\ op = NoOp /\ ~cancelled /\ operations < MaxOperations
    /\ kind # "start" => thread \in threads
    /\ kind = "acquire" => writers[thread] = None
    /\ operations' = operations + 1
    /\ op' = [NoOp EXCEPT !.kind = kind, !.thread = thread,
                !.step = IF kind \in OnSession THEN "request" ELSE "connect",
                !.on = IF kind \in OnSession THEN session ELSE None,
                !.pending = kind \in OnSession]
    /\ last' = NoResult
    /\ UNCHANGED <<server, client, cancelled>>

End(ok) ==
    /\ op' = NoOp
    /\ last' = [kind |-> op.kind, thread |-> op.thread, ok |-> ok,
                applied |-> op.applied]
    /\ UNCHANGED <<cancelled, operations>>

\* The handshake of a new connection, for a writer or in place of the
\* session's; a failed one leaves no process behind (AppServerClient).
Connect ==
    /\ op.step \in {"connect", "replace"} /\ ~cancelled
    /\ opened < MaxConnections /\ opened' = opened + 1
    /\ op' = [op EXCEPT !.step = "request", !.on = opened + 1, !.pending = TRUE]
    /\ IF op.kind \in OnSession
         THEN \* reconnect: the previous connection is shut down last
              /\ session' = opened + 1
              /\ running' = (running \cup {opened + 1}) \ {session}
              /\ lease' = [thread \in Threads |->
                             IF lease[thread] = session THEN None ELSE lease[thread]]
         ELSE running' = running \cup {opened + 1} /\ UNCHANGED <<lease, session>>
    /\ UNCHANGED <<threads, writers, cancelled, operations, last>>
ConnectFails ==
    /\ op.step \in {"connect", "replace"}
    /\ End(FALSE) /\ UNCHANGED <<server, client>>

Succeed ==
    /\ op.step = "request" /\ ~op.pending
    /\ IF op.kind \in OnSession
         THEN End(TRUE) /\ UNCHANGED <<server, client>>
         ELSE IF cancelled
           THEN /\ op' = [op EXCEPT !.step = "shutdown"]
                /\ UNCHANGED <<server, client, cancelled, operations, last>>
           ELSE /\ End(TRUE) /\ writers' = [writers EXCEPT ![op.thread] = op.on]
                /\ UNCHANGED <<server, session, opened>>

\* mutant of Retries: every request is retried
Retries_any_kind(error) ==
    is_connection_lost(error) /\ ~op.retried /\ ~cancelled

\* Idempotent requests are retried once when the connection is lost: a rename
\* through a new session connection, an acquisition once the process that may
\* have the lease is gone.  A creation is not: it may have been applied.
Retries(error) ==
    /\ is_connection_lost(error) /\ ~op.retried /\ ~cancelled
    /\ op.kind \in {"rename", "acquire"}

\* mutant of Fail: the writer's process is left to itself for the retry
Fail_without_shutdown(error) ==
    /\ op.step = "request"
    /\ error = "UnexpectedEof" => op.on \notin running
    /\ error \in {"Server", "InvalidResponse"} => op.on \in running
    /\ error = "Server" => op.pending
    /\ error = "InvalidResponse" => ~op.pending
    /\ IF Retries(error)
         THEN /\ op' = [op EXCEPT !.retried = TRUE,
                          !.step = IF op.kind = "rename" THEN "replace" ELSE "connect"]
              /\ UNCHANGED <<lease, running, cancelled, operations, last>>
         ELSE IF op.kind \in OnSession
           THEN End(FALSE) /\ UNCHANGED <<lease, running>>
           ELSE /\ op' = [op EXCEPT !.step = "shutdown"]
                /\ UNCHANGED <<lease, running, cancelled, operations, last>>
    /\ UNCHANGED <<threads, client>>

\* The process has exited in the case of an end of file, and is killed with
\* the connection when the request has timed out.
Fail(error) ==
    /\ op.step = "request"
    /\ error = "UnexpectedEof" => op.on \notin running
    /\ error \in {"Server", "InvalidResponse"} => op.on \in running
    /\ error = "Server" => op.pending
    /\ error = "InvalidResponse" => ~op.pending
    /\ IF Retries(error)
         THEN /\ op' = [op EXCEPT !.retried = TRUE,
                          !.step = IF op.kind = "rename" THEN "replace" ELSE "connect"]
              /\ IF op.kind \notin OnSession \/ error = "TimedOut"
                   THEN Exit(op.on) ELSE UNCHANGED <<lease, running>>
              /\ UNCHANGED <<cancelled, operations, last>>
         ELSE IF op.kind \in OnSession
           THEN /\ End(FALSE)
                /\ IF error = "TimedOut"
                     THEN Exit(op.on) ELSE UNCHANGED <<lease, running>>
           ELSE /\ op' = [op EXCEPT !.step = "shutdown"]
                /\ UNCHANGED <<lease, running, cancelled, operations, last>>
    /\ UNCHANGED <<threads, client>>

Interrupted ==
    /\ op.step = "request" /\ cancelled
    /\ IF op.kind \in OnSession
         THEN End(FALSE)
         ELSE /\ op' = [op EXCEPT !.step = "shutdown"]
              /\ UNCHANGED <<cancelled, operations, last>>
    /\ UNCHANGED <<server, client>>

\* A failed acquisition or creation shuts its connection down.
ShutDownFailed ==
    /\ op.step = "shutdown" /\ Exit(op.on) /\ End(FALSE)
    /\ UNCHANGED <<threads, client>>

\* The caller is done with a writer.
ReleaseWriter(thread) ==
    /\ op = NoOp /\ writers[thread] # None
    /\ Exit(writers[thread]) /\ writers' = [writers EXCEPT ![thread] = None]
    /\ UNCHANGED <<threads, session, opened, cancelled, op, operations, last>>
Cancel ==
    /\ ~cancelled /\ cancelled' = TRUE
    /\ UNCHANGED <<server, client, op, operations, last>>

Next ==
    \/ Apply \/ ProcessExits
    \/ \E thread \in Threads :
          \/ OtherWrites(thread) \/ ReleaseWriter(thread)
          \/ \E kind \in Kinds : Begin(kind, thread)
    \/ Connect \/ ConnectFails \/ Succeed \/ Interrupted
    \/ \E error \in Errors : Fail(error)
    \/ ShutDownFailed \/ Cancel
Spec == Init /\ [][Next]_vars

---------------------------------------------------------------------------
(* Properties                                                               *)

\* A request that may not be repeated is not: one start or fork makes at most
\* one thread, also when its answer is lost.
AppliedOnce == op.kind \notin {"rename", "acquire"} => op.applied <= 1

\* The client never stands in its own way: when it asks for the lease of a
\* thread, no process of an earlier attempt of its own holds it.
NoConflictWithItself ==
    op.kind = "acquire" /\ op.step = "request" =>
        lease[op.thread] \in {None, Other, op.on}

\* Between operations the only processes are the session's and those of the
\* writers the caller holds, so nothing keeps a lease nobody can use.
NoProcessLeaks ==
    op = NoOp => running \subseteq {session} \cup {writers[t] : t \in Threads}

\* A writer that is handed out holds the lease of its thread for as long as
\* its process runs.
WriterHoldsLease ==
    \A thread \in Threads :
        writers[thread] \in running => lease[thread] = writers[thread]

\* What is reported as done has been done.
SuccessIsApplied == last.ok => last.applied > 0
=============================================================================
