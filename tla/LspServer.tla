----------------------------- MODULE LspServer -----------------------------
(***************************************************************************)
(* One language-server slot of a session (lsp_manager/): callers of        *)
(* diagnostics_for pass a gate, start the server or reuse it, synchronise  *)
(* a file and read the cache of diagnostics.  Around them run, for every   *)
(* server that was started, the supervisor of its process, the watcher of  *)
(* its exit and the reader of its publications.  A caller may be dropped   *)
(* at any await; a server may die at any time.                             *)
(*                                                                         *)
(* A start is known by its generation, the number of the attempt.  One     *)
(* file is modelled (the maps of documents and diagnostics are kept per    *)
(* file); its text, the wording of failures and the stderr tail are left   *)
(* out, and the backoff either has passed when a caller looks or has not.  *)
(***************************************************************************)
EXTENDS Integers, FiniteSets

CONSTANTS
  Callers,
  None,            \* no caller, no server, no publication
  MaxAttempts,     \* max_start_attempts
  MaxLaunches,     \* bound: starts ever made
  MaxVersion       \* bound: versions of the document sent to one server

Generations == 1..MaxLaunches
ASSUME NoneAssumption == None \notin Callers \cup Generations
ASSUME BoundAssumption == MaxLaunches \in Nat /\ MaxVersion \in Nat

VARIABLES
  slot,      \* ServerState: phase, generation, retryable
  attempts,  \* ServerSlot.attempts
  gate,      \* the caller that holds start_gate
  calls,     \* per caller: its place in diagnostics_for, its server, its version
  servers,   \* per generation: process, running, exit receipt, cancellation,
             \* watcher, version of the document, version the server received,
             \* whether a publication for it is on its way
  cache      \* DiagnosticCache: expected version, entry

lspVars == <<slot, attempts, gate, calls, servers, cache>>

NoServer ==
  [process |-> "none", running |-> FALSE, exit |-> FALSE, cancelled |-> FALSE,
   watched |-> FALSE, document |-> 0, received |-> 0, due |-> FALSE]
Away == [pc |-> "away", server |-> None, version |-> 0]

-----------------------------------------------------------------------------
(* Runtime handles.                                                        *)

\* ServerRuntime::drop: with its last handle a server is cancelled.
Holds(c, g) == calls[c].pc \in {"initializing", "sync", "mark", "send"}
                 /\ calls[c].server = g
Released(g, by) ==
  /\ g # None
  /\ ~(slot.phase = "Ready" /\ slot.generation = g)
  /\ \A c \in Callers \ {by} : ~Holds(c, g)
\* Mutant: dropping the last handle leaves the server alone.
DropHandleLeaks(g, by) == servers
DropHandle(g, by) ==
  IF Released(g, by) THEN [servers EXCEPT ![g].cancelled = TRUE] ELSE servers

\* The caller returns, with a result or a failure.
Return(c) == calls' = [calls EXCEPT ![c] = Away]

-----------------------------------------------------------------------------
(* ensure_server_ready.                                                    *)

Reusable == slot.phase = "Ready" /\ servers[slot.generation].running
Refused(waited) ==
  \/ slot.phase = "Unavailable"
  \/ slot.phase = "Failed" /\ (~slot.retryable \/ attempts >= MaxAttempts \/ ~waited)
  \/ slot.phase = "Starting" /\ attempts >= MaxAttempts

Call(c) ==
  /\ calls[c] = Away
  /\ calls' = [calls EXCEPT ![c].pc = "gate"]
  /\ UNCHANGED <<slot, attempts, gate, servers, cache>>

\* The gate is taken and left again at once: the server runs.
Reuse(c) ==
  /\ calls[c].pc = "gate" /\ gate = None
  /\ Reusable
  /\ calls' = [calls EXCEPT ![c] =
                   [pc |-> "sync", server |-> slot.generation, version |-> 0]]
  /\ UNCHANGED <<slot, attempts, gate, servers, cache>>

\* A start that was abandoned when no attempt is left becomes a failure.
Refuse(c, waited) ==
  /\ calls[c].pc = "gate" /\ gate = None
  /\ ~Reusable /\ Refused(waited)
  /\ Return(c)
  /\ slot' = IF slot.phase = "Starting"
             THEN [slot EXCEPT !.phase = "Failed", !.retryable = TRUE] ELSE slot
  /\ UNCHANGED <<attempts, gate, servers, cache>>

\* Storing Starting drops the handle of a server that was Ready and died.
BeginStart(c, waited) ==
  /\ calls[c].pc = "gate" /\ gate = None
  /\ ~Reusable /\ ~Refused(waited)
  /\ attempts < MaxLaunches
  /\ gate' = c
  /\ attempts' = attempts + 1
  /\ slot' = [phase |-> "Starting", generation |-> attempts + 1, retryable |-> TRUE]
  /\ servers' = IF slot.phase = "Ready" /\ \A d \in Callers : ~Holds(d, slot.generation)
                THEN [servers EXCEPT ![slot.generation].cancelled = TRUE] ELSE servers
  /\ calls' = [calls EXCEPT ![c] = [pc |-> "spawning", server |-> attempts + 1,
                                        version |-> 0]]
  /\ UNCHANGED cache

\* spawn_server, up to its first await.
Spawn(c) ==
  /\ calls[c].pc = "spawning"
  /\ servers' = [servers EXCEPT ![calls[c].server].process = "up",
                                ![calls[c].server].running = TRUE]
  /\ calls' = [calls EXCEPT ![c].pc = "initializing"]
  /\ UNCHANGED <<slot, attempts, gate, cache>>

\* store_start_failure: the command was not found, or the start failed in
\* another way, which may be worth another attempt or not.
StoreFailure(phase, retryable) ==
  slot' = [slot EXCEPT !.phase = phase, !.retryable = retryable]

SpawnFails(c, phase, retryable) ==
  /\ calls[c].pc = "spawning"
  /\ phase = "Unavailable" => ~retryable
  /\ StoreFailure(phase, retryable)
  /\ Return(c)
  /\ gate' = None
  /\ UNCHANGED <<attempts, servers, cache>>

\* The initialize request failed, timed out, or the server died under it.
InitializeFails(c, retryable) ==
  /\ calls[c].pc = "initializing"
  /\ StoreFailure("Failed", retryable)
  /\ Return(c)
  /\ servers' = [servers EXCEPT ![calls[c].server].cancelled = TRUE]
  /\ gate' = None
  /\ UNCHANGED <<attempts, cache>>

\* The server answered and still runs: Ready, and its exit is watched.
Initialize(c) ==
  /\ calls[c].pc = "initializing"
  /\ servers[calls[c].server].running
  /\ slot' = [phase |-> "Ready", generation |-> calls[c].server, retryable |-> TRUE]
  /\ servers' = [servers EXCEPT ![calls[c].server].watched = TRUE]
  /\ calls' = [calls EXCEPT ![c].pc = "sync"]
  /\ gate' = None
  /\ UNCHANGED <<attempts, cache>>

\* StartupAttemptGuard::drop, before the gate opens: a start that ended early
\* fails, when the slot still shows it.
DropGuard(g) ==
  IF slot.phase = "Starting" /\ slot.generation = g
  THEN [slot EXCEPT !.phase = "Failed", !.retryable = TRUE] ELSE slot

\* The caller is dropped at an await, or cannot read its file.
Cancel(c) ==
  /\ calls[c].pc \in {"gate", "initializing", "sync", "send"}
  /\ LET starting == calls[c].pc = "initializing" IN
     /\ slot' = IF starting THEN DropGuard(calls[c].server) ELSE slot
     /\ gate' = IF starting THEN None ELSE gate
  /\ servers' = DropHandle(calls[c].server, c)
  /\ Return(c)
  /\ UNCHANGED <<attempts, cache>>

-----------------------------------------------------------------------------
(* sync_file and the cache.                                                *)

\* The next version of the document, under the lock of the documents.
TakeVersion(c) ==
  /\ calls[c].pc = "sync"
  /\ servers[calls[c].server].document < MaxVersion
  /\ LET g == calls[c].server IN
     /\ servers' = [servers EXCEPT ![g].document = @ + 1]
     /\ calls' = [calls EXCEPT ![c].pc = "mark",
                                   ![c].version = servers[g].document + 1]
  /\ UNCHANGED <<slot, attempts, gate, cache>>

\* mark_expected_version, under the lock of the cache.
MarkExpected(c) ==
  /\ calls[c].pc = "mark"
  /\ cache' = [cache EXCEPT !.expected = calls[c].version]
  /\ calls' = [calls EXCEPT ![c].pc = "send"]
  /\ UNCHANGED <<slot, attempts, gate, servers>>

\* The notification reaches the server; the caller reads the cache and leaves.
Send(c) ==
  /\ calls[c].pc = "send"
  /\ LET g == calls[c].server
         dropped == DropHandle(g, c)
     IN servers' = IF servers[g].process = "up"
                   THEN [dropped EXCEPT ![g].received = calls[c].version,
                                        ![g].due = TRUE]
                   ELSE dropped
  /\ Return(c)
  /\ UNCHANGED <<slot, attempts, gate, cache>>

\* DiagnosticCache::publish: a publication older than what was sent, or than
\* what is cached, is dropped; one without a version counts as expected.
Accepts(version) ==
  /\ version >= cache.expected
  /\ cache.entry # None => cache.entry.version <= version
Publish(g, versioned) ==
  /\ servers[g].due
  /\ servers' = [servers EXCEPT ![g].due = FALSE]
  /\ LET version == IF versioned THEN servers[g].received ELSE cache.expected IN
     cache' = IF Accepts(version)
              THEN [cache EXCEPT !.entry = [version |-> version, server |-> g]]
              ELSE cache
  /\ UNCHANGED <<slot, attempts, gate, calls>>

-----------------------------------------------------------------------------
(* The supervisor and the watcher of server g.                             *)

\* The process ended by itself, or the supervisor killed a cancelled one.
ServerEnds(g) ==
  /\ servers[g].process = "up"
  /\ servers' = [servers EXCEPT ![g].process = "down", ![g].running = FALSE]
  /\ UNCHANGED <<slot, attempts, gate, calls, cache>>

\* The supervisor drained stderr: the exit of a server that was not cancelled
\* is published.
\* Mutant: the exit is told only to the callers that use the server.
PublishExitToCallers(g) ==
  /\ servers[g].process = "down" /\ ~servers[g].exit
  /\ \E c \in Callers : Holds(c, g)
  /\ servers' = [servers EXCEPT ![g].exit = TRUE]
  /\ UNCHANGED <<slot, attempts, gate, calls, cache>>
PublishExit(g) ==
  /\ servers[g].process = "down" /\ ~servers[g].exit
  /\ ~servers[g].cancelled
  /\ servers' = [servers EXCEPT ![g].exit = TRUE]
  /\ UNCHANGED <<slot, attempts, gate, calls, cache>>

\* watch_server_exit: the exit fails the slot if it still shows this server.
WatchExit(g) ==
  /\ servers[g].watched /\ servers[g].exit
  /\ LET shown == slot.phase = "Ready" /\ slot.generation = g IN
     /\ slot' = IF shown THEN [slot EXCEPT !.phase = "Failed", !.retryable = TRUE]
                ELSE slot
     /\ servers' = [servers EXCEPT ![g].watched = FALSE,
                      ![g].cancelled = @ \/ (shown /\ \A c \in Callers : ~Holds(c, g))]
  /\ UNCHANGED <<attempts, gate, calls, cache>>

LspInit ==
  /\ slot = [phase |-> "NotStarted", generation |-> 0, retryable |-> TRUE]
  /\ attempts = 0
  /\ gate = None
  /\ calls = [c \in Callers |-> Away]
  /\ servers = [g \in Generations |-> NoServer]
  /\ cache = [expected |-> 0, entry |-> None]

CallerNext(c) ==
  \/ Call(c)
  \/ Reuse(c)
  \/ \E waited \in BOOLEAN : Refuse(c, waited) \/ BeginStart(c, waited)
  \/ Spawn(c)
  \/ \E phase \in {"Unavailable", "Failed"}, retryable \in BOOLEAN :
       SpawnFails(c, phase, retryable)
  \/ \E retryable \in BOOLEAN : InitializeFails(c, retryable)
  \/ Initialize(c)
  \/ Cancel(c)
  \/ TakeVersion(c)
  \/ MarkExpected(c)
  \/ Send(c)

ServerNext(g) ==
  \/ ServerEnds(g)
  \/ PublishExit(g)
  \/ WatchExit(g)
  \/ \E versioned \in BOOLEAN : Publish(g, versioned)

LspNext ==
  \/ \E c \in Callers : CallerNext(c)
  \/ \E g \in Generations : ServerNext(g)

LspSpec == LspInit /\ [][LspNext]_lspVars

\* The tasks of a server are scheduled; callers and processes need not be.
LspFairness ==
  \A g \in Generations : WF_lspVars(PublishExit(g)) /\ WF_lspVars(WatchExit(g))
FairLspSpec == LspSpec /\ LspFairness

-----------------------------------------------------------------------------
(* Properties.                                                             *)

\* Concurrent calls, cancelled starts and late exits never leave two servers
\* that someone could use: whatever process is up and not being stopped is the
\* one the slot shows, or the one the holder of the gate starts.
OneServer ==
  \A g \in Generations :
    servers[g].process = "up" /\ ~servers[g].cancelled =>
      /\ g = attempts
      /\ slot.generation = g /\ slot.phase \in {"Starting", "Ready"}

\* The slot never promises what nobody works for: a start that is shown has a
\* caller behind it, and a dead server that is shown as ready has a supervisor
\* or a watcher that will still correct it.
SlotHonest ==
  /\ slot.phase = "Starting" =>
       gate # None /\ calls[gate].server = slot.generation
  /\ slot.phase = "Ready" =>
       /\ slot.generation = attempts
       /\ servers[slot.generation].watched
       /\ ~servers[slot.generation].cancelled

\* The slot of a language server, what it shows and what really runs, stay in
\* step through concurrent calls, cancelled starts and late exits.
SlotSound == OneServer /\ SlotHonest

\* A server that died is not shown as ready for ever, whoever calls or not.
DeadServerNoticed ==
  (slot.phase = "Ready" /\ ~servers[slot.generation].running) ~>
    (slot.phase # "Ready" \/ servers[slot.generation].running)

\* What lsp-integration.md says: a publication for the current version of the
\* document replaces the diagnostics before it.
CurrentReplaces ==
  [][\A g \in Generations :
       /\ Publish(g, TRUE)
       /\ slot.phase = "Ready" /\ slot.generation = g
       /\ servers[g].received = servers[g].document
       /\ cache.expected = servers[g].document
       => cache'.entry.server = g]_lspVars
=============================================================================
