----------------------------- MODULE MCLiveness -----------------------------
(***************************************************************************)
(* What must eventually happen, for the parts whose tasks the runtime      *)
(* schedules: the registry of sessions, the actor of a session, the worker *)
(* of thread storage and the tasks of a language server.  The first state  *)
(* chooses the part that moves; the others stay as they are, so that their *)
(* states add up.                                                          *)
(***************************************************************************)
EXTENDS RuntimeHost

CONSTANTS None, Clients

VARIABLES
  moving,                                           \* the part
  at, active, stopKind, cancelled, closing, pending, waiters, completing,
  queue, open, kept, phase, handles, task, completion, agentHome, agentPending,
  pc, call, reply, issued, started, terminal, input, stopAck, receipts,
                                                    \* SessionActor
  slot, attempts, gate, users, servers, cache,      \* LspServer
  ui, receivers, channel, worker, disk, shown, owed, saved, requests, faults,
  starts                                            \* ThreadIo

sessionVars == <<at, active, stopKind, cancelled, closing, pending, waiters,
                 completing, queue, open, kept, phase, handles, task, completion,
                 agentHome, agentPending, pc, call, reply, issued, started, terminal,
                 input, stopAck, receipts>>
lspVars == <<slot, attempts, gate, users, servers, cache>>
storageVars == <<ui, receivers, channel, worker, disk, shown, owed, saved,
                 requests, faults, starts>>

Session == INSTANCE SessionActor WITH
  outcome <- kept, QueueCapacity <- 1, MaxTurns <- 1, Kinds <- {"user"}
Lsp == INSTANCE LspServer WITH
  Callers <- {"one", "two"}, calls <- users,
  MaxAttempts <- 1, MaxLaunches <- 2, MaxVersion <- 1
Storage == INSTANCE ThreadIo WITH
  Sessions <- {"one", "two"}, NoSession <- None,
  MaxEntries <- 2, MaxBacklog <- 0, MaxRequests <- 2, MaxCheckpoints <- 1,
  MaxFaults <- 1, MaxStarts <- 1

\* The sessions of the registry compete for one identity.
MCIdOf == [a \in Actors |-> CHOOSE i \in Ids : TRUE]

HostMoves == moving = "host"
SessionMoves == moving = "session"
ServerMoves == moving = "server"
StorageMoves == moving = "storage"

PartsInit ==
  /\ moving \in {"host", "session", "server", "storage"}
  /\ Init /\ Session!Init /\ Lsp!LspInit /\ Storage!StorageInit
  /\ ui.session = "one"   \* the threads are interchangeable

PartsNext ==
  /\ UNCHANGED moving
  /\ \/ HostMoves /\ Next /\ UNCHANGED <<sessionVars, lspVars, storageVars>>
     \/ SessionMoves /\ Session!Next /\ UNCHANGED <<vars, lspVars, storageVars>>
     \/ ServerMoves /\ Lsp!LspNext /\ UNCHANGED <<vars, sessionVars, storageVars>>
     \/ StorageMoves /\ Storage!StorageNext /\ UNCHANGED <<vars, sessionVars, lspVars>>

\* The fairness of each specification, for the part that moves.
PartsFairness ==
  /\ \A a \in Actors : WF_vars(HostMoves /\ ActorShutsDown(a))
  /\ \A g \in Generation : WF_vars(HostMoves /\ CleanupEnds(g))
  /\ WF_sessionVars(SessionMoves /\ Session!Actor)
  /\ WF_sessionVars(SessionMoves /\ Session!CompleteTurn)
  /\ WF_sessionVars(SessionMoves /\ Session!TurnReturns)
  /\ \A c \in Clients : /\ WF_sessionVars(SessionMoves /\ Session!Caller(c))
                        /\ SF_sessionVars(SessionMoves /\ Session!SendShutdown(c))
  /\ \A g \in 1..2 : /\ WF_lspVars(ServerMoves /\ Lsp!PublishExit(g))
                     /\ WF_lspVars(ServerMoves /\ Lsp!WatchExit(g))
  /\ WF_storageVars(StorageMoves /\ Storage!WorkerNext)

PartsSpec ==
  PartsInit /\ [][PartsNext]_<<moving, vars, sessionVars, lspVars, storageVars>>
    /\ PartsFairness

\* The liveness of the other modules, by its name there: turns end and commands
\* are answered, shutdown calls return, a dead server is noticed, and what
\* storage owes is settled.
SessionProgress == Session!SessionProgress
ShutdownsReturn == Session!ShutdownsReturn
DeadServerNoticed == Lsp!DeadServerNoticed
EventuallySettled == Storage!EventuallySettled
=============================================================================
