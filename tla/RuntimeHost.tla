---------------------------- MODULE RuntimeHost ----------------------------
(***************************************************************************)
(* RuntimeHost (src/src/runtime_session/host.rs): the registry of the      *)
(* sessions one process hosts.  A lock guards the sessions and the receipt *)
(* of the current shutdown; removing a session and shutting the host down  *)
(* both wait for session actors with the lock released, so everything may  *)
(* happen in between: other removals, other shutdowns, new sessions under  *)
(* a released identity, callers that give up.                              *)
(*                                                                         *)
(* A session is its actor.  What RuntimeSession::shutdown answers is one   *)
(* retained outcome per actor (SessionActor), taken here as given.         *)
(***************************************************************************)
EXTENDS Integers

CONSTANTS
  Actors,          \* the session actors that ever exist
  Ids,             \* RuntimeSessionId
  IdOf,            \* [Actors -> Ids]
  NoActor,         \* a free identity
  Removers,        \* callers of remove
  Closers,         \* callers of shutdown
  MaxGenerations   \* bound: shutdown generations in a behaviour

ASSUME HostAssumption ==
  /\ IdOf \in [Actors -> Ids]
  /\ NoActor \notin Actors
  /\ MaxGenerations \in Nat

VARIABLES
  sessions,     \* HostState.sessions
  generations,  \* shutdown generations started
  shutdown,     \* HostState.shutdown: the generation of the receipt, 0 for None
  outcome,      \* what the cleanup task of each generation sent, or "pending"
  cleaning,     \* the sessions the cleanup task of each generation collected
  actor,        \* the retained shutdown outcome of each session actor
  remover,      \* the session each remove call waits for
  closer,       \* the generation each shutdown call waits for, 0 for none
  receipt,      \* what the last shutdown call of each closer returned
  registered    \* history: the sessions registered when that call was made

vars == <<sessions, generations, shutdown, outcome, cleaning, actor, remover,
          closer, receipt, registered>>
callers == <<remover, closer, receipt, registered>>

Generation == 1..MaxGenerations
Outcomes == {"pending", "complete", "failed"}
Registered == {a \in Actors : sessions[IdOf[a]] = a}

TypeOK ==
  /\ sessions \in [Ids -> Actors \cup {NoActor}]
  /\ generations \in 0..MaxGenerations
  /\ shutdown \in {0, generations}
  /\ outcome \in [Generation -> Outcomes]
  /\ cleaning \in [Generation -> SUBSET Actors]
  /\ actor \in [Actors -> Outcomes]
  /\ remover \in [Removers -> Actors \cup {NoActor}]
  /\ closer \in [Closers -> 0..MaxGenerations]
  /\ receipt \in [Closers -> Outcomes]
  /\ registered \in [Closers -> SUBSET Actors]

Init ==
  /\ sessions = [i \in Ids |-> NoActor]
  /\ generations = 0 /\ shutdown = 0
  /\ outcome = [g \in Generation |-> "pending"]
  /\ cleaning = [g \in Generation |-> {}]
  /\ actor = [a \in Actors |-> "pending"]
  /\ remover = [r \in Removers |-> NoActor]
  /\ closer = [c \in Closers |-> 0]
  /\ receipt = [c \in Closers |-> "pending"]
  /\ registered = [c \in Closers |-> {}]

-----------------------------------------------------------------------------

\* A session ends, asked by the host or by whoever else holds its handle, and
\* keeps the outcome.
ActorShutsDown(a) ==
  /\ actor[a] = "pending"
  /\ \E o \in {"complete", "failed"} : actor' = [actor EXCEPT ![a] = o]
  /\ UNCHANGED <<sessions, generations, shutdown, outcome, cleaning, callers>>

\* Mutant: the receipt of the last shutdown stays.
InsertKeepsReceipt(a) ==
  /\ shutdown # 0 => outcome[shutdown] = "complete"
  /\ sessions[IdOf[a]] = NoActor
  /\ sessions' = [sessions EXCEPT ![IdOf[a]] = a]
  /\ UNCHANGED <<shutdown, generations, outcome, cleaning, actor, callers>>
\* insert: refused while a shutdown is pending or failed, and for a taken
\* identity; otherwise a new host generation begins.
Insert(a) ==
  /\ shutdown # 0 => outcome[shutdown] = "complete"
  /\ sessions[IdOf[a]] = NoActor
  /\ shutdown' = 0
  /\ sessions' = [sessions EXCEPT ![IdOf[a]] = a]
  /\ UNCHANGED <<generations, outcome, cleaning, actor, callers>>

\* remove: look the session up, then wait for it without the lock.
RemoveStarts(r, i) ==
  /\ remover[r] = NoActor /\ sessions[i] # NoActor
  /\ remover' = [remover EXCEPT ![r] = sessions[i]]
  /\ UNCHANGED <<sessions, generations, shutdown, outcome, cleaning, actor, closer,
                 receipt, registered>>

\* Mutant: the identity is released whoever holds it now.
RemoveReleasesById(r) ==
  LET a == remover[r]
  IN  /\ a # NoActor /\ actor[a] = "complete"
      /\ sessions' = [sessions EXCEPT ![IdOf[a]] = NoActor]
      /\ remover' = [remover EXCEPT ![r] = NoActor]
      /\ UNCHANGED <<generations, shutdown, outcome, cleaning, actor, closer,
                     receipt, registered>>

\* The session is down: its identity is released if it still holds it.
RemoveEnds(r) ==
  LET a == remover[r]
  IN  /\ a # NoActor /\ actor[a] = "complete"
      /\ sessions' = IF sessions[IdOf[a]] = a
                     THEN [sessions EXCEPT ![IdOf[a]] = NoActor] ELSE sessions
      /\ remover' = [remover EXCEPT ![r] = NoActor]
      /\ UNCHANGED <<generations, shutdown, outcome, cleaning, actor, closer,
                     receipt, registered>>

\* Its cleanup failed: the error is returned and the session stays.  Or the
\* caller is cancelled while it waits.
RemoveGivesUp(r) ==
  /\ remover[r] # NoActor
  /\ remover' = [remover EXCEPT ![r] = NoActor]
  /\ UNCHANGED <<sessions, generations, shutdown, outcome, cleaning, actor, closer,
                 receipt, registered>>

\* shutdown: join the receipt that is there, or start a generation with its
\* cleanup task over the sessions registered now.
ShutdownStarts(c) ==
  /\ closer[c] = 0
  /\ registered' = [registered EXCEPT ![c] = Registered]
  /\ receipt' = [receipt EXCEPT ![c] = "pending"]
  /\ IF shutdown # 0
     THEN /\ closer' = [closer EXCEPT ![c] = shutdown]
          /\ UNCHANGED <<generations, shutdown, cleaning>>
     ELSE /\ generations < MaxGenerations
          /\ generations' = generations + 1
          /\ shutdown' = generations + 1
          /\ cleaning' = [cleaning EXCEPT ![generations + 1] = Registered]
          /\ closer' = [closer EXCEPT ![c] = generations + 1]
  /\ UNCHANGED <<sessions, outcome, actor, remover>>

\* Mutant: the task lives in its caller.
CleanupNeedsCaller(g) ==
  /\ g <= generations /\ outcome[g] = "pending"
  /\ \E c \in Closers : closer[c] = g
  /\ \A a \in cleaning[g] : actor[a] # "pending"
  /\ sessions' = [i \in Ids |-> IF sessions[i] \in {a \in cleaning[g] : actor[a] = "complete"}
                                THEN NoActor ELSE sessions[i]]
  /\ outcome' = [outcome EXCEPT ![g] =
       IF \A a \in cleaning[g] : actor[a] = "complete" THEN "complete" ELSE "failed"]
  /\ UNCHANGED <<generations, shutdown, cleaning, actor, callers>>

\* The cleanup task joined its sessions: the ones that closed release their
\* identity, the failed ones stay, and the outcome is sent under the lock.
CleanupEnds(g) ==
  /\ g <= generations /\ outcome[g] = "pending"
  /\ \A a \in cleaning[g] : actor[a] # "pending"
  /\ sessions' = [i \in Ids |-> IF sessions[i] \in {a \in cleaning[g] : actor[a] = "complete"}
                                THEN NoActor ELSE sessions[i]]
  /\ outcome' = [outcome EXCEPT ![g] =
       IF \A a \in cleaning[g] : actor[a] = "complete" THEN "complete" ELSE "failed"]
  /\ UNCHANGED <<generations, shutdown, cleaning, actor, callers>>

\* A shutdown call sees the outcome of its generation and returns it.
ShutdownReturns(c) ==
  /\ closer[c] # 0
  /\ outcome[closer[c]] # "pending"
  /\ receipt' = [receipt EXCEPT ![c] = outcome[closer[c]]]
  /\ closer' = [closer EXCEPT ![c] = 0]
  /\ UNCHANGED <<sessions, generations, shutdown, outcome, cleaning, actor, remover,
                 registered>>

\* A caller of shutdown is cancelled while it waits; the cleanup task goes on.
ShutdownCancelled(c) ==
  /\ closer[c] # 0
  /\ closer' = [closer EXCEPT ![c] = 0]
  /\ UNCHANGED <<sessions, generations, shutdown, outcome, cleaning, actor, remover,
                 receipt, registered>>

Next ==
  \/ \E a \in Actors : ActorShutsDown(a) \/ Insert(a)
  \/ \E r \in Removers, i \in Ids : RemoveStarts(r, i)
  \/ \E r \in Removers : RemoveEnds(r) \/ RemoveGivesUp(r)
  \/ \E c \in Closers : ShutdownStarts(c) \/ ShutdownReturns(c) \/ ShutdownCancelled(c)
  \/ \E g \in Generation : CleanupEnds(g)

Spec == Init /\ [][Next]_vars

(***************************************************************************)
(* Fairness.  The cleanup task is spawned and runs on its own; a session   *)
(* that was asked to shut down answers (AgentTree says when a session with *)
(* children does not); a caller that waits is polled.                      *)
(***************************************************************************)
Fairness ==
  /\ \A a \in Actors : WF_vars(ActorShutsDown(a))
  /\ \A g \in Generation : WF_vars(CleanupEnds(g))
  /\ \A c \in Closers : WF_vars(ShutdownReturns(c))

FairSpec == Spec /\ Fairness

-----------------------------------------------------------------------------
(* Properties *)

\* An identity is released only by the clean end of the session that holds it:
\* neither a late remove nor a shutdown of an earlier generation takes it from
\* a session that was admitted since, and a failed session keeps it.
ReleasedOnlyClean ==
  [][\A i \in Ids : sessions'[i] # sessions[i] /\ sessions[i] # NoActor
       => actor[sessions[i]] = "complete"]_vars

\* While the receipt of a complete shutdown stands, no session is registered.
CompleteLeavesNothing ==
  (shutdown # 0 /\ outcome[shutdown] = "complete") => \A i \in Ids : sessions[i] = NoActor

\* While the receipt of a failed shutdown stands, a failed session is still
\* registered, so that the failure can be looked at.
FailedIsRetained ==
  (shutdown # 0 /\ outcome[shutdown] = "failed")
     => \E i \in Ids : sessions[i] # NoActor /\ actor[sessions[i]] = "failed"

\* A shutdown that returned success found every session that was registered
\* when it was called cleanly down, also when it joined another caller's
\* generation or got the retained receipt of an earlier one.
SuccessMeansDown ==
  \A c \in Closers : receipt[c] = "complete" => \A a \in registered[c] : actor[a] = "complete"

\* The receipt of a shutdown means what it says, for the call that returns it
\* and for as long as the registry keeps it: complete, that every session is
\* down and gone; failed, that a failed one is still there.
ReceiptsHonest == CompleteLeavesNothing /\ FailedIsRetained /\ SuccessMeansDown

\* A started generation gets its outcome even if every caller gives up.
CleanupCompletes ==
  \A g \in Generation : (generations >= g) ~> (outcome[g] # "pending")
=============================================================================
