-------------------------- MODULE AgentTree_proofs --------------------------
(***************************************************************************)
(* What AgentTree keeps for every number of children, permits, records and *)
(* messages: one completion per child, mailboxes in order and read once,   *)
(* no sleeping through a message, and a shutdown that leaves nothing       *)
(* behind.  Each part of the invariant is about a few variables, and has a *)
(* lemma with one step per action that touches them.                       *)
(***************************************************************************)
EXTENDS AgentTree, Enumeration_proofs

-----------------------------------------------------------------------------
(* The invariant.                                                          *)

\* Who holds a permit of the semaphore, and how many are left.
Holders == {a \in Agents : exec[a] \in {"permitted", "running"}}
PermitInv ==
  /\ IsFiniteSet(Holders)
  /\ available \in Nat
  /\ available + Cardinality(Holders) = Capacity

\* Where a child is, with its record, token and completion.  A record is running
\* until somebody, the stop or the finish, takes its token and announces it.
ChildInv ==
  \A a \in Agents :
    /\ a \in cancellations <=> status[a] = "running"
    /\ completions[a] \in {0, 1}
    /\ exec[a] \in {"idle", "queued", "permitted", "refused"} =>
         status[a] = "absent" /\ completions[a] = 0
    /\ status[a] = "running" => completions[a] = 0 /\ exec[a] \in {"running", "returned", "dropped"}
    /\ exec[a] \in {"running", "returned"} =>
         a \in activeTasks /\ (status[a] # "running" => completions[a] = 1)
    /\ exec[a] = "running" /\ status[a] # "running" => token[a] \/ stopping[a] = "token"
    /\ exec[a] = "returned" => result[a] # "none"
    /\ (a \in Background /\ Parent[a] # NoParent /\ exec[a] \in {"notifying", "finished"})
         => completions[a] = 1

ShutdownInv ==
  /\ closing <=> shutdown # "no"
  /\ shutdown = "returned" => activeTasks = {}
  /\ CancelReachesAll

\* A sequence number is used once, and a number that was read is used up.
MailInv ==
  /\ MailboxFaithful
  /\ \A s \in Sessions : \A i \in DOMAIN mailbox[s] :
       /\ mailbox[s][i].seq < nextSequence
       /\ \A t \in Sessions : \A j \in DOMAIN mailbox[t] :
            mailbox[t][j].seq = mailbox[s][i].seq => t = s /\ j = i
  /\ \A n \in delivered : n < nextSequence

WakeInv ==
  /\ wait.pc # "idle" => wait.session \in Parents
  /\ sending <= sends
  /\ NoLostWakeup

TreeInv == TypeOK /\ PermitInv /\ ChildInv /\ ShutdownInv /\ MailInv /\ WakeInv

-----------------------------------------------------------------------------
(* The records.                                                            *)

Statuses == {"absent", "running"} \cup Terminal

\* Pruning takes records that ended, and spares the one it is called for.
LEMMA VictimsEnded ==
  ASSUME NEW st, NEW a \in Agents, NEW victims \in Victims(st, a)
  PROVE  \A b \in victims : b \in Agents /\ b # a /\ st[b] \in Terminal
BY DEF Victims

\* What the lock of finish covers.
LEMMA FinishIs ==
  ASSUME TypeOK, ChildInv, NEW a \in Agents, Finish(a)
  PROVE  /\ status' \in [Agents -> Statuses] /\ status'[a] = FinalStatus(a)
         /\ \A b \in Agents \ {a} :
              status'[b] = status[b] \/ (status[b] \in Terminal /\ status'[b] = "absent")
         /\ cancellations' \subseteq Agents
         /\ \A b \in Agents : b \in cancellations' <=> status'[b] = "running"
         /\ status[a] = "running" => result[a] \in {"done", "failed"} /\ status'[a] = result[a]
<1> DEFINE st == [status EXCEPT ![a] = FinalStatus(a)]
<1>1. exec[a] = "returned" /\ result[a] \in {"done", "failed"}
  BY DEF Finish, TypeOK, ChildInv
<1>2. PICK victims \in IF status[a] = "absent" THEN {{}} ELSE Victims(st, a) :
        status' = Without(st, victims) /\ cancellations' = (cancellations \ {a}) \ victims
  BY Zenon DEF Finish
<1>3. st \in [Agents -> Statuses] /\ st[a] = FinalStatus(a) /\ FinalStatus(a) # "running"
      /\ \A b \in Agents \ {a} : st[b] = status[b]
  BY <1>1 DEF TypeOK, Statuses, Terminal, FinalStatus
<1> HIDE DEF st
<1>4. \A b \in victims : b \in Agents /\ b # a /\ st[b] \in Terminal
  <2>1. CASE status[a] = "absent"
    BY <1>2, <2>1
  <2>2. CASE status[a] # "absent"
    BY <1>2, <2>2, VictimsEnded
  <2> QED
    BY <2>1, <2>2
<1>5. /\ status' \in [Agents -> Statuses] /\ status'[a] = FinalStatus(a)
      /\ \A b \in Agents : status'[b] = IF b \in victims THEN "absent" ELSE st[b]
  BY <1>2, <1>3, <1>4 DEF Without, Statuses
<1>6. \A b \in Agents \ {a} :
        status'[b] = status[b] \/ (status[b] \in Terminal /\ status'[b] = "absent")
  BY <1>3, <1>4, <1>5
<1>7. cancellations' \subseteq Agents /\ \A b \in Agents : b \in cancellations' <=> status'[b] = "running"
  BY <1>2, <1>3, <1>4, <1>5 DEF TypeOK, ChildInv, Terminal
<1> QED
  BY <1>1, <1>5, <1>6, <1>7 DEF FinalStatus

\* What the lock of a stop covers.
LEMMA StopIs ==
  ASSUME TypeOK, ChildInv, NEW a \in Agents, Stop(a)
  PROVE  /\ status' \in [Agents -> Statuses] /\ status'[a] = "cancelled"
         /\ \A b \in Agents \ {a} :
              status'[b] = status[b] \/ (status[b] \in Terminal /\ status'[b] = "absent")
         /\ cancellations' \subseteq Agents
         /\ \A b \in Agents : b \in cancellations' <=> status'[b] = "running"
<1> DEFINE st == [status EXCEPT ![a] = "cancelled"]
<1>2. PICK victims \in Victims(st, a) :
        status' = Without(st, victims) /\ cancellations' = (cancellations \ {a}) \ victims
  BY Zenon DEF Stop
<1>3. st \in [Agents -> Statuses] /\ st[a] = "cancelled"
      /\ \A b \in Agents \ {a} : st[b] = status[b]
  BY DEF TypeOK, Statuses, Terminal
<1> HIDE DEF st
<1>4. \A b \in victims : b \in Agents /\ b # a /\ st[b] \in Terminal
  BY <1>2, VictimsEnded
<1>5. /\ status' \in [Agents -> Statuses] /\ status'[a] = "cancelled"
      /\ \A b \in Agents : status'[b] = IF b \in victims THEN "absent" ELSE st[b]
  BY <1>2, <1>3, <1>4 DEF Without, Statuses
<1>6. \A b \in Agents \ {a} :
        status'[b] = status[b] \/ (status[b] \in Terminal /\ status'[b] = "absent")
  BY <1>3, <1>4, <1>5
<1>7. cancellations' \subseteq Agents /\ \A b \in Agents : b \in cancellations' <=> status'[b] = "running"
  BY <1>2, <1>3, <1>4, <1>5 DEF TypeOK, ChildInv, Terminal
<1> QED
  BY <1>5, <1>6, <1>7

\* A completion is enqueued for its child, and for no other.
LEMMA CompletionIs ==
  ASSUME TypeOK, NEW a \in Agents, EnqueueCompletion(a)
  PROVE  /\ completions' \in [Agents -> Nat] /\ completions'[a] = completions[a] + 1
         /\ \A b \in Agents \ {a} : completions'[b] = completions[b]
BY DEF TypeOK, EnqueueCompletion

\* The child's own steps and the stops keep records, tokens and completions in
\* step.
LEMMA ChildStep ==
  ASSUME TypeOK, ChildInv, Next
  PROVE  ChildInv'
<1> USE DEF registry, mail, tasks, callers, waiters
<1>1. ASSUME NEW a \in Agents, Launch(a) PROVE ChildInv'
  <2>1. CASE StartBackground(a)
    BY <2>1 DEF StartBackground, ChildInv, TypeOK
  <2>2. CASE RunForeground(a)
    BY <2>2 DEF RunForeground, ChildInv, TypeOK
  <2>3. CASE AcquirePermit(a)
    BY <2>3 DEF AcquirePermit, ChildInv, TypeOK
  <2>4. CASE RegisterRefused(a)
    BY <2>4 DEF RegisterRefused, ChildInv, TypeOK
  <2>5. CASE RegisterAccepted(a)
    BY <2>5 DEF RegisterAccepted, ChildInv, TypeOK
  <2> QED
    BY <1>1, <2>1, <2>2, <2>3, <2>4, <2>5 DEF Launch
<1>2. ASSUME NEW a \in Agents, Execution(a) PROVE ChildInv'
  <2>1. CASE ExecutionReturns(a)
    BY <2>1 DEF ExecutionReturns, ChildInv, TypeOK
  <2>2. CASE Finish(a)
    <3>1. /\ exec[a] = "returned" /\ activeTasks' = activeTasks \ {a}
          /\ exec' = [exec EXCEPT ![a] = "notifying"] /\ UNCHANGED <<result, token, stopping>>
      BY <2>2 DEF Finish
    <3>2. /\ status' \in [Agents -> Statuses] /\ status'[a] = FinalStatus(a)
          /\ \A b \in Agents \ {a} :
               status'[b] = status[b] \/ (status[b] \in Terminal /\ status'[b] = "absent")
          /\ \A b \in Agents : b \in cancellations' <=> status'[b] = "running"
          /\ status[a] = "running" => result[a] \in {"done", "failed"} /\ status'[a] = result[a]
      BY <2>2, FinishIs
    <3>3. /\ \A b \in Agents \ {a} : completions'[b] = completions[b]
          /\ completions'[a] =
               IF status[a] = "running" /\ a \in Background /\ Parent[a] # NoParent
               THEN completions[a] + 1 ELSE completions[a]
      BY <2>2, CompletionIs DEF Finish
    <3>4. \A b \in Agents : exec'[b] = IF b = a THEN "notifying" ELSE exec[b]
      BY <3>1 DEF TypeOK
    <3>5. /\ status'[a] # "running" /\ completions'[a] \in {0, 1}
          /\ a \in Background /\ Parent[a] # NoParent => completions'[a] = 1
      BY <3>1, <3>2, <3>3 DEF ChildInv, FinalStatus
    <3> QED
      BY <3>1, <3>2, <3>3, <3>4, <3>5 DEF ChildInv, Terminal
  <2>3. CASE FinishNotifies(a)
    BY <2>3 DEF FinishNotifies, ChildInv, TypeOK
  <2> QED
    BY <1>2, <2>1, <2>2, <2>3 DEF Execution
<1>3. ASSUME NEW a \in Agents, StopCall(a) PROVE ChildInv'
  <2>1. CASE Stop(a)
    <3>1. /\ status[a] = "running" /\ UNCHANGED <<activeTasks, exec, result, token>>
          /\ stopping' = [stopping EXCEPT ![a] = "token"]
      BY <2>1 DEF Stop
    <3>2. /\ status'[a] = "cancelled"
          /\ \A b \in Agents \ {a} :
               status'[b] = status[b] \/ (status[b] \in Terminal /\ status'[b] = "absent")
          /\ \A b \in Agents : b \in cancellations' <=> status'[b] = "running"
      BY <2>1, StopIs
    <3>3. /\ \A b \in Agents \ {a} : completions'[b] = completions[b]
          /\ completions'[a] = completions[a] + 1
      BY <2>1, CompletionIs DEF Stop
    <3>4. \A b \in Agents : stopping'[b] = IF b = a THEN "token" ELSE stopping[b]
      BY <3>1 DEF TypeOK
    <3>5. completions'[a] = 1
      BY <3>1, <3>3 DEF ChildInv
    <3> QED
      BY <3>1, <3>2, <3>3, <3>4, <3>5 DEF ChildInv, Terminal
  <2>2. CASE StopSetsToken(a)
    BY <2>2 DEF StopSetsToken, ChildInv, TypeOK
  <2>3. CASE StopNotifies(a)
    BY <2>3 DEF StopNotifies, ChildInv, TypeOK
  <2> QED
    BY <1>3, <2>1, <2>2, <2>3 DEF StopCall
<1>4. ASSUME NEW a \in Agents, Send(a) PROVE ChildInv'
  BY <1>4 DEF Send, ChildInv
<1>5. CASE TeamYields
  <2> DEFINE behind == {TeamOrder[i] : i \in (yielded + 2)..Len(TeamOrder)}
             lost   == {b \in behind : exec[b] \in {"idle", "queued", "running"}}
  <2>1. /\ UNCHANGED <<registry, mail, result, token, callers>>
        /\ exec' = exec \/ exec' = [b \in Agents |-> IF b \in lost THEN "dropped" ELSE exec[b]]
    BY <1>5, Zenon DEF TeamYields
  <2>l. \A b \in lost : exec[b] \in {"idle", "queued", "running"}
    OBVIOUS
  <2> HIDE DEF lost
  <2>2. \A b \in Agents : \/ exec'[b] = exec[b]
                          \/ exec'[b] = "dropped" /\ exec[b] \in {"idle", "queued", "running"}
    <3> SUFFICES ASSUME NEW b \in Agents, exec'[b] # exec[b]
                 PROVE  exec'[b] = "dropped" /\ exec[b] \in {"idle", "queued", "running"}
      OBVIOUS
    <3>1. exec' = [c \in Agents |-> IF c \in lost THEN "dropped" ELSE exec[c]]
      BY <2>1
    <3>2. b \in lost /\ exec'[b] = "dropped"
      BY <3>1
    <3> QED
      BY <2>l, <3>2
  <2> QED
    BY <2>1, <2>2 DEF ChildInv
<1>6. CASE CancelDescendants
  BY <1>6 DEF CancelDescendants, CancelRunning, ChildInv
<1>7. CASE ShutdownCall
  BY <1>7 DEF ShutdownCall, BeginShutdown, ShutdownCancels, ShutdownArms, ShutdownChecks,
              ShutdownWakes, CancelRunning, ChildInv
<1>8. CASE SendNotifies
  BY <1>8 DEF SendNotifies, ChildInv
<1>9. ASSUME NEW s \in Sessions, DrainMailbox(s) PROVE ChildInv'
  BY <1>9 DEF DrainMailbox, DrainMatching, ChildInv
<1>10. CASE WaitCall
  BY <1>10 DEF WaitCall, WaitStarts, WaitDrains, WaitArms, WaitGoesOn, WaitWakes, WaitTimesOut,
               DrainMatching, ChildInv
<1> QED
  BY <1>1, <1>2, <1>3, <1>4, <1>5, <1>6, <1>7, <1>8, <1>9, <1>10 DEF Next

-----------------------------------------------------------------------------
(* The shutdown.                                                           *)

\* The tree is closing from the start of its shutdown on, no child is registered
\* then, and one that executes was reached by the cancellation.
LEMMA ShutdownStep ==
  ASSUME TypeOK, ChildInv, ShutdownInv, Next
  PROVE  ShutdownInv'
<1> USE DEF registry, mail, tasks, callers, waiters
<1>1. ASSUME NEW a \in Agents, Launch(a) PROVE ShutdownInv'
  BY <1>1 DEF Launch, StartBackground, RunForeground, AcquirePermit, RegisterRefused,
              RegisterAccepted, ShutdownInv, CancelReachesAll, TypeOK
<1>2. ASSUME NEW a \in Agents, Execution(a) PROVE ShutdownInv'
  BY <1>2 DEF Execution, ExecutionReturns, Finish, FinishNotifies, NotifyWaiters, ShutdownInv,
              CancelReachesAll, TypeOK
<1>3. ASSUME NEW a \in Agents, StopCall(a) PROVE ShutdownInv'
  <2>1. CASE Stop(a)
    <3>1. /\ UNCHANGED <<activeTasks, closing, exec, token, shutdown>>
          /\ stopping' = [stopping EXCEPT ![a] = "token"]
      BY <2>1 DEF Stop
    <3> QED
      BY <3>1 DEF ShutdownInv, CancelReachesAll, TypeOK
  <2>2. CASE StopSetsToken(a)
    BY <2>2 DEF StopSetsToken, ShutdownInv, CancelReachesAll, TypeOK
  <2>3. CASE StopNotifies(a)
    BY <2>3 DEF StopNotifies, NotifyWaiters, ShutdownInv, CancelReachesAll, TypeOK
  <2> QED
    BY <1>3, <2>1, <2>2, <2>3 DEF StopCall
<1>4. ASSUME NEW a \in Agents, Send(a) PROVE ShutdownInv'
  BY <1>4 DEF Send, ShutdownInv, CancelReachesAll
<1>5. CASE TeamYields
  <2> DEFINE behind == {TeamOrder[i] : i \in (yielded + 2)..Len(TeamOrder)}
             lost   == {b \in behind : exec[b] \in {"idle", "queued", "running"}}
  <2>1. /\ UNCHANGED <<registry, token, callers, waiters>>
        /\ exec' = exec \/ exec' = [b \in Agents |-> IF b \in lost THEN "dropped" ELSE exec[b]]
    BY <1>5, Zenon DEF TeamYields
  <2> HIDE DEF lost
  <2>2. \A b \in Agents : exec'[b] = "running" => exec[b] = "running"
    BY <2>1
  <2> QED
    BY <2>1, <2>2 DEF ShutdownInv, CancelReachesAll
<1>6. CASE CancelDescendants
  BY <1>6 DEF CancelDescendants, CancelRunning, ShutdownInv, CancelReachesAll
<1>7. CASE ShutdownCall
  <2>1. CASE BeginShutdown
    BY <2>1 DEF BeginShutdown, ShutdownInv, CancelReachesAll
  <2>2. CASE ShutdownCancels
    BY <2>2 DEF ShutdownCancels, CancelRunning, ShutdownInv, CancelReachesAll, ChildInv
  <2>3. CASE ShutdownArms \/ ShutdownChecks \/ ShutdownWakes
    BY <2>3 DEF ShutdownArms, ShutdownChecks, ShutdownWakes, ShutdownInv, CancelReachesAll
  <2> QED
    BY <1>7, <2>1, <2>2, <2>3 DEF ShutdownCall
<1>8. CASE SendNotifies
  BY <1>8 DEF SendNotifies, NotifyWaiters, ShutdownInv, CancelReachesAll
<1>9. ASSUME NEW s \in Sessions, DrainMailbox(s) PROVE ShutdownInv'
  BY <1>9 DEF DrainMailbox, ShutdownInv, CancelReachesAll
<1>10. CASE WaitCall
  BY <1>10 DEF WaitCall, WaitStarts, WaitDrains, WaitArms, WaitGoesOn, WaitWakes, WaitTimesOut,
               ShutdownInv, CancelReachesAll
<1> QED
  BY <1>1, <1>2, <1>3, <1>4, <1>5, <1>6, <1>7, <1>8, <1>9, <1>10 DEF Next

-----------------------------------------------------------------------------
(* The permits.                                                            *)

\* One child takes a permit, or gives it back.
LEMMA OneTakes ==
  ASSUME PermitInv, NEW a \in Agents, a \notin Holders, Holders' = Holders \cup {a},
         available' = available - 1, available > 0
  PROVE  PermitInv'
<1>1. IsFiniteSet(Holders') /\ Cardinality(Holders') = Cardinality(Holders) + 1
  BY FS_AddElement DEF PermitInv
<1>2. Cardinality(Holders) \in Nat /\ available \in Nat /\ Capacity \in Nat
  BY FS_CardinalityType, AgentTreeAssumption DEF PermitInv
<1> QED
  BY <1>1, <1>2 DEF PermitInv

\* One permit is given back.
LEMMA OneReturns ==
  ASSUME PermitInv, NEW a \in Agents, a \in Holders, Holders' = Holders \ {a},
         available' = available + 1
  PROVE  PermitInv'
<1>1. IsFiniteSet(Holders') /\ Cardinality(Holders') = Cardinality(Holders) - 1
  BY FS_RemoveElement DEF PermitInv
<1>2. Cardinality(Holders) \in Nat /\ available \in Nat /\ Capacity \in Nat
  BY FS_CardinalityType, AgentTreeAssumption DEF PermitInv
<1> QED
  BY <1>1, <1>2 DEF PermitInv

\* The permits of the runs that a failed team call drops come back with them.
LEMMA SomeReturn ==
  ASSUME PermitInv, NEW freed \in SUBSET Holders, Holders' = Holders \ freed,
         available' = available + Cardinality(freed)
  PROVE  PermitInv'
<1>1. /\ IsFiniteSet(Holders') /\ IsFiniteSet(freed)
      /\ Cardinality(Holders') = Cardinality(Holders) - Cardinality(Holders \cap freed)
  BY FS_Difference, FS_Subset DEF PermitInv
<1>2. Holders \cap freed = freed
  OBVIOUS
<1>3. Cardinality(Holders) \in Nat /\ Cardinality(freed) \in Nat /\ available \in Nat /\ Capacity \in Nat
  BY <1>1, FS_CardinalityType, AgentTreeAssumption DEF PermitInv
<1> QED
  BY <1>1, <1>2, <1>3 DEF PermitInv

\* Nobody takes or returns a permit.
LEMMA SameHolders ==
  ASSUME PermitInv, Holders' = Holders, available' = available
  PROVE  PermitInv'
BY DEF PermitInv

\* No permit is lost or made: what is left and who holds one add up.
LEMMA PermitStep ==
  ASSUME TypeOK, PermitInv, Next
  PROVE  PermitInv'
<1> USE DEF registry, mail, tasks, callers, waiters
<1>0. exec \in [Agents -> {"idle", "queued", "permitted", "running", "returned",
                           "notifying", "finished", "refused", "dropped"}]
      /\ available \in Nat
  BY DEF TypeOK, PermitInv
<1>1. ASSUME NEW a \in Agents, Launch(a) PROVE PermitInv'
  <2>1. CASE StartBackground(a)
    <3>1. CASE available > 0
      <4>1. a \notin Holders /\ Holders' = Holders \cup {a} /\ available' = available - 1
        BY <1>0, <2>1, <3>1 DEF StartBackground, Holders
      <4> QED
        BY <3>1, <4>1, OneTakes
    <3>2. CASE ~(available > 0)
      <4>1. Holders' = Holders /\ available' = available
        BY <1>0, <2>1, <3>2 DEF StartBackground, Holders
      <4> QED
        BY <4>1, SameHolders
    <3> QED
      BY <3>1, <3>2
  <2>2. CASE RunForeground(a)
    <3>1. Holders' = Holders /\ available' = available
      BY <1>0, <2>2 DEF RunForeground, Holders
    <3> QED
      BY <3>1, SameHolders
  <2>3. CASE AcquirePermit(a)
    <3>1. /\ a \notin Holders /\ Holders' = Holders \cup {a} /\ available' = available - 1
          /\ available > 0
      BY <1>0, <2>3 DEF AcquirePermit, Holders
    <3> QED
      BY <3>1, OneTakes
  <2>4. CASE RegisterRefused(a)
    <3>1. a \in Holders /\ Holders' = Holders \ {a} /\ available' = available + 1
      BY <1>0, <2>4 DEF RegisterRefused, Holders
    <3> QED
      BY <3>1, OneReturns
  <2>5. CASE RegisterAccepted(a)
    <3>1. Holders' = Holders /\ available' = available
      BY <1>0, <2>5 DEF RegisterAccepted, Holders
    <3> QED
      BY <3>1, SameHolders
  <2> QED
    BY <1>1, <2>1, <2>2, <2>3, <2>4, <2>5 DEF Launch
<1>2. ASSUME NEW a \in Agents, Execution(a) PROVE PermitInv'
  <2>1. CASE ExecutionReturns(a)
    <3>1. a \in Holders /\ Holders' = Holders \ {a} /\ available' = available + 1
      BY <1>0, <2>1 DEF ExecutionReturns, Holders
    <3> QED
      BY <3>1, OneReturns
  <2>2. CASE Finish(a) \/ FinishNotifies(a)
    <3>1. Holders' = Holders /\ available' = available
      BY <1>0, <2>2 DEF Finish, FinishNotifies, Holders
    <3> QED
      BY <3>1, SameHolders
  <2> QED
    BY <1>2, <2>1, <2>2 DEF Execution
<1>5. CASE TeamYields
  <2> DEFINE behind == {TeamOrder[i] : i \in (yielded + 2)..Len(TeamOrder)}
             lost   == {b \in behind : exec[b] \in {"idle", "queued", "running"}}
             freed  == {b \in behind : exec[b] = "running"}
  <2>1. CASE UNCHANGED <<available, exec>>
    BY <2>1, SameHolders DEF Holders
  <2>2. CASE ~UNCHANGED <<available, exec>>
    <3>1. /\ \A b \in behind : exec[b] \notin {"permitted", "returned", "notifying"}
          /\ exec' = [b \in Agents |-> IF b \in lost THEN "dropped" ELSE exec[b]]
          /\ available' = available + Cardinality(freed)
      BY <1>5, <2>2, Zenon DEF TeamYields
    <3>2. behind \subseteq Agents
      <4>1. \A i \in (yielded + 2)..Len(TeamOrder) : TeamOrder[i] \in Agents
        BY AgentTreeAssumption DEF TypeOK, Foreground
      <4> QED
        BY <4>1
    <3>3. freed \in SUBSET Holders
      BY <3>2 DEF Holders
    <3>4. Holders' = Holders \ freed
      BY <3>1, <3>2 DEF Holders
    <3> HIDE DEF freed
    <3> QED
      BY <3>1, <3>3, <3>4, SomeReturn
  <2> QED
    BY <2>1, <2>2
<1>3. CASE UNCHANGED tasks
  BY <1>3, SameHolders DEF Holders
<1> QED
  BY <1>1, <1>2, <1>3, <1>5 DEF Next, StopCall, Stop, StopSetsToken, StopNotifies, Send,
     CancelDescendants, ShutdownCall, BeginShutdown, ShutdownCancels, ShutdownArms, ShutdownChecks,
     ShutdownWakes, SendNotifies, DrainMailbox, WaitCall, WaitStarts, WaitDrains, WaitArms,
     WaitGoesOn, WaitWakes, WaitTimesOut

-----------------------------------------------------------------------------
(* The mailboxes.                                                          *)

MailTypes ==
  /\ mailbox \in [Sessions -> Seq(Messages)]
  /\ nextSequence \in Nat \ {0}
  /\ delivered \subseteq Nat

\* A message that arrives comes last, and may push out the first.
IsPushed(new, box, m) ==
  /\ new \in Seq(Messages) /\ Len(new) \in Nat \ {0} /\ new[Len(new)] = m
  /\ \E d \in {0, 1} : \A i \in 1..(Len(new) - 1) :
       i + d \in 1..Len(box) /\ new[i] = box[i + d]
\* push_mailbox appends, and drops the oldest message when the box is full.
LEMMA Pushed ==
  ASSUME NEW box \in Seq(Messages), NEW m \in Messages, NEW new, new = PushMailbox(box, m)
  PROVE  IsPushed(new, box, m)
<1>1. CASE Len(box) = MailboxCapacity
  <2>1. new = Append(Tail(box), m) /\ Len(box) \in Nat \ {0} /\ box # << >>
    BY <1>1, AgentTreeAssumption DEF PushMailbox
  <2>2. Tail(box) \in Seq(Messages) /\ Len(Tail(box)) = Len(box) - 1
        /\ \A i \in 1..Len(Tail(box)) : Tail(box)[i] = box[i + 1]
    BY <2>1
  <2>3. PICK t \in Seq(Messages) : t = Tail(box)
    BY <2>2
  <2>4. new = Append(t, m) /\ Len(t) = Len(box) - 1 /\ \A i \in 1..Len(t) : t[i] = box[i + 1]
    BY <2>1, <2>2, <2>3
  <2>5. new \in Seq(Messages) /\ Len(new) = Len(box) /\ new[Len(new)] = m
        /\ \A i \in 1..(Len(new) - 1) : new[i] = t[i]
    BY <2>1, <2>4
  <2>6. \A i \in 1..(Len(new) - 1) : i + 1 \in 1..Len(box) /\ new[i] = box[i + 1]
    BY <2>1, <2>4, <2>5
  <2> QED
    BY <2>1, <2>5, <2>6 DEF IsPushed
<1>2. CASE Len(box) # MailboxCapacity
  <2>1. new = Append(box, m)
    BY <1>2 DEF PushMailbox
  <2>2. new \in Seq(Messages) /\ Len(new) = Len(box) + 1 /\ new[Len(new)] = m
        /\ \A i \in 1..(Len(new) - 1) : i + 0 \in 1..Len(box) /\ new[i] = box[i + 0]
    BY <2>1
  <2> QED
    BY <2>2 DEF IsPushed
<1> QED
  BY <1>1, <1>2

\* A message is sent with the next number, to the mailbox of its session.
LEMMA EnqueueKeeps ==
  ASSUME MailTypes, MailInv, NEW s \in Sessions, NEW sender \in Agents \cup {NoAgent},
         Enqueue(s, sender), delivered' = delivered,
         IF sender = NoAgent THEN s \in Agents ELSE Parent[sender] = s
  PROVE  MailTypes' /\ MailInv'
<1>1. PICK m \in Messages : m = [seq |-> nextSequence, sender |-> sender]
  BY DEF MailTypes, Messages
<1>2. PICK new : new = PushMailbox(mailbox[s], m)
  OBVIOUS
<1>3. mailbox' = [mailbox EXCEPT ![s] = new] /\ nextSequence' = nextSequence + 1
  BY <1>1, <1>2 DEF Enqueue, PushMailbox
<1>4. mailbox[s] \in Seq(Messages)
  BY DEF MailTypes
<1>5. /\ new \in Seq(Messages) /\ Len(new) \in Nat \ {0} /\ new[Len(new)] = m
      /\ \E d \in {0, 1} : \A i \in 1..(Len(new) - 1) :
           i + d \in 1..Len(mailbox[s]) /\ new[i] = mailbox[s][i + d]
  <2>1. PICK box \in Seq(Messages) : box = mailbox[s]
    BY <1>4
  <2>2. new = PushMailbox(box, m)
    BY <1>2, <2>1
  <2>3. IsPushed(new, box, m)
    BY <2>2, Pushed
  <2> QED
    BY <2>1, <2>3 DEF IsPushed
<1>6. PICK d \in {0, 1} : \A i \in 1..(Len(new) - 1) :
                            i + d \in 1..Len(mailbox[s]) /\ new[i] = mailbox[s][i + d]
  BY <1>5
<1>7. PICK n \in Nat \ {0} : n = Len(new)
  BY <1>5
<1>8. MailTypes'
  BY <1>3, <1>5 DEF MailTypes
<1>9. mailbox'[s] = new /\ \A t \in Sessions \ {s} : mailbox'[t] = mailbox[t]
  BY <1>3 DEF MailTypes
<1>o. \A t \in Sessions : DOMAIN mailbox[t] = 1..Len(mailbox[t]) /\ Len(mailbox[t]) \in Nat
  BY DEF MailTypes
<1>10. \A t \in Sessions : \A i \in DOMAIN mailbox'[t] :
         \/ t = s /\ i = n /\ mailbox'[t][i] = m
         \/ t = s /\ i \in 1..(n - 1) /\ i + d \in DOMAIN mailbox[s]
              /\ mailbox'[t][i] = mailbox[s][i + d]
         \/ t # s /\ i \in DOMAIN mailbox[t] /\ mailbox'[t][i] = mailbox[t][i]
  <2>1. DOMAIN new = 1..n
    BY <1>5, <1>7
  <2> QED
    BY <1>5, <1>6, <1>7, <1>9, <1>o, <2>1, SMTT(30)
<1>11. \A t \in Sessions : \A i \in DOMAIN mailbox'[t] :
         \/ t = s /\ i = n /\ mailbox'[t][i] = m
         \/ \E k \in DOMAIN mailbox[t] : mailbox'[t][i] = mailbox[t][k]
  BY <1>10
<1>12. ASSUME NEW t \in Sessions, NEW i \in DOMAIN mailbox'[t]
       PROVE  /\ \A j \in 1..(i - 1) : mailbox'[t][j].seq < mailbox'[t][i].seq
              /\ mailbox'[t][i].seq \notin delivered
              /\ IF mailbox'[t][i].sender = NoAgent THEN t \in Agents
                 ELSE Parent[mailbox'[t][i].sender] = t
  <2>1. ASSUME NEW j \in 1..(i - 1) PROVE mailbox'[t][j].seq < mailbox'[t][i].seq
    <3>1. CASE t = s
      <4>1. i \in 1..n /\ j \in 1..n /\ j # n /\ j < i
        BY <1>5, <1>7, <1>9, <3>1
      <4>2. j \in DOMAIN mailbox'[s]
        BY <1>5, <1>7, <1>9, <4>1
      <4>3. j + d \in DOMAIN mailbox[s] /\ mailbox'[s][j] = mailbox[s][j + d]
        BY <1>10, <4>1, <4>2
      <4>4. CASE i = n
        BY <1>1, <1>10, <3>1, <4>3, <4>4 DEF MailInv
      <4>5. CASE i # n
        <5>1. i + d \in DOMAIN mailbox[s] /\ mailbox'[s][i] = mailbox[s][i + d]
          BY <1>10, <3>1, <4>5
        <5>2. j + d \in 1..(i + d - 1)
          BY <4>1, <1>7
        <5>3. \A q \in DOMAIN mailbox[s] : \A r \in 1..(q - 1) :
                mailbox[s][r].seq < mailbox[s][q].seq
          BY DEF MailInv, MailboxFaithful
        <5>4. mailbox[s][j + d].seq < mailbox[s][i + d].seq
          <6>1. PICK q \in DOMAIN mailbox[s] : q = i + d
            BY <5>1
          <6>c. j + d \in 1..(q - 1)
            <7>1. i \in Nat /\ j \in Nat /\ d \in Nat /\ 1 <= j /\ j < i
              BY <1>7, <4>1
            <7> QED
              BY <6>1, <7>1
          <6>2. PICK r \in 1..(q - 1) : r = j + d
            BY <6>c
          <6>3. mailbox[s][r].seq < mailbox[s][q].seq
            BY <5>3
          <6> QED
            BY <6>1, <6>2, <6>3
        <5> QED
          BY <3>1, <4>3, <5>1, <5>4
      <4> QED
        BY <4>4, <4>5
    <3>2. CASE t # s
      BY <1>9, <3>2 DEF MailInv, MailboxFaithful
    <3> QED
      BY <3>1, <3>2
  <2>2. CASE t = s /\ i = n /\ mailbox'[t][i] = m
    <3>1. m.seq = nextSequence /\ m.sender = sender
      BY <1>1
    <3>2. nextSequence \notin delivered
      BY DEF MailInv, MailTypes
    <3> QED
      BY <2>1, <2>2, <3>1, <3>2
  <2>3. CASE \E k \in DOMAIN mailbox[t] : mailbox'[t][i] = mailbox[t][k]
    BY <2>1, <2>3 DEF MailInv, MailboxFaithful
  <2> QED
    BY <1>11, <2>2, <2>3
<1>13. \A t \in Sessions : \A i \in DOMAIN mailbox'[t] :
         \/ t = s /\ i = n /\ mailbox'[t][i].seq = nextSequence
         \/ mailbox'[t][i].seq < nextSequence
  BY <1>1, <1>11 DEF MailInv
<1>14. ASSUME NEW t \in Sessions, NEW i \in DOMAIN mailbox'[t],
              NEW u \in Sessions, NEW j \in DOMAIN mailbox'[u],
              mailbox'[u][j].seq = mailbox'[t][i].seq
       PROVE  u = t /\ j = i
  <2>1. CASE mailbox'[t][i].seq = nextSequence
    BY <1>13, <1>14, <2>1 DEF MailTypes
  <2>2. CASE mailbox'[t][i].seq < nextSequence
    <3>1. /\ ~(t = s /\ i = n /\ mailbox'[t][i] = m)
          /\ ~(u = s /\ j = n /\ mailbox'[u][j] = m)
      BY <1>1, <1>14, <2>2 DEF MailTypes
    <3>2. PICK e \in {0, 1} : i + e \in DOMAIN mailbox[t] /\ mailbox'[t][i] = mailbox[t][i + e]
                              /\ (e = IF t = s THEN d ELSE 0) /\ i \in Nat
      BY <1>10, <1>o, <3>1, <1>7
    <3>3. PICK f \in {0, 1} : j + f \in DOMAIN mailbox[u] /\ mailbox'[u][j] = mailbox[u][j + f]
                              /\ (f = IF u = s THEN d ELSE 0) /\ j \in Nat
      BY <1>10, <1>o, <3>1, <1>7
    <3>4. u = t /\ j + f = i + e
      BY <1>14, <3>2, <3>3 DEF MailInv
    <3> QED
      BY <3>2, <3>3, <3>4
  <2> QED
    BY <1>13, <2>1, <2>2 DEF MailTypes
<1>15. MailboxFaithful'
  BY <1>12 DEF MailboxFaithful
<1>16. \A t \in Sessions : \A i \in DOMAIN mailbox'[t] : mailbox'[t][i].seq < nextSequence + 1
  <2>1. nextSequence \in Nat /\ \A t \in Sessions : \A i \in DOMAIN mailbox'[t] : mailbox'[t][i].seq \in Nat
    <3>1. \A t \in Sessions : \A i \in DOMAIN mailbox'[t] : mailbox'[t][i] \in Messages
      BY <1>8 DEF MailTypes
    <3> QED
      BY <3>1 DEF MailTypes, Messages
  <2> QED
    BY <1>13, <2>1
<1>17. \A k \in delivered : k < nextSequence + 1
  BY DEF MailInv, MailTypes
<1> QED
  BY <1>3, <1>8, <1>14, <1>15, <1>16, <1>17 DEF MailInv

\* What a reader leaves: some of the positions, in order, and none it took.
Leaves(s, targets, n, h) ==
  /\ \A k \in 1..n : /\ h[k] \in DOMAIN mailbox[s]
                     /\ h[k] \notin Wanted(mailbox[s], targets)
                     /\ mailbox'[s][k] = mailbox[s][h[k]]
  /\ \A i, j \in 1..n : i < j => h[i] < h[j]
  /\ mailbox'[s] \in Seq(Messages) /\ DOMAIN mailbox'[s] = 1..n
  /\ \A t \in Sessions \ {s} : mailbox'[t] = mailbox[t]
  /\ mailbox' \in [Sessions -> Seq(Messages)]
\* Draining keeps the other messages, in their order.
LEMMA LeftIs ==
  ASSUME MailTypes, NEW s \in Sessions, NEW targets, DrainMatching(s, targets)
  PROVE  \E n \in Nat : \E h : Leaves(s, targets, n, h)
<1>1. PICK box \in Seq(Messages) : box = mailbox[s]
  BY DEF MailTypes
<1>2. PICK left : left = DOMAIN box \ Wanted(box, targets)
  OBVIOUS
<1>3. PICK h : h = Ascending(left)
  OBVIOUS
<1>4. Len(box) \in Nat /\ left \in SUBSET (1..Len(box))
  BY <1>2
<1>5. Rising(h, left) /\ Cardinality(left) \in Nat
  BY <1>3, <1>4, AscendingIs
<1>6. PICK n \in Nat : n = Cardinality(left)
  BY <1>5
<1>7. h \in [1..n -> left] /\ \A i, j \in 1..n : i < j => h[i] < h[j]
  BY <1>5, <1>6 DEF Rising
<1>8. mailbox' = [mailbox EXCEPT ![s] = [k \in DOMAIN h |-> box[h[k]]]]
  BY <1>1, <1>2, <1>3 DEF DrainMatching
<1>9. PICK new : new = [k \in 1..n |-> box[h[k]]]
  OBVIOUS
<1>10. mailbox' = [mailbox EXCEPT ![s] = new]
  BY <1>7, <1>8, <1>9
<1>11. \A k \in 1..n : h[k] \in DOMAIN box /\ h[k] \notin Wanted(box, targets) /\ new[k] = box[h[k]]
  BY <1>2, <1>7, <1>9
<1>12. new \in Seq(Messages) /\ DOMAIN new = 1..n
  <2>1. \A k \in 1..n : new[k] \in Messages
    BY <1>4, <1>11
  <2> QED
    BY <1>9, <2>1
<1>13. /\ mailbox'[s] = new /\ \A t \in Sessions \ {s} : mailbox'[t] = mailbox[t]
       /\ mailbox' \in [Sessions -> Seq(Messages)]
  BY <1>10, <1>12 DEF MailTypes
<1>14. Leaves(s, targets, n, h)
  BY <1>1, <1>7, <1>11, <1>12, <1>13 DEF Leaves
<1> QED
  BY <1>14

\* A reader takes its messages out, and leaves the others as they were.
LEMMA DrainKeeps ==
  ASSUME MailTypes, MailInv, NEW s \in Sessions, NEW targets, DrainMatching(s, targets)
  PROVE  MailTypes' /\ MailInv'
<1>0. PICK n \in Nat : \E h : Leaves(s, targets, n, h)
  BY LeftIs
<1>h. PICK h : Leaves(s, targets, n, h)
  BY <1>0
<1>1. /\ \A k \in 1..n : /\ h[k] \in DOMAIN mailbox[s]
                         /\ h[k] \notin Wanted(mailbox[s], targets)
                         /\ mailbox'[s][k] = mailbox[s][h[k]]
      /\ \A i, j \in 1..n : i < j => h[i] < h[j]
      /\ mailbox'[s] \in Seq(Messages) /\ DOMAIN mailbox'[s] = 1..n
      /\ \A t \in Sessions \ {s} : mailbox'[t] = mailbox[t]
      /\ mailbox' \in [Sessions -> Seq(Messages)]
  BY <1>h DEF Leaves
<1>2. PICK taken : taken = Wanted(mailbox[s], targets)
  OBVIOUS
<1>3. /\ delivered' = delivered \cup {mailbox[s][i].seq : i \in taken}
      /\ nextSequence' = nextSequence
  BY <1>2 DEF DrainMatching
<1>4. taken \subseteq DOMAIN mailbox[s]
  BY <1>2 DEF Wanted
<1>5. \A t \in Sessions : \A i \in DOMAIN mailbox[t] : mailbox[t][i] \in Messages /\ i \in Nat
  BY DEF MailTypes
<1>6. MailTypes'
  <2>1. \A i \in taken : mailbox[s][i].seq \in Nat
    BY <1>4, <1>5 DEF Messages
  <2> QED
    BY <1>1, <1>3, <2>1 DEF MailTypes
<1> DEFINE from(t, i) == IF t = s THEN h[i] ELSE i
<1>7. \A t \in Sessions : \A i \in DOMAIN mailbox'[t] :
        /\ from(t, i) \in DOMAIN mailbox[t] /\ mailbox'[t][i] = mailbox[t][from(t, i)]
        /\ t = s => from(t, i) \notin taken
  BY <1>1, <1>2
<1>8. \A t \in Sessions : \A i, j \in DOMAIN mailbox'[t] : j < i => from(t, j) < from(t, i)
  BY <1>1
<1>9. \A t \in Sessions : \A i, j \in DOMAIN mailbox'[t] : from(t, j) = from(t, i) => j = i
  <2>1. \A t \in Sessions : \A i \in DOMAIN mailbox'[t] : i \in Int /\ from(t, i) \in Int
    BY <1>5, <1>6, <1>7 DEF MailTypes
  <2> HIDE DEF from
  <2> QED
    BY <1>8, <2>1
<1> HIDE DEF from
<1>10. ASSUME NEW t \in Sessions, NEW i \in DOMAIN mailbox'[t]
       PROVE  /\ \A j \in 1..(i - 1) : mailbox'[t][j].seq < mailbox'[t][i].seq
              /\ mailbox'[t][i].seq \notin delivered'
              /\ IF mailbox'[t][i].sender = NoAgent THEN t \in Agents
                 ELSE Parent[mailbox'[t][i].sender] = t
  <2>1. ASSUME NEW j \in 1..(i - 1) PROVE mailbox'[t][j].seq < mailbox'[t][i].seq
    <3>1. j \in DOMAIN mailbox'[t] /\ j < i
      BY <1>6 DEF MailTypes
    <3>2. PICK q \in DOMAIN mailbox[t] : q = from(t, i) /\ mailbox'[t][i] = mailbox[t][q]
      BY <1>7
    <3>3. PICK r \in DOMAIN mailbox[t] : r = from(t, j) /\ mailbox'[t][j] = mailbox[t][r]
      BY <1>7, <3>1
    <3>4. r \in 1..(q - 1)
      <4>1. q \in Nat /\ r \in Nat /\ 1 <= r
        BY <3>2, <3>3 DEF MailTypes
      <4>2. r < q
        BY <1>8, <3>1, <3>2, <3>3
      <4> QED
        BY <4>1, <4>2
    <3>5. mailbox[t][r].seq < mailbox[t][q].seq
      BY <3>4 DEF MailInv, MailboxFaithful
    <3> QED
      BY <3>2, <3>3, <3>5
  <2>2. PICK q \in DOMAIN mailbox[t] : q = from(t, i) /\ mailbox'[t][i] = mailbox[t][q]
                                       /\ (t = s => q \notin taken)
    BY <1>7
  <2>3. mailbox[t][q].seq \notin delivered
    BY DEF MailInv, MailboxFaithful
  <2>4. \A k \in taken : mailbox[s][k].seq # mailbox[t][q].seq
    BY <1>4, <2>2 DEF MailInv
  <2>5. IF mailbox[t][q].sender = NoAgent THEN t \in Agents
        ELSE Parent[mailbox[t][q].sender] = t
    BY DEF MailInv, MailboxFaithful
  <2> QED
    BY <1>3, <2>1, <2>2, <2>3, <2>4, <2>5
<1>11. MailboxFaithful'
  BY <1>10 DEF MailboxFaithful
<1>12. ASSUME NEW t \in Sessions, NEW i \in DOMAIN mailbox'[t]
       PROVE  /\ mailbox'[t][i].seq < nextSequence'
              /\ \A u \in Sessions : \A j \in DOMAIN mailbox'[u] :
                   mailbox'[u][j].seq = mailbox'[t][i].seq => u = t /\ j = i
  <2>1. PICK q \in DOMAIN mailbox[t] : q = from(t, i) /\ mailbox'[t][i] = mailbox[t][q]
    BY <1>7
  <2>2. ASSUME NEW u \in Sessions, NEW j \in DOMAIN mailbox'[u],
               mailbox'[u][j].seq = mailbox'[t][i].seq
        PROVE  u = t /\ j = i
    <3>1. PICK r \in DOMAIN mailbox[u] : r = from(u, j) /\ mailbox'[u][j] = mailbox[u][r]
      BY <1>7
    <3>2. u = t /\ r = q
      BY <2>1, <2>2, <3>1 DEF MailInv
    <3> QED
      BY <1>9, <2>1, <3>1, <3>2
  <2>3. mailbox[t][q].seq < nextSequence
    BY DEF MailInv
  <2> QED
    BY <1>3, <2>1, <2>2, <2>3
<1>13. \A k \in delivered' : k < nextSequence'
  <2>1. \A i \in taken : mailbox[s][i].seq < nextSequence
    BY <1>4 DEF MailInv
  <2> QED
    BY <1>3, <2>1 DEF MailInv
<1> QED
  BY <1>6, <1>11, <1>12, <1>13 DEF MailInv

\* A completion goes to the parent of its child.
LEMMA CompletionMails ==
  ASSUME TypeOK, MailInv, NEW a \in Agents, Parent[a] # NoParent, EnqueueCompletion(a)
  PROVE  MailTypes' /\ MailInv'
<1>1. MailTypes
  BY DEF TypeOK, MailTypes
<1>2. PICK p \in Sessions : p = Parent[a]
  BY AgentTreeAssumption DEF Sessions
<1>3. PICK b \in Agents \cup {NoAgent} : b = a /\ b # NoAgent
  BY AgentTreeAssumption
<1>4. Enqueue(p, b) /\ delivered' = delivered
  BY <1>2, <1>3, Zenon DEF EnqueueCompletion
<1> QED
  BY <1>1, <1>2, <1>3, <1>4, EnqueueKeeps

\* Every step leaves the mailboxes in order and read once.
LEMMA MailStep ==
  ASSUME TypeOK, ChildInv, MailInv, WakeInv, Next
  PROVE  MailTypes' /\ MailInv'
<1>0. MailTypes
  BY DEF TypeOK, MailTypes
<1>1. CASE UNCHANGED mail
  BY <1>0, <1>1 DEF mail, MailTypes, MailInv, MailboxFaithful
<1>2. ASSUME NEW a \in Agents, Finish(a) PROVE MailTypes' /\ MailInv'
  <2>1. CASE status[a] = "running" /\ a \in Background /\ Parent[a] # NoParent
    BY <1>2, <2>1, CompletionMails DEF Finish
  <2>2. CASE ~(status[a] = "running" /\ a \in Background /\ Parent[a] # NoParent)
    BY <1>1, <1>2, <2>2, Zenon DEF Finish
  <2> QED
    BY <2>1, <2>2
<1>3. ASSUME NEW a \in Agents, Stop(a) PROVE MailTypes' /\ MailInv'
  BY <1>3, CompletionMails DEF Stop
<1>4. ASSUME NEW a \in Agents, Send(a) PROVE MailTypes' /\ MailInv'
  <2>1. PICK s \in Sessions : s = a
    BY DEF Sessions
  <2>2. PICK b \in Agents \cup {NoAgent} : b = NoAgent
    OBVIOUS
  <2>3. Enqueue(s, b) /\ delivered' = delivered /\ s \in Agents
    BY <1>4, <2>1, <2>2 DEF Send
  <2> QED
    BY <1>0, <2>2, <2>3, EnqueueKeeps
<1>5. ASSUME NEW s \in Sessions, DrainMailbox(s) PROVE MailTypes' /\ MailInv'
  BY <1>0, <1>5, DrainKeeps DEF DrainMailbox
<1>6. ASSUME NEW pc \in {"first", "second"}, WaitDrains(pc) PROVE MailTypes' /\ MailInv'
  <2>1. PICK s \in Sessions : s = wait.session
    BY <1>6 DEF WaitDrains, WakeInv, Sessions
  <2>2. PICK targets : targets = wait.targets
    OBVIOUS
  <2>3. DrainMatching(s, targets)
    BY <1>6, <2>1, <2>2 DEF WaitDrains
  <2> QED
    BY <1>0, <2>3, DrainKeeps
<1>7. ASSUME NEW a \in Agents, Launch(a) \/ ExecutionReturns(a) \/ FinishNotifies(a)
                                \/ StopSetsToken(a) \/ StopNotifies(a)
      PROVE  UNCHANGED mail
  BY <1>7 DEF Launch, StartBackground, RunForeground, AcquirePermit, RegisterRefused,
              RegisterAccepted, ExecutionReturns, FinishNotifies, StopSetsToken, StopNotifies
<1>8. CASE TeamYields \/ CancelDescendants \/ SendNotifies
  BY <1>1, <1>8 DEF TeamYields, CancelDescendants, SendNotifies
<1>9. CASE ShutdownCall
  BY <1>1, <1>9 DEF ShutdownCall, BeginShutdown, ShutdownCancels, ShutdownArms, ShutdownChecks,
                    ShutdownWakes
<1>10. CASE WaitCall
  <2>1. CASE UNCHANGED mail
    BY <1>1, <2>1
  <2>2. CASE ~UNCHANGED mail
    <3>1. \E pc \in {"first", "second"} : WaitDrains(pc)
      BY <1>10, <2>2 DEF WaitCall, WaitStarts, WaitArms, WaitGoesOn, WaitWakes, WaitTimesOut
    <3> QED
      BY <1>6, <3>1
  <2> QED
    BY <2>1, <2>2
<1> QED
  BY <1>1, <1>2, <1>3, <1>4, <1>5, <1>7, <1>8, <1>9, <1>10 DEF Next, Execution, StopCall

-----------------------------------------------------------------------------
(* The waits.                                                              *)

Waits == [pc : {"idle", "first", "arming", "second", "waiting"},
          session : Parents \cup {NoParent},
          targets : WaitTargets \cup {AllSenders}, woken : BOOLEAN]

\* A notification wakes a wait that sleeps, and changes nothing else of it.
LEMMA NotifyWakes ==
  ASSUME wait \in Waits, NotifyWaiters
  PROVE  /\ wait' \in Waits
         /\ wait'.pc = wait.pc /\ wait'.session = wait.session /\ wait'.targets = wait.targets
         /\ wait.pc = "waiting" => wait'.woken
<1>1. PICK b \in BOOLEAN : b <=> (wait.woken \/ wait.pc \in {"second", "waiting"})
  OBVIOUS
<1>2. wait' = [wait EXCEPT !.woken = b]
  <2>1. (wait.woken \/ wait.pc \in {"second", "waiting"}) \in BOOLEAN
    BY Zenon
  <2>2. b = (wait.woken \/ wait.pc \in {"second", "waiting"})
    BY <1>1, <2>1, Zenon
  <2> QED
    BY <2>2, Zenon DEF NotifyWaiters
<1>3. /\ wait' \in Waits
      /\ wait'.pc = wait.pc /\ wait'.session = wait.session /\ wait'.targets = wait.targets
  BY <1>2 DEF Waits
<1>4. wait.pc = "waiting" => b = TRUE
  BY <1>1, Zenon
<1>5. b = TRUE => wait'.woken
  BY <1>2 DEF Waits
<1> QED
  BY <1>3, <1>4, <1>5

\* Reading a mailbox brings no message into any.
LEMMA DrainMatchesLess ==
  ASSUME TypeOK, NEW s \in Sessions, NEW drained, DrainMatching(s, drained),
         NEW t \in Sessions, NEW targets, Wanted(mailbox'[t], targets) # {}
  PROVE  Wanted(mailbox[t], targets) # {}
<1>1. PICK n \in Nat : \E h : Leaves(s, drained, n, h)
  BY LeftIs DEF TypeOK, MailTypes
<1>2. PICK h : Leaves(s, drained, n, h)
  BY <1>1
<1>3. PICK i \in DOMAIN mailbox'[t] : Matches(mailbox'[t][i], targets)
  BY DEF Wanted
<1>4. \E k \in DOMAIN mailbox[t] : mailbox'[t][i] = mailbox[t][k]
  BY <1>2 DEF Leaves
<1>5. PICK k \in DOMAIN mailbox[t] : mailbox'[t][i] = mailbox[t][k]
  BY <1>4
<1>6. Matches(mailbox[t][k], targets)
  BY <1>3, <1>5 DEF Matches
<1> QED
  BY <1>6 DEF Wanted

\* A notification that is still to come.
Pending == \/ sending > 0
           \/ \E a \in Agents : exec[a] = "notifying" \/ stopping[a] # "no"

\* Whoever brings a message notifies after that, and whoever takes the
\* notification away wakes the wait with it.
LEMMA WakeStep ==
  ASSUME TypeOK, WakeInv, Next
  PROVE  WakeInv'
<1> USE DEF registry, mail, tasks, callers, waiters
<1>0. /\ wait \in Waits /\ sending \in Nat /\ sends \in Nat
      /\ exec \in [Agents -> {"idle", "queued", "permitted", "running", "returned",
                              "notifying", "finished", "refused", "dropped"}]
      /\ stopping \in [Agents -> {"no", "token", "notify"}]
      /\ MaxSends \in Nat
  BY AgentTreeAssumption DEF TypeOK, Waits
<1>p. wait.pc = "waiting" /\ ~wait.woken /\ HasMatch(wait.session, wait.targets) => Pending
  BY DEF WakeInv, NoLostWakeup, Pending
<1>q. wait.pc # "idle" => wait.session \in Sessions
  BY DEF WakeInv, Sessions
<1>a. ASSUME UNCHANGED wait, sending' <= sends',
             Pending' \/ (UNCHANGED mailbox /\ (Pending => Pending'))
      PROVE  WakeInv'
  BY <1>a, <1>p DEF WakeInv, NoLostWakeup, Pending, HasMatch
<1>b. ASSUME NotifyWaiters, sending' <= sends', UNCHANGED sends PROVE WakeInv'
  <2>1. /\ wait'.pc = wait.pc /\ wait'.session = wait.session
        /\ wait.pc = "waiting" => wait'.woken
    BY <1>0, <1>b, NotifyWakes
  <2> QED
    BY <1>b, <2>1 DEF WakeInv, NoLostWakeup
<1>1. ASSUME NEW a \in Agents, Launch(a) PROVE WakeInv'
  <2>1. /\ UNCHANGED <<wait, sending, sends, stopping, mailbox>>
        /\ exec[a] # "notifying" /\ \A b \in Agents \ {a} : exec'[b] = exec[b]
    BY <1>0, <1>1 DEF Launch, StartBackground, RunForeground, AcquirePermit, RegisterRefused,
                      RegisterAccepted
  <2>2. Pending => Pending'
    BY <2>1 DEF Pending
  <2> QED
    BY <1>a, <2>1, <2>2 DEF WakeInv
<1>2. ASSUME NEW a \in Agents, Execution(a) PROVE WakeInv'
  <2>1. CASE ExecutionReturns(a)
    <3>1. /\ UNCHANGED <<wait, sending, sends, stopping, mailbox>>
          /\ exec[a] # "notifying" /\ \A b \in Agents \ {a} : exec'[b] = exec[b]
      BY <1>0, <2>1 DEF ExecutionReturns
    <3>2. Pending => Pending'
      BY <3>1 DEF Pending
    <3> QED
      BY <1>a, <3>1, <3>2 DEF WakeInv
  <2>2. CASE Finish(a)
    <3>1. UNCHANGED <<wait, sending, sends>> /\ exec'[a] = "notifying"
      BY <1>0, <2>2 DEF Finish
    <3>2. Pending'
      BY <3>1 DEF Pending
    <3> QED
      BY <1>a, <3>1, <3>2 DEF WakeInv
  <2>3. CASE FinishNotifies(a)
    BY <1>b, <2>3 DEF FinishNotifies, WakeInv
  <2> QED
    BY <1>2, <2>1, <2>2, <2>3 DEF Execution
<1>3. ASSUME NEW a \in Agents, StopCall(a) PROVE WakeInv'
  <2>1. CASE Stop(a) \/ StopSetsToken(a)
    <3>1. UNCHANGED <<wait, sending, sends>> /\ stopping'[a] # "no"
      BY <1>0, <2>1 DEF Stop, StopSetsToken
    <3>2. Pending'
      BY <3>1 DEF Pending
    <3> QED
      BY <1>a, <3>1, <3>2 DEF WakeInv
  <2>2. CASE StopNotifies(a)
    BY <1>b, <2>2 DEF StopNotifies, WakeInv
  <2> QED
    BY <1>3, <2>1, <2>2 DEF StopCall
<1>4. ASSUME NEW a \in Agents, Send(a) PROVE WakeInv'
  <2>1. UNCHANGED wait /\ sending' = sending + 1 /\ sends' = sends + 1
    BY <1>4 DEF Send
  <2>2. Pending' /\ sending' <= sends'
    BY <1>0, <2>1 DEF Pending, WakeInv
  <2> QED
    BY <1>a, <2>1, <2>2
<1>5. CASE TeamYields
  <2> DEFINE behind == {TeamOrder[i] : i \in (yielded + 2)..Len(TeamOrder)}
             lost   == {b \in behind : exec[b] \in {"idle", "queued", "running"}}
  <2>1. /\ UNCHANGED <<mailbox, stopping, sending, sends, wait>>
        /\ exec' = exec \/ exec' = [b \in Agents |-> IF b \in lost THEN "dropped" ELSE exec[b]]
    BY <1>5, Zenon DEF TeamYields
  <2>l. \A b \in lost : exec[b] \in {"idle", "queued", "running"}
    OBVIOUS
  <2> HIDE DEF lost
  <2>2. ASSUME NEW b \in Agents, exec[b] = "notifying" PROVE exec'[b] = "notifying"
    <3>1. b \notin lost
      BY <2>l, <2>2
    <3> QED
      BY <2>1, <2>2, <3>1
  <2>3. Pending => Pending'
    BY <2>1, <2>2 DEF Pending
  <2> QED
    BY <1>a, <2>1, <2>3 DEF WakeInv
<1>6. CASE CancelDescendants \/ ShutdownCall
  <2>1. UNCHANGED <<mailbox, stopping, sending, sends, wait, exec>>
    BY <1>6 DEF CancelDescendants, ShutdownCall, BeginShutdown, ShutdownCancels, ShutdownArms,
                ShutdownChecks, ShutdownWakes
  <2>2. Pending => Pending'
    BY <2>1 DEF Pending
  <2> QED
    BY <1>a, <2>1, <2>2 DEF WakeInv
<1>8. CASE SendNotifies
  <2>1. NotifyWaiters /\ UNCHANGED sends /\ sending' <= sends'
    BY <1>0, <1>8 DEF SendNotifies, WakeInv
  <2> QED
    BY <1>b, <2>1
<1>9. ASSUME NEW s \in Sessions, DrainMailbox(s) PROVE WakeInv'
  <2>1. /\ UNCHANGED <<stopping, sending, sends, wait, exec>> /\ DrainMatching(s, AllSenders)
    BY <1>9 DEF DrainMailbox
  <2>2. ASSUME wait.pc = "waiting", ~wait.woken, Wanted(mailbox'[wait.session], wait.targets) # {}
        PROVE  Pending
    <3>1. PICK t \in Sessions : t = wait.session
      BY <1>q, <2>2
    <3>2. PICK targets : targets = wait.targets
      OBVIOUS
    <3>3. Wanted(mailbox[t], targets) # {}
      BY <2>1, <2>2, <3>1, <3>2, DrainMatchesLess
    <3> QED
      BY <1>p, <2>2, <3>1, <3>2, <3>3 DEF HasMatch
  <2>3. Pending => Pending'
    BY <2>1 DEF Pending
  <2> QED
    BY <2>1, <2>2, <2>3 DEF WakeInv, NoLostWakeup, HasMatch, Pending
<1>10. CASE WaitCall
  <2>1. ASSUME NEW p \in Parents, NEW t \in WaitTargets, WaitStarts(p, t) PROVE WakeInv'
    BY <2>1 DEF WaitStarts, WakeInv, NoLostWakeup
  <2>2. ASSUME NEW pc \in {"first", "second"}, WaitDrains(pc) PROVE WakeInv'
    BY <2>2 DEF WaitDrains, NoWait, WakeInv, NoLostWakeup
  <2>3. CASE WaitArms
    <3>1. wait' = [wait EXCEPT !.pc = "second", !.woken = FALSE] /\ wait.pc = "arming"
          /\ UNCHANGED <<sending, sends>>
      BY <2>3 DEF WaitArms
    <3>2. wait'.pc = "second" /\ wait'.session = wait.session
      BY <1>0, <3>1 DEF Waits
    <3> QED
      BY <3>1, <3>2 DEF WakeInv, NoLostWakeup
  <2>4. CASE WaitGoesOn("first", "arming")
    <3>1. wait' = [wait EXCEPT !.pc = "arming"] /\ wait.pc = "first" /\ UNCHANGED <<sending, sends>>
      BY <2>4 DEF WaitGoesOn
    <3>2. wait'.pc = "arming" /\ wait'.session = wait.session
      BY <1>0, <3>1 DEF Waits
    <3> QED
      BY <3>1, <3>2 DEF WakeInv, NoLostWakeup
  <2>5. CASE WaitGoesOn("second", "waiting")
    <3>1. wait' = [wait EXCEPT !.pc = "waiting"] /\ wait.pc = "second" /\ UNCHANGED <<sending, sends>>
          /\ ~HasMatch(wait.session, wait.targets) /\ mailbox' = mailbox
      BY <2>5 DEF WaitGoesOn
    <3>2. wait'.session = wait.session /\ wait'.targets = wait.targets
      BY <1>0, <3>1 DEF Waits
    <3> QED
      BY <3>1, <3>2 DEF WakeInv, NoLostWakeup, HasMatch
  <2>6. CASE WaitWakes
    <3>1. wait' = [wait EXCEPT !.pc = "first"] /\ wait.pc = "waiting" /\ UNCHANGED <<sending, sends>>
      BY <2>6 DEF WaitWakes
    <3>2. wait'.pc = "first" /\ wait'.session = wait.session
      BY <1>0, <3>1 DEF Waits
    <3> QED
      BY <3>1, <3>2 DEF WakeInv, NoLostWakeup
  <2>7. CASE WaitTimesOut
    BY <2>7 DEF WaitTimesOut, NoWait, WakeInv, NoLostWakeup
  <2> QED
    BY <1>10, <2>1, <2>2, <2>3, <2>4, <2>5, <2>6, <2>7 DEF WaitCall
<1> QED
  BY <1>1, <1>2, <1>3, <1>4, <1>5, <1>6, <1>8, <1>9, <1>10 DEF Next

-----------------------------------------------------------------------------
(* The theorems.                                                           *)

\* The types of everything but the mailboxes and the permits, which have their
\* own lemmas.
OtherTypes ==
  /\ status \in [Agents -> Statuses]
  /\ cancellations \subseteq Agents /\ activeTasks \subseteq Agents
  /\ closing \in BOOLEAN
  /\ exec \in [Agents -> {"idle", "queued", "permitted", "running", "returned",
                          "notifying", "finished", "refused", "dropped"}]
  /\ result \in [Agents -> {"none", "done", "failed"}]
  /\ token \in [Agents -> BOOLEAN]
  /\ stopping \in [Agents -> {"no", "token", "notify"}]
  /\ sending \in 0..MaxSends /\ sends \in 0..MaxSends
  /\ yielded \in 0..Len(TeamOrder)
  /\ shutdown \in {"no", "begun", "arming", "checking", "waiting", "returned"}
  /\ shutdownWoken \in BOOLEAN
  /\ wait \in Waits
  /\ completions \in [Agents -> Nat]

\* The types of the mailboxes, the permits and the rest make up TypeOK.
LEMMA TypeParts == MailTypes /\ PermitInv /\ OtherTypes => TypeOK
<1> SUFFICES ASSUME MailTypes, PermitInv, OtherTypes PROVE TypeOK
  OBVIOUS
<1>1. available \in 0..Capacity
  BY FS_CardinalityType, AgentTreeAssumption DEF PermitInv
<1> QED
  BY <1>1 DEF MailTypes, OtherTypes, TypeOK, Statuses, Waits

\* A step leaves every variable in its type.
LEMMA TypeStep ==
  ASSUME TypeOK, ChildInv, WakeInv, Next
  PROVE  OtherTypes'
<1> USE DEF registry, mail, tasks, callers, waiters
<1>0. OtherTypes /\ Len(TeamOrder) \in Nat /\ MaxSends \in Nat
  BY AgentTreeAssumption DEF TypeOK, OtherTypes, Statuses, Waits
<1>n. NotifyWaiters => wait' \in Waits /\ shutdownWoken' \in BOOLEAN /\ UNCHANGED shutdown
  BY <1>0, NotifyWakes DEF OtherTypes, NotifyWaiters
<1>1. ASSUME NEW a \in Agents, Launch(a) PROVE OtherTypes'
  BY <1>0, <1>1 DEF Launch, StartBackground, RunForeground, AcquirePermit, RegisterRefused,
                    RegisterAccepted, OtherTypes, Statuses
<1>2. ASSUME NEW a \in Agents, Execution(a) PROVE OtherTypes'
  <2>1. CASE ExecutionReturns(a)
    BY <1>0, <2>1 DEF ExecutionReturns, OtherTypes
  <2>2. CASE Finish(a)
    <3>1. status' \in [Agents -> Statuses] /\ cancellations' \subseteq Agents
      BY <2>2, FinishIs
    <3>2. completions' \in [Agents -> Nat]
      BY <1>0, <2>2, CompletionIs DEF Finish, OtherTypes
    <3> QED
      BY <1>0, <2>2, <3>1, <3>2 DEF Finish, OtherTypes
  <2>3. CASE FinishNotifies(a)
    BY <1>0, <1>n, <2>3 DEF FinishNotifies, OtherTypes
  <2> QED
    BY <1>2, <2>1, <2>2, <2>3 DEF Execution
<1>3. ASSUME NEW a \in Agents, StopCall(a) PROVE OtherTypes'
  <2>1. CASE Stop(a)
    <3>1. status' \in [Agents -> Statuses] /\ cancellations' \subseteq Agents
      BY <2>1, StopIs
    <3>2. completions' \in [Agents -> Nat]
      BY <2>1, CompletionIs DEF Stop
    <3> QED
      BY <1>0, <2>1, <3>1, <3>2 DEF Stop, OtherTypes
  <2>2. CASE StopSetsToken(a)
    BY <1>0, <2>2 DEF StopSetsToken, OtherTypes
  <2>3. CASE StopNotifies(a)
    BY <1>0, <1>n, <2>3 DEF StopNotifies, OtherTypes
  <2> QED
    BY <1>3, <2>1, <2>2, <2>3 DEF StopCall
<1>4. ASSUME NEW a \in Agents, Send(a) PROVE OtherTypes'
  BY <1>0, <1>4 DEF Send, OtherTypes, WakeInv
<1>5. CASE TeamYields
  <2> DEFINE behind == {TeamOrder[i] : i \in (yielded + 2)..Len(TeamOrder)}
             lost   == {b \in behind : exec[b] \in {"idle", "queued", "running"}}
  <2>1. /\ UNCHANGED <<registry, mail, result, token, callers, waiters>>
        /\ yielded < Len(TeamOrder) /\ yielded' = yielded + 1
        /\ exec' = exec \/ exec' = [b \in Agents |-> IF b \in lost THEN "dropped" ELSE exec[b]]
    BY <1>5, Zenon DEF TeamYields
  <2> HIDE DEF lost
  <2>2. exec' \in [Agents -> {"idle", "queued", "permitted", "running", "returned",
                              "notifying", "finished", "refused", "dropped"}]
    BY <1>0, <2>1 DEF OtherTypes
  <2> QED
    BY <1>0, <2>1, <2>2 DEF OtherTypes
<1>6. CASE CancelDescendants
  BY <1>0, <1>6 DEF CancelDescendants, CancelRunning, OtherTypes
<1>7. CASE ShutdownCall
  BY <1>0, <1>7 DEF ShutdownCall, BeginShutdown, ShutdownCancels, ShutdownArms, ShutdownChecks,
                    ShutdownWakes, CancelRunning, OtherTypes
<1>8. CASE SendNotifies
  BY <1>0, <1>n, <1>8 DEF SendNotifies, OtherTypes
<1>9. ASSUME NEW s \in Sessions, DrainMailbox(s) PROVE OtherTypes'
  BY <1>0, <1>9 DEF DrainMailbox, DrainMatching, OtherTypes
<1>10. CASE WaitCall
  <2>1. wait' \in Waits
    <3>0. wait \in Waits /\ NoWait \in Waits
      BY <1>0 DEF OtherTypes, NoWait, Waits
    <3>1. ASSUME NEW p \in Parents, NEW t \in WaitTargets, WaitStarts(p, t) PROVE wait' \in Waits
      BY <3>1 DEF WaitStarts, Waits
    <3>2. ASSUME NEW pc \in {"first", "second"}, WaitDrains(pc) PROVE wait' \in Waits
      BY <3>0, <3>2 DEF WaitDrains
    <3>3. CASE WaitArms
      BY <3>0, <3>3 DEF WaitArms, Waits
    <3>4. CASE WaitGoesOn("first", "arming")
      BY <3>0, <3>4 DEF WaitGoesOn, Waits
    <3>5. CASE WaitGoesOn("second", "waiting")
      BY <3>0, <3>5 DEF WaitGoesOn, Waits
    <3>6. CASE WaitWakes
      BY <3>0, <3>6 DEF WaitWakes, Waits
    <3>7. CASE WaitTimesOut
      BY <3>0, <3>7 DEF WaitTimesOut
    <3> QED
      BY <1>10, <3>1, <3>2, <3>3, <3>4, <3>5, <3>6, <3>7 DEF WaitCall
  <2>2. UNCHANGED <<registry, completions, tasks, token, callers, shutdown, shutdownWoken>>
    BY <1>10 DEF WaitCall, WaitStarts, WaitDrains, WaitArms, WaitGoesOn, WaitWakes,
                 WaitTimesOut, DrainMatching
  <2> QED
    BY <1>0, <2>1, <2>2 DEF OtherTypes
<1> QED
  BY <1>1, <1>2, <1>3, <1>4, <1>5, <1>6, <1>7, <1>8, <1>9, <1>10 DEF Next

\* Every step of the tree keeps the invariant.
LEMMA TreeStep == TreeInv /\ [Next]_vars => TreeInv'
<1> SUFFICES ASSUME TreeInv, [Next]_vars PROVE TreeInv'
  OBVIOUS
<1>1. CASE Next
  <2>1. MailTypes' /\ PermitInv' /\ OtherTypes' => TypeOK'
    BY TypeParts, PTL
  <2>2. MailTypes' /\ MailInv' /\ OtherTypes'
    BY <1>1, TypeStep, MailStep DEF TreeInv
  <2>3. PermitInv' /\ ChildInv' /\ ShutdownInv' /\ WakeInv'
    BY <1>1, PermitStep, ChildStep, ShutdownStep, WakeStep DEF TreeInv
  <2> QED
    BY <2>1, <2>2, <2>3 DEF TreeInv
<1>2. CASE UNCHANGED vars
  BY <1>2 DEF vars, registry, mail, tasks, callers, waiters, TreeInv, TypeOK, PermitInv, Holders,
              ChildInv, ShutdownInv, CancelReachesAll, MailInv, MailboxFaithful, WakeInv,
              NoLostWakeup, HasMatch
<1> QED
  BY <1>1, <1>2

\* A tree with nobody in it satisfies the invariant.
LEMMA TreeStarts == Init => TreeInv
<1> SUFFICES ASSUME Init PROVE TreeInv
  OBVIOUS
<1>1. PermitInv
  <2>1. Holders = {}
    BY DEF Init, Holders
  <2> QED
    BY <2>1, FS_EmptySet, AgentTreeAssumption DEF Init, PermitInv
<1>2. MailTypes /\ OtherTypes
  <2>1. << >> \in Seq(Messages)
    OBVIOUS
  <2>2. MailTypes
    BY <2>1 DEF Init, MailTypes
  <2>3. 0 \in 0..MaxSends /\ 0 \in 0..Len(TeamOrder)
    BY AgentTreeAssumption
  <2>4. NoWait \in Waits
    BY DEF NoWait, Waits
  <2>5. OtherTypes
    BY <2>3, <2>4 DEF Init, OtherTypes, Statuses
  <2> QED
    BY <2>2, <2>5
<1>3. ChildInv /\ ShutdownInv
  BY DEF Init, ChildInv, ShutdownInv, CancelReachesAll
<1>4. MailInv
  BY DEF Init, MailInv, MailboxFaithful
<1>5. WakeInv
  BY DEF Init, WakeInv, NoLostWakeup, NoWait
<1> QED
  BY <1>1, <1>2, <1>3, <1>4, <1>5, TypeParts DEF TreeInv

\* The inductive invariant of the tree: permits, records, shutdown, mailboxes and
\* waits, each with the tasks they belong to.
THEOREM TreeInvariant == Spec => []TreeInv
BY TreeStarts, TreeStep, PTL DEF Spec

\* Every variable keeps its type: no more permits than the semaphore has, and no
\* sequence number that is not one.
THEOREM TreeTypes == Spec => []TypeOK
<1>1. TreeInv => TypeOK
  BY DEF TreeInv
<1> QED
  BY <1>1, TreeInvariant, PTL

\* OneCompletion: a stop and a finish that race announce their child once, and a
\* background child that finished has been announced.
THEOREM CompletedOnce == Spec => []OneCompletion
<1>1. TreeInv => OneCompletion
  BY DEF TreeInv, ChildInv, OneCompletion
<1> QED
  BY <1>1, TreeInvariant, PTL

\* TerminalStays: whatever finishes late, the status a record ended with stays
\* until the record is pruned.
THEOREM VerdictsStay == Spec => TerminalStays
<1> DEFINE Stays == \A a \in Agents : status[a] \in Terminal => status'[a] \in {status[a], "absent"}
<1>1. ASSUME TreeInv, Next PROVE Stays
  <2>0. TypeOK /\ ChildInv
    BY <1>1 DEF TreeInv
  <2>1. CASE UNCHANGED status
    BY <2>1
  <2>2. ASSUME NEW a \in Agents, RegisterAccepted(a) PROVE Stays
    BY <2>0, <2>2 DEF RegisterAccepted, ChildInv, TypeOK, Terminal
  <2>3. ASSUME NEW a \in Agents, Finish(a) PROVE Stays
    BY <2>0, <2>3, FinishIs DEF FinalStatus, Terminal
  <2>4. ASSUME NEW a \in Agents, Stop(a) PROVE Stays
    <3>1. status[a] \notin Terminal
      BY <2>4 DEF Stop, Terminal
    <3> QED
      BY <2>0, <2>4, <3>1, StopIs
  <2> HIDE DEF Stays
  <2>5. ASSUME NEW a \in Agents,
               Launch(a) \/ Execution(a) \/ StopCall(a) \/ Send(a)
        PROVE  Stays
    BY <2>1, <2>2, <2>3, <2>4, <2>5 DEF Launch, StartBackground, RunForeground, AcquirePermit,
       RegisterRefused, Execution, ExecutionReturns, FinishNotifies, StopCall, StopSetsToken,
       StopNotifies, Send, registry
  <2>6. ASSUME TeamYields \/ CancelDescendants \/ ShutdownCall \/ SendNotifies \/ WaitCall
               \/ \E s \in Sessions : DrainMailbox(s)
        PROVE  UNCHANGED status
    BY <2>6 DEF TeamYields, CancelDescendants, ShutdownCall, BeginShutdown, ShutdownCancels,
       ShutdownArms, ShutdownChecks, ShutdownWakes, SendNotifies, DrainMailbox, WaitCall, WaitStarts,
       WaitDrains, WaitArms, WaitGoesOn, WaitWakes, WaitTimesOut, registry
  <2> QED
    BY <1>1, <2>1, <2>5, <2>6 DEF Next
<1>2. TreeInv /\ [Next]_vars => [Stays]_vars
  BY <1>1
<1> QED
  BY <1>2, TreeInvariant, PTL DEF Spec, TerminalStays

\* MailboxFaithful: mailboxes are in sequence order, hold their own session's
\* messages only, and what a reader took no other reader finds.
THEOREM MailIsFaithful == Spec => []MailboxFaithful
<1>1. TreeInv => MailboxFaithful
  BY DEF TreeInv, MailInv
<1> QED
  BY <1>1, TreeInvariant, PTL

\* NoLostWakeup: a wait that sleeps while a message for it is there is about to be
\* notified, wherever the message came in between its two looks.
THEOREM WakesUp == Spec => []NoLostWakeup
<1>1. TreeInv => NoLostWakeup
  BY DEF TreeInv, WakeInv
<1> QED
  BY <1>1, TreeInvariant, PTL

\* ShutdownComplete: a shutdown reaches every child that executes, and returns
\* after the last one.
THEOREM ShutdownIsComplete == Spec => []ShutdownComplete
<1>1. TreeInv => ShutdownComplete
  BY DEF TreeInv, ShutdownInv, ChildInv, ShutdownComplete, ShutdownDrained
<1> QED
  BY <1>1, TreeInvariant, PTL

\* The children that hold a permit, and so may execute, are never more than the
\* semaphore has.
THEOREM CapacityHolds == Spec => [](IsFiniteSet(Holders) /\ Cardinality(Holders) <= Capacity)
<1>1. TreeInv => IsFiniteSet(Holders) /\ Cardinality(Holders) <= Capacity
  BY FS_CardinalityType, AgentTreeAssumption DEF TreeInv, PermitInv
<1> QED
  BY <1>1, TreeInvariant, PTL
=============================================================================
