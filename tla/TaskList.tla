------------------------------ MODULE TaskList ------------------------------
(***************************************************************************)
(* The shared task list (tasklist.rs, tools/tasklist.rs): one file per     *)
(* task in a directory that several agents and processes share.  A change  *)
(* holds the lock of the directory; it reads the files it needs, then      *)
(* rewrites them one at a time, each atomically.  Readers take no lock, so *)
(* they see the files between two of those writes, and a write that fails  *)
(* (or a process that dies, which frees the lock) leaves the rest undone.  *)
(*                                                                         *)
(* Subject, description, metadata and times of a task are left out: its    *)
(* status stands for every field a plain update replaces.  `birth` is      *)
(* history: it tells tasks apart that had the same identity.               *)
(***************************************************************************)
EXTENDS Integers, Sequences, FiniteSets, FiniteSetsExt, Enumeration

CONSTANTS
  Agents,
  Nil,         \* no agent, no task, no expected revision
  Updates,      \* the task_update calls agents make, as built by Update
  MaxTasks,     \* bound: identities of tasks
  MaxBirths,    \* bound: tasks ever created
  MaxRevision,  \* bound: revisions of a task
  MaxFailures   \* bound: failed writes

VARIABLES
  tasks,    \* the directory: [identity -> record], Nil where no file is
  lock,     \* the agent that holds the lock of the directory
  writes,   \* the writes the holder has left to do
  seen,     \* per agent: the task it read last, or Nil
  births,   \* tasks created so far
  failures  \* failed writes so far

boardVars == <<tasks, lock, writes, seen, births, failures>>

TaskIds == 1..MaxTasks
Present == {i \in TaskIds : tasks[i] # Nil}

\* A TaskUpdate as normalize_task_update lets it pass: of owner, claimOwner and
\* releaseOwner at most one.  ownership is "keep", "claim" or "release" (for the
\* caller), "clear", or the agent that owner names; blocks and blockedBy are the
\* identities of addBlocks and addBlockedBy.
Update(ownership, status, blocks, blockedBy) ==
  [ownership |-> ownership, status |-> status, blocks |-> blocks,
   blockedBy |-> blockedBy]
Assigns(u) == u.ownership \notin {"keep", "claim", "release"}

\* The files, and what the constants have to be.
TaskStatuses == {"pending", "in_progress", "completed"}
TaskRecords ==
  [birth : Nat, owner : Agents \cup {Nil}, status : TaskStatuses, revision : Nat,
   blocks : SUBSET TaskIds, blockedBy : SUBSET TaskIds]
ASSUME BoardAssumption ==
  /\ MaxTasks \in Nat
  /\ Nil \notin Agents /\ Nil \notin TaskStatuses /\ Nil \notin TaskRecords
  /\ \A u \in Updates :
       /\ u.ownership \in {"keep", "claim", "release", "clear"} \cup Agents
       /\ u.status \in TaskStatuses \cup {Nil}

\* One file to write; assigned is history: the caller named the owner itself.
Put(i, t) == [id |-> i, task |-> t, assigned |-> FALSE]

-----------------------------------------------------------------------------
(* One task.                                                               *)

NewTask(birth) ==
  [birth |-> birth, owner |-> Nil, status |-> "pending", revision |-> 1,
   blocks |-> {}, blockedBy |-> {}]

Bump(t) == [t EXCEPT !.revision = @ + 1]

\* Mutant: only a claim looks at the owner.
ConflictsOnClaim(t, a, u) == u.ownership = "claim" /\ t.owner \notin {Nil, a}
\* apply_owner_claim_update.
Conflicts(t, a, u) ==
  /\ u.ownership \in {"claim", "release"}
  /\ t.owner \notin {Nil, a}
Owner(t, a, u) ==
  CASE u.ownership = "keep" -> t.owner
    [] u.ownership = "claim" -> a
    [] u.ownership \in {"release", "clear"} -> Nil
    [] OTHER -> u.ownership

\* The task after every field of the update, before its revision.
Applied(t, a, u) ==
  [t EXCEPT !.owner = Owner(t, a, u),
            !.status = IF u.status = Nil THEN @ ELSE u.status,
            !.blocks = @ \cup u.blocks,
            !.blockedBy = @ \cup u.blockedBy]

\* updated_fields: an edge that is named counts, also one that exists.
Touches(t, a, u) ==
  \/ Applied(t, a, u) # t
  \/ u.blocks # {} \/ u.blockedBy # {}

-----------------------------------------------------------------------------
(* The files a change rewrites, in the order it rewrites them.             *)

\* A BTreeMap from identities to changed tasks, whose files are written in the
\* order of the identities.
InIdOrder(changed) ==
  LET order == Ascending(DOMAIN changed)
  IN [k \in DOMAIN order |-> Put(order[k], changed[order[k]])]

\* Mutant: the other end of a new edge keeps its revision.
RelatedKeepsRevision(i, u, r) ==
  [tasks[r] EXCEPT !.blockedBy = IF r \in u.blocks THEN @ \cup {i} ELSE @,
                   !.blocks = IF r \in u.blockedBy THEN @ \cup {i} ELSE @]
\* apply_dependency_updates: the other end of every edge; its revision moves
\* when the edge is new.
Related(i, u, r) ==
  LET t == tasks[r]
      edged == [t EXCEPT !.blockedBy = IF r \in u.blocks THEN @ \cup {i} ELSE @,
                         !.blocks = IF r \in u.blockedBy THEN @ \cup {i} ELSE @]
      new == (IF edged.blockedBy # t.blockedBy THEN 1 ELSE 0)
               + (IF edged.blocks # t.blocks THEN 1 ELSE 0)
  IN [edged EXCEPT !.revision = @ + new]

UpdateWrites(a, i, u) ==
  InIdOrder([r \in u.blocks \cup u.blockedBy |-> Related(i, u, r)])
    \o (IF Touches(tasks[i], a, u)
        THEN <<[Put(i, Bump(Applied(tasks[i], a, u))) EXCEPT !.assigned = Assigns(u)]>>
        ELSE << >>)

\* Mutant: only one of the two lists forgets the task.
UnreferencedOneWay(i, r) == [tasks[r] EXCEPT !.blocks = @ \ {i}]
\* remove_known_task_references: the tasks the deleted one names, whose
\* revisions do not move; its own file goes last.
Unreferenced(i, r) ==
  [tasks[r] EXCEPT !.blocks = @ \ {i}, !.blockedBy = @ \ {i}]
DeleteWrites(i) ==
  InIdOrder([r \in (tasks[i].blocks \cup tasks[i].blockedBy) \cap Present |->
               Unreferenced(i, r)])
    \o <<Put(i, Nil)>>

-----------------------------------------------------------------------------
(* Operations.                                                             *)

\* get_task, list_tasks: an agent remembers the task it read.
GetTask(a, i) ==
  /\ i \in Present
  /\ seen' = [seen EXCEPT ![a] = [id |-> i, task |-> tasks[i]]]
  /\ UNCHANGED <<tasks, lock, writes, births, failures>>

\* next_task_id_in_dir: one more than the highest identity in the directory.
NextId == IF Present = {} THEN 1 ELSE Max(Present) + 1

\* create_task: the identity and the only write, under the lock.
CreateTask ==
  /\ lock = Nil
  /\ births < MaxBirths /\ NextId \in TaskIds
  /\ tasks' = [tasks EXCEPT ![NextId] = NewTask(births + 1)]
  /\ births' = births + 1
  /\ UNCHANGED <<lock, writes, seen, failures>>

\* update_task: what agent a does with the task it read last; checked says
\* whether it sends the revision it saw.  Every early return leaves the files
\* alone: a missing task or dependency, a moved revision, another owner.
UpdateTask(a, u, checked) ==
  /\ lock = Nil
  /\ seen[a] # Nil
  /\ LET i == seen[a].id IN
     /\ i \in Present
     /\ checked => tasks[i].revision = seen[a].task.revision
     /\ i \notin u.blocks \cup u.blockedBy
     /\ u.blocks \cup u.blockedBy \subseteq Present
     /\ ~Conflicts(tasks[i], a, u)
     /\ writes' = UpdateWrites(a, i, u)
     /\ writes' # << >>
     /\ \A w \in Range(writes') : w.task.revision <= MaxRevision
  /\ lock' = a
  /\ UNCHANGED <<tasks, seen, births, failures>>

\* update_task with status "deleted": no revision is compared.
DeleteTask(a) ==
  /\ lock = Nil
  /\ seen[a] # Nil
  /\ seen[a].id \in Present
  /\ writes' = DeleteWrites(seen[a].id)
  /\ lock' = a
  /\ UNCHANGED <<tasks, seen, births, failures>>

\* The next file of the change, and with the last one the lock.
WriteFile ==
  /\ writes # << >>
  /\ tasks' = [tasks EXCEPT ![Head(writes).id] = Head(writes).task]
  /\ writes' = Tail(writes)
  /\ lock' = IF Len(writes) = 1 THEN Nil ELSE lock
  /\ UNCHANGED <<seen, births, failures>>

\* The write fails, or the process dies: the rest of the change is not made.
WriteFails ==
  /\ writes # << >>
  /\ failures < MaxFailures
  /\ failures' = failures + 1
  /\ writes' = << >>
  /\ lock' = Nil
  /\ UNCHANGED <<tasks, seen, births>>

BoardInit ==
  /\ tasks = [i \in TaskIds |-> Nil]
  /\ lock = Nil
  /\ writes = << >>
  /\ seen = [a \in Agents |-> Nil]
  /\ births = 0
  /\ failures = 0

BoardNext ==
  \/ \E a \in Agents, i \in TaskIds : GetTask(a, i)
  \/ CreateTask
  \/ \E a \in Agents, u \in Updates, checked \in BOOLEAN : UpdateTask(a, u, checked)
  \/ \E a \in Agents : DeleteTask(a)
  \/ WriteFile
  \/ WriteFails

BoardSpec == BoardInit /\ [][BoardNext]_boardVars

-----------------------------------------------------------------------------
(* Properties.                                                             *)

\* Between changes the dependency graph has two matching halves and names only
\* tasks that exist, so that nothing is blocked by a task that is gone, or by
\* a later one that took its identity; as long as no write failed.
EdgesPaired ==
  lock = Nil /\ failures = 0 =>
    \A i \in Present :
      /\ tasks[i].blocks \cup tasks[i].blockedBy \subseteq Present \ {i}
      /\ \A j \in Present : j \in tasks[i].blocks <=> i \in tasks[j].blockedBy

\* A task is taken from its owner only by that owner, and given only to the
\* agent that claims it, unless an update names the owner outright, which asks
\* nobody; whatever other changes rewrite its file: a dependency or a deletion
\* elsewhere, or an update prepared from an older reading.
ClaimsHold ==
  [][\A i \in TaskIds :
       /\ tasks[i] # Nil /\ tasks'[i] # Nil
       /\ tasks[i].owner # tasks'[i].owner
       /\ ~Head(writes).assigned
       => /\ tasks[i].owner \in {Nil, lock}
          /\ tasks'[i].owner \in {Nil, lock}]_tasks

\* An update that is accepted with the revision its caller saw finds the task
\* as the caller saw it, apart from references to deleted tasks, which go
\* without a new revision; as long as it is still the same task.
CheckedIsUnchanged ==
  [][\A a \in Agents : a = lock' /\ (\E u \in Updates : UpdateTask(a, u, TRUE)) =>
       LET saw == seen[a].task
           had == tasks[seen[a].id]
       IN saw.birth = had.birth =>
            /\ saw.owner = had.owner /\ saw.status = had.status
            /\ had.blocks \subseteq saw.blocks
            /\ had.blockedBy \subseteq saw.blockedBy]_boardVars

\* What shared-task-lists.md says of expectedRevision: the update is rejected
\* when the stored task has changed since the caller last read it.
CheckedIsCurrent ==
  [][\A a \in Agents, u \in Updates : UpdateTask(a, u, TRUE) =>
       seen[a].task.birth = tasks[seen[a].id].birth]_boardVars
=============================================================================
