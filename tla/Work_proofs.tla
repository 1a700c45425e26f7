----------------------------- MODULE Work_proofs -----------------------------
(***************************************************************************)
(* What the work of agents keeps, for every number of agents, tasks,       *)
(* revisions, threads, goals, queries, commands and failures.              *)
(*                                                                         *)
(* The shared task list: the edges of the graph match between changes, no  *)
(* change of another agent takes a task from its owner, and an update that *)
(* sends the revision its caller saw finds the task its caller saw.        *)
(*                                                                         *)
(* Goals: the goal in memory is the row of its thread and was charged for  *)
(* its own queries, and work toward it goes on only as the user wants.     *)
(***************************************************************************)
EXTENDS TaskList, Goals, Enumeration_proofs

-----------------------------------------------------------------------------
(* The shared task list.                                                   *)
Files == TaskRecords \cup {Nil}

-----------------------------------------------------------------------------
(* The invariant.                                                          *)

\* What the constants and the revisions of writes already say: the values of
\* the variables, that exactly the holder of the lock has writes left, and that no
\* task depends on itself.
TypesHold ==
  /\ tasks \in [TaskIds -> Files]
  /\ writes \in Seq([id : TaskIds, task : Files, assigned : BOOLEAN])
  /\ lock \in Agents \cup {Nil}
  /\ lock = Nil <=> writes = << >>
  /\ seen \in [Agents -> [id : TaskIds, task : TaskRecords] \cup {Nil}]
  /\ births \in Nat
  /\ failures \in Nat
  /\ \A i \in Present :
       tasks[i].birth <= births /\ i \notin tasks[i].blocks \cup tasks[i].blockedBy

\* A later version of the same task: a revision that has not moved means that
\* only references to deleted tasks went.
Later(old, new) ==
  old.birth = new.birth =>
    /\ old.revision <= new.revision
    /\ old.revision = new.revision =>
         /\ old.owner = new.owner /\ old.status = new.status
         /\ new.blocks \subseteq old.blocks
         /\ new.blockedBy \subseteq old.blockedBy

\* The task an agent read is an earlier version of the one in the directory.
SeenInv ==
  \A a \in Agents : seen[a] # Nil =>
    /\ seen[a].task.birth <= births
    /\ tasks[seen[a].id] # Nil => Later(seen[a].task, tasks[seen[a].id])

\* The edges of a board match and end at other tasks of the board.
Paired(board) ==
  \A i, j \in TaskIds : board[i] # Nil =>
    /\ j \in board[i].blocks \cup board[i].blockedBy => i # j /\ board[j] # Nil
    /\ board[j] # Nil => (j \in board[i].blocks <=> i \in board[j].blockedBy)

\* One write of the holder: a later version of the task that is there, whose
\* owner is another one only if the holder takes or gives back the task.
Sound(w) ==
  w.task # Nil =>
    /\ tasks[w.id] # Nil
    /\ w.task.birth = tasks[w.id].birth
    /\ w.id \notin w.task.blocks \cup w.task.blockedBy
    /\ Later(tasks[w.id], w.task)
    /\ ~w.assigned /\ w.task.owner # tasks[w.id].owner =>
         {tasks[w.id].owner, w.task.owner} \subseteq {Nil, lock}

\* The board the change of the holder is heading for: what is written already
\* and what is left to write.  No write has failed yet, or it may not be paired.
Heading(board) ==
  /\ board \in [TaskIds -> Files]
  /\ \A k \in DOMAIN writes : board[writes[k].id] = writes[k].task
  /\ \A i \in TaskIds : board[i] = tasks[i] \/ \E k \in DOMAIN writes : writes[k].id = i
  /\ failures = 0 => Paired(board)

ChangeInv ==
  /\ \A k \in DOMAIN writes : Sound(writes[k])
  /\ \E board \in [TaskIds -> Files] : Heading(board)

BoardInv == TypesHold /\ SeenInv /\ ChangeInv

-----------------------------------------------------------------------------
(* The operators.                                                          *)

\* A task is never taken for no task.
LEMMA RecordsAre ==
  ASSUME NEW t \in Files
  PROVE  t # Nil <=> t \in TaskRecords
BY BoardAssumption DEF Files

\* That s writes the tasks that changed names, each at its identity.
Writes(s, changed) ==
  /\ s \in Seq([id : TaskIds, task : Files, assigned : BOOLEAN])
  /\ \A k \in DOMAIN s : s[k].id \in DOMAIN changed /\ s[k].task = changed[s[k].id]
                           /\ s[k].assigned = FALSE
  /\ \A i \in DOMAIN changed : \E k \in DOMAIN s : s[k].id = i

\* InIdOrder writes every task of a change.
LEMMA InIdOrderIs ==
  ASSUME NEW changed, DOMAIN changed \in SUBSET TaskIds,
         \A i \in DOMAIN changed : changed[i] \in Files
  PROVE  Writes(InIdOrder(changed), changed)
<1>1. PICK D : D = DOMAIN changed /\ D \in SUBSET (1..MaxTasks)
  BY DEF TaskIds
<1>2. MaxTasks \in Nat
  BY BoardAssumption
<1>3. PICK h : h = Ascending(D)
  OBVIOUS
<1>4. PICK c \in Nat : c = Cardinality(D)
  BY <1>1, <1>2, AscendingIs
<1>5. h \in [1..c -> D]
  BY <1>1, <1>2, <1>3, <1>4, AscendingIs DEF Rising
<1>6. \A i \in D : \E k \in 1..c : h[k] = i
  BY <1>1, <1>2, <1>3, <1>4, AscendingCovers, ZenonT(40)
<1>7. PICK s : s = [k \in 1..c |-> Put(h[k], changed[h[k]])]
  OBVIOUS
<1>8. InIdOrder(changed) = s
  BY <1>1, <1>3, <1>5, <1>7, Zenon DEF InIdOrder
<1>9. \A k \in 1..c : h[k] \in D /\ s[k] = [id |-> h[k], task |-> changed[h[k]], assigned |-> FALSE]
  BY <1>5, <1>7 DEF Put
<1> DEFINE W == [id : TaskIds, task : Files, assigned : BOOLEAN]
<1>10. \A k \in 1..c :
         s[k] \in W /\ s[k].id = h[k] /\ s[k].task = changed[h[k]] /\ s[k].assigned = FALSE
  <2> SUFFICES ASSUME NEW k \in 1..c
               PROVE  /\ s[k] \in W /\ s[k].id = h[k] /\ s[k].task = changed[h[k]]
                      /\ s[k].assigned = FALSE
    OBVIOUS
  <2>1. PICK i \in D, f \in Files : i = h[k] /\ f = changed[h[k]]
    BY <1>1, <1>9
  <2>2. s[k] = [id |-> i, task |-> f, assigned |-> FALSE]
    BY <1>9, <2>1
  <2>3. i \in TaskIds
    BY <1>1 DEF TaskIds
  <2> QED
    BY <2>1, <2>2, <2>3
<1>11. s \in Seq(W)
  <2> HIDE DEF W
  <2> QED
    BY <1>4, <1>7, <1>10
<1>13. DOMAIN s = 1..c
  BY <1>7
<1>14. /\ \A k \in DOMAIN s : s[k].id \in DOMAIN changed /\ s[k].task = changed[s[k].id]
                               /\ s[k].assigned = FALSE
       /\ \A i \in DOMAIN changed : \E k \in DOMAIN s : s[k].id = i
  <2>1. \A k \in 1..c : h[k] \in D
    BY <1>5
  <2>2. \A k \in 1..c : s[k].id = h[k] /\ s[k].task = changed[h[k]] /\ s[k].assigned = FALSE
    BY <1>10
  <2>3. ASSUME NEW i \in D PROVE \E k \in 1..c : s[k].id = i
    <3>1. PICK k \in 1..c : h[k] = i
      BY <1>6
    <3> QED
      BY <2>2, <3>1, Zenon
  <2> QED
    BY <1>1, <1>13, <2>1, <2>2, <2>3, ZenonT(40)
<1> QED
  BY <1>8, <1>11, <1>14, Zenon DEF Writes

\* That v also makes the write w.
WritesAlso(v, changed, w) ==
  /\ v \in Seq([id : TaskIds, task : Files, assigned : BOOLEAN])
  /\ v # << >>
  /\ \A k \in DOMAIN v :
       \/ v[k] = w
       \/ v[k].id \in DOMAIN changed /\ v[k].task = changed[v[k].id] /\ v[k].assigned = FALSE
  /\ \A i \in DOMAIN changed : \E k \in DOMAIN v : v[k].id = i
  /\ \E k \in DOMAIN v : v[k].id = w.id

\* One write more at the end.
LEMMA AndThen ==
  ASSUME NEW s, NEW changed, Writes(s, changed),
         NEW w \in [id : TaskIds, task : Files, assigned : BOOLEAN]
  PROVE  WritesAlso(s \o <<w>>, changed, w)
<1> DEFINE W == [id : TaskIds, task : Files, assigned : BOOLEAN]
<1>1. s \in Seq(W)
  BY DEF Writes
<1>2. w \in W
  OBVIOUS
<1> HIDE DEF W
<1>3. PICK n \in Nat : n = Len(s)
  BY <1>1
<1>4. PICK v : v = s \o <<w>>
  OBVIOUS
<1>5. v \in Seq(W) /\ Len(v) = n + 1 /\ v[n + 1] = w /\ DOMAIN v = 1..(n + 1)
  BY <1>1, <1>2, <1>3, <1>4
<1>6. DOMAIN s = 1..n /\ \A k \in 1..n : v[k] = s[k] /\ k \in 1..(n + 1)
  BY <1>1, <1>2, <1>3, <1>4
<1>7. \A k \in 1..(n + 1) : k = n + 1 \/ k \in 1..n
  BY <1>3
<1>8. v # << >>
  BY <1>5, <1>3
<1>9. \A k \in DOMAIN v :
        \/ v[k] = w
        \/ v[k].id \in DOMAIN changed /\ v[k].task = changed[v[k].id] /\ v[k].assigned = FALSE
  <2> SUFFICES ASSUME NEW k \in 1..(n + 1), v[k] # w
               PROVE  v[k].id \in DOMAIN changed /\ v[k].task = changed[v[k].id] /\ v[k].assigned = FALSE
    BY <1>5, Zenon
  <2>1. k \in 1..n
    BY <1>5, <1>7
  <2>2. v[k] = s[k] /\ k \in DOMAIN s
    BY <1>6, <2>1
  <2> QED
    BY <2>2, Zenon DEF Writes
<1>10. \A i \in DOMAIN changed : \E k \in DOMAIN v : v[k].id = i
  BY <1>5, <1>6, Zenon DEF Writes
<1>11. n + 1 \in DOMAIN v /\ v[n + 1].id = w.id
  BY <1>3, <1>5
<1> QED
  BY <1>4, <1>5, <1>8, <1>9, <1>10, <1>11, Zenon DEF W, WritesAlso

\* The owner changes hands only when the caller takes or gives back the task, or
\* names the owner.
LEMMA OwnerIs ==
  ASSUME NEW t, NEW a \in Agents, NEW u \in Updates,
         t.owner \in Agents \cup {Nil}, ~Conflicts(t, a, u)
  PROVE  /\ Owner(t, a, u) \in Agents \cup {Nil}
         /\ Owner(t, a, u) # t.owner /\ ~Assigns(u) => {t.owner, Owner(t, a, u)} \subseteq {Nil, a}
<1>1. u.ownership \in {"keep", "claim", "release", "clear"} \cup Agents
  BY BoardAssumption
<1>2. CASE u.ownership = "keep"
  <2>1. Owner(t, a, u) = t.owner
    BY <1>2, Zenon DEF Owner
  <2> QED
    BY <2>1
<1>3. CASE u.ownership = "claim"
  <2>1. Owner(t, a, u) = a
    BY <1>3, Zenon DEF Owner
  <2>2. t.owner \in {Nil, a}
    BY <1>3, Zenon DEF Conflicts
  <2> QED
    BY <2>1, <2>2
<1>4. CASE u.ownership = "release"
  <2>1. Owner(t, a, u) = Nil
    BY <1>4, Zenon DEF Owner
  <2>2. t.owner \in {Nil, a}
    BY <1>4, Zenon DEF Conflicts
  <2> QED
    BY <2>1, <2>2
<1>5. CASE u.ownership = "clear"
  <2>1. Owner(t, a, u) = Nil
    BY <1>5, Zenon DEF Owner
  <2>2. Assigns(u)
    BY <1>5 DEF Assigns
  <2> QED
    BY <2>1, <2>2
<1>6. CASE u.ownership \notin {"keep", "claim", "release", "clear"}
  <2>1. u.ownership # "keep" /\ u.ownership # "claim" /\ u.ownership \notin {"release", "clear"}
    BY <1>6
  <2>2. Owner(t, a, u) = u.ownership
    BY <2>1, Zenon DEF Owner
  <2>3. u.ownership \in Agents
    BY <1>1, <1>6
  <2>4. Assigns(u)
    BY <1>6 DEF Assigns
  <2> QED
    BY <2>2, <2>3, <2>4
<1> QED
  BY <1>2, <1>3, <1>4, <1>5, <1>6

\* What new has of the task r, the other end of an edge that u gives to i: a later
\* version with the edge.
IsRelated(new, i, u, r) ==
  /\ new \in TaskRecords
  /\ new.birth = tasks[r].birth /\ new.owner = tasks[r].owner
  /\ Later(tasks[r], new)
  /\ new.blockedBy = IF r \in u.blocks THEN tasks[r].blockedBy \cup {i} ELSE tasks[r].blockedBy
  /\ new.blocks = IF r \in u.blockedBy THEN tasks[r].blocks \cup {i} ELSE tasks[r].blocks

\* Related makes such a version.
LEMMA RelatedIs ==
  ASSUME NEW i \in TaskIds, NEW u, NEW r, tasks[r] \in TaskRecords
  PROVE  IsRelated(Related(i, u, r), i, u, r)
<1>1. PICK t \in TaskRecords : t = tasks[r]
  OBVIOUS
<1>2. PICK B : B = IF r \in u.blockedBy THEN t.blocks \cup {i} ELSE t.blocks
  OBVIOUS
<1>3. PICK C : C = IF r \in u.blocks THEN t.blockedBy \cup {i} ELSE t.blockedBy
  OBVIOUS
<1>4. B \in SUBSET TaskIds /\ C \in SUBSET TaskIds /\ t.blocks \subseteq B /\ t.blockedBy \subseteq C
  BY <1>2, <1>3 DEF TaskRecords
<1>5. PICK n \in Nat : n = (IF C # t.blockedBy THEN 1 ELSE 0) + (IF B # t.blocks THEN 1 ELSE 0)
  OBVIOUS
<1>6. PICK e : e = [t EXCEPT !.blockedBy = C, !.blocks = B]
  OBVIOUS
<1>7. e \in TaskRecords /\ e.blocks = B /\ e.blockedBy = C /\ e.revision = t.revision
        /\ e.birth = t.birth /\ e.owner = t.owner /\ e.status = t.status
  BY <1>4, <1>6 DEF TaskRecords
<1>8. Related(i, u, r) = [e EXCEPT !.revision = @ + n]
  <2>1. e = [t EXCEPT !.blockedBy = IF r \in u.blocks THEN @ \cup {i} ELSE @,
                      !.blocks = IF r \in u.blockedBy THEN @ \cup {i} ELSE @]
    BY <1>2, <1>3, <1>6, Zenon
  <2>2. n = (IF e.blockedBy # t.blockedBy THEN 1 ELSE 0) + (IF e.blocks # t.blocks THEN 1 ELSE 0)
    BY <1>5, <1>7
  <2> QED
    BY <1>1, <2>1, <2>2, Zenon DEF Related
<1>9. PICK f : f = [e EXCEPT !.revision = @ + n]
  OBVIOUS
<1>10. f \in TaskRecords /\ f.blocks = B /\ f.blockedBy = C /\ f.revision = t.revision + n
         /\ f.birth = t.birth /\ f.owner = t.owner /\ f.status = t.status
  BY <1>7, <1>9 DEF TaskRecords
<1>11. t.revision \in Nat
  BY DEF TaskRecords
<1>12. Later(t, f)
  BY <1>5, <1>10, <1>11 DEF Later
<1> QED
  BY <1>1, <1>2, <1>3, <1>8, <1>9, <1>10, <1>12 DEF IsRelated

\* The task an update names is a later version, with the edges added.
LEMMA UpdatedIs ==
  ASSUME NEW t \in TaskRecords, NEW a \in Agents, NEW u \in Updates,
         ~Conflicts(t, a, u), u.blocks \subseteq TaskIds, u.blockedBy \subseteq TaskIds
  PROVE  /\ Bump(Applied(t, a, u)) \in TaskRecords
         /\ Bump(Applied(t, a, u)).birth = t.birth
         /\ Bump(Applied(t, a, u)).owner = Owner(t, a, u)
         /\ Later(t, Bump(Applied(t, a, u)))
         /\ Bump(Applied(t, a, u)).blocks = t.blocks \cup u.blocks
         /\ Bump(Applied(t, a, u)).blockedBy = t.blockedBy \cup u.blockedBy
<1>1. PICK o \in Agents \cup {Nil} : o = Owner(t, a, u)
  <2>1. t.owner \in Agents \cup {Nil}
    BY DEF TaskRecords
  <2> QED
    BY <2>1, OwnerIs
<1>2. PICK st \in TaskStatuses : st = IF u.status = Nil THEN t.status ELSE u.status
  BY BoardAssumption DEF TaskRecords
<1>3. PICK B \in SUBSET TaskIds : B = t.blocks \cup u.blocks
  BY DEF TaskRecords
<1>4. PICK C \in SUBSET TaskIds : C = t.blockedBy \cup u.blockedBy
  BY DEF TaskRecords
<1>5. PICK e : e = [t EXCEPT !.owner = o, !.status = st, !.blocks = B, !.blockedBy = C]
  OBVIOUS
<1>6. e = Applied(t, a, u)
  BY <1>1, <1>2, <1>3, <1>4, <1>5, Zenon DEF Applied
<1>7. e \in TaskRecords /\ e.owner = o /\ e.blocks = B /\ e.blockedBy = C
        /\ e.birth = t.birth /\ e.revision = t.revision
  BY <1>5 DEF TaskRecords
<1>8. PICK f : f = [e EXCEPT !.revision = @ + 1]
  OBVIOUS
<1>9. f = Bump(Applied(t, a, u))
  BY <1>6, <1>8, Zenon DEF Bump
<1>10. f \in TaskRecords /\ f.owner = o /\ f.blocks = B /\ f.blockedBy = C
        /\ f.birth = t.birth /\ f.revision = t.revision + 1
  BY <1>7, <1>8 DEF TaskRecords
<1>11. t.revision \in Nat
  BY DEF TaskRecords
<1>12. Later(t, f)
  BY <1>10, <1>11 DEF Later
<1> QED
  BY <1>1, <1>3, <1>4, <1>9, <1>10, <1>12

\* A task that no longer names a deleted one is still a later version.
LEMMA UnreferencedIs ==
  ASSUME NEW i, NEW r, tasks[r] \in TaskRecords
  PROVE  /\ Unreferenced(i, r) \in TaskRecords
         /\ Unreferenced(i, r).birth = tasks[r].birth
         /\ Unreferenced(i, r).owner = tasks[r].owner
         /\ Later(tasks[r], Unreferenced(i, r))
         /\ Unreferenced(i, r).blocks = tasks[r].blocks \ {i}
         /\ Unreferenced(i, r).blockedBy = tasks[r].blockedBy \ {i}
<1>1. PICK t \in TaskRecords : t = tasks[r]
  OBVIOUS
<1>2. PICK f : f = [t EXCEPT !.blocks = @ \ {i}, !.blockedBy = @ \ {i}]
  OBVIOUS
<1>3. f = Unreferenced(i, r)
  BY <1>1, <1>2, Zenon DEF Unreferenced
<1>4. f \in TaskRecords /\ f.birth = t.birth /\ f.owner = t.owner /\ f.status = t.status
        /\ f.revision = t.revision
        /\ f.blocks = t.blocks \ {i} /\ f.blockedBy = t.blockedBy \ {i}
  BY <1>2 DEF TaskRecords
<1>5. t.revision \in Nat
  BY DEF TaskRecords
<1>6. Later(t, f)
  BY <1>4, <1>5 DEF Later
<1> QED
  BY <1>1, <1>3, <1>4, <1>6

-----------------------------------------------------------------------------
(* The steps.                                                              *)

\* The directory starts empty and nobody has read it.
LEMMA BoardStarts ==
  ASSUME BoardInit
  PROVE  BoardInv
<1>1. \A i \in TaskIds : tasks[i] = Nil
  BY DEF BoardInit
<1>2. \A a \in Agents : seen[a] = Nil
  BY DEF BoardInit
<1>3. writes = << >> /\ lock = Nil /\ births = 0 /\ failures = 0
  BY DEF BoardInit
<1>4. tasks \in [TaskIds -> Files]
  BY DEF BoardInit, Files
<1>5. TypesHold
  <2>1. seen \in [Agents -> [id : TaskIds, task : TaskRecords] \cup {Nil}]
    BY DEF BoardInit
  <2>2. Present = {}
    BY <1>1 DEF Present
  <2>3. writes \in Seq([id : TaskIds, task : Files, assigned : BOOLEAN])
    BY <1>3
  <2> QED
    BY <1>3, <1>4, <2>1, <2>2, <2>3 DEF TypesHold
<1>6. SeenInv
  BY <1>2 DEF SeenInv
<1>7. ChangeInv
  <2>1. DOMAIN writes = {}
    BY <1>3
  <2>2. Heading(tasks)
    BY <1>1, <1>4, <2>1 DEF Heading, Paired
  <2> QED
    BY <1>4, <2>1, <2>2 DEF ChangeInv
<1> QED
  BY <1>5, <1>6, <1>7 DEF BoardInv

\* A reading is an earlier version of itself.
LEMMA GetStep ==
  ASSUME BoardInv, NEW a \in Agents, NEW i \in TaskIds, GetTask(a, i)
  PROVE  BoardInv'
<1> USE DEF BoardInv
<1>1. tasks[i] # Nil /\ tasks[i] \in TaskRecords
  <2>1. tasks[i] # Nil /\ tasks[i] \in Files
    BY DEF GetTask, Present, TypesHold
  <2> QED
    BY <2>1, RecordsAre
<1>2. seen' = [seen EXCEPT ![a] = [id |-> i, task |-> tasks[i]]]
  BY DEF GetTask
<1>3. UNCHANGED <<tasks, lock, writes, births, failures>>
  BY DEF GetTask
<1>4. PICK reading \in [id : TaskIds, task : TaskRecords] :
        reading = [id |-> i, task |-> tasks[i]] /\ reading.id = i /\ reading.task = tasks[i]
  <2>1. [id |-> i, task |-> tasks[i]] \in [id : TaskIds, task : TaskRecords]
    BY <1>1
  <2> QED
    BY <2>1
<1>5. seen' \in [Agents -> [id : TaskIds, task : TaskRecords] \cup {Nil}]
  BY <1>2, <1>4 DEF TypesHold
<1>6. TypesHold'
  BY <1>3, <1>5 DEF TypesHold, Present
<1>7. SeenInv'
  <2> SUFFICES ASSUME NEW b \in Agents, seen'[b] # Nil
               PROVE  /\ seen'[b].task.birth <= births
                      /\ tasks[seen'[b].id] # Nil => Later(seen'[b].task, tasks[seen'[b].id])
    BY <1>3, Zenon DEF SeenInv, Later
  <2>1. CASE b = a
    <3>1. seen'[b] = reading
      BY <1>2, <1>4, <2>1 DEF TypesHold
    <3>2. tasks[i].birth <= births
      BY <1>1 DEF TypesHold, Present
    <3>3. Later(tasks[i], tasks[i])
      BY <1>1 DEF Later, TaskRecords
    <3> QED
      BY <1>4, <3>1, <3>2, <3>3
  <2>2. CASE b # a
    <3>1. seen'[b] = seen[b]
      BY <1>2, <2>2 DEF TypesHold
    <3> QED
      BY <3>1 DEF SeenInv
  <2> QED
    BY <2>1, <2>2
<1>8. ChangeInv'
  BY <1>3 DEF ChangeInv, Sound, Heading, Later
<1> QED
  BY <1>6, <1>7, <1>8

\* The identity of a new task is one that no file has.
LEMMA NextIdIsFree ==
  ASSUME TypesHold
  PROVE  NextId \notin Present
<1>1. CASE Present = {}
  BY <1>1
<1>2. CASE Present # {}
  <2>1. MaxTasks \in Nat /\ Present \in SUBSET (1..MaxTasks)
    BY BoardAssumption DEF Present, TaskIds
  <2>2. \E x \in Present : \A y \in Present : x >= y
    BY <1>2, <2>1, GreatestNumber
  <2>3. Max(Present) \in Present /\ \A y \in Present : Max(Present) >= y
    BY <2>2, Zenon DEF Max
  <2>4. PICK m \in 1..MaxTasks : m = Max(Present)
    BY <2>1, <2>3
  <2>5. NextId = m + 1
    BY <1>2, <2>4 DEF NextId
  <2>6. ASSUME m + 1 \in Present PROVE FALSE
    BY <2>1, <2>3, <2>4, <2>6
  <2> QED
    BY <2>5, <2>6
<1> QED
  BY <1>1, <1>2

\* A new task has no edges and, between changes that all succeeded, no edge
\* ends where it is put.
LEMMA CreateStep ==
  ASSUME BoardInv, CreateTask
  PROVE  BoardInv'
<1> USE DEF BoardInv
<1>1. PICK n \in TaskIds : n = NextId
  BY DEF CreateTask
<1>2. n \notin Present /\ tasks[n] = Nil
  <2>1. n \notin Present
    BY <1>1, NextIdIsFree
  <2> QED
    BY <2>1 DEF Present
<1>3. PICK m \in Nat : m = births + 1 /\ m > births
  BY DEF TypesHold
<1>4. PICK t \in TaskRecords : /\ t = NewTask(m)
                              /\ t.birth = m /\ t.blocks = {} /\ t.blockedBy = {}
  <2>1. NewTask(m) \in TaskRecords
    BY DEF NewTask, TaskRecords, TaskStatuses
  <2> QED
    BY <2>1 DEF NewTask
<1>5. t # Nil /\ t \in Files
  BY RecordsAre DEF Files
<1>6. tasks' = [tasks EXCEPT ![n] = t] /\ births' = m
  BY <1>1, <1>3, <1>4 DEF CreateTask
<1>7. lock = Nil /\ writes = << >> /\ UNCHANGED <<lock, writes, seen, failures>>
  BY DEF CreateTask, TypesHold
<1>8. tasks' \in [TaskIds -> Files] /\ tasks'[n] = t
        /\ \A i \in TaskIds : i # n => tasks'[i] = tasks[i]
  BY <1>5, <1>6 DEF TypesHold
<1>9. TypesHold'
  <2>1. \A i \in Present' :
          tasks'[i].birth <= births' /\ i \notin tasks'[i].blocks \cup tasks'[i].blockedBy
    <3> SUFFICES ASSUME NEW i \in TaskIds, tasks'[i] # Nil
                 PROVE  /\ tasks'[i].birth <= births'
                        /\ i \notin tasks'[i].blocks \cup tasks'[i].blockedBy
      BY DEF Present
    <3>1. CASE i = n
      BY <1>4, <1>6, <1>8, <3>1
    <3>2. CASE i # n
      <4>1. /\ tasks[i] \in TaskRecords /\ tasks[i].birth <= births /\ tasks'[i] = tasks[i]
            /\ i \notin tasks[i].blocks \cup tasks[i].blockedBy
        BY <1>8, <3>2, RecordsAre DEF TypesHold, Present
      <4>2. tasks[i].birth \in Nat /\ births \in Nat
        BY <4>1 DEF TaskRecords, TypesHold
      <4> QED
        BY <1>3, <1>6, <4>1, <4>2
    <3> QED
      BY <3>1, <3>2
  <2> QED
    BY <1>6, <1>7, <1>8, <2>1 DEF TypesHold
<1>10. SeenInv'
  <2> SUFFICES ASSUME NEW a \in Agents, seen[a] # Nil
               PROVE  /\ seen[a].task.birth <= births'
                      /\ tasks'[seen[a].id] # Nil => Later(seen[a].task, tasks'[seen[a].id])
    BY <1>7, Zenon DEF SeenInv, Later
  <2>1. seen[a].id \in TaskIds /\ seen[a].task \in TaskRecords
    BY DEF TypesHold
  <2>2. seen[a].task.birth <= births /\ seen[a].task.birth \in Nat /\ births \in Nat
    BY <2>1 DEF SeenInv, TypesHold, TaskRecords
  <2>3. CASE seen[a].id = n
    <3>1. seen[a].task.birth # t.birth
      BY <1>3, <1>4, <2>2
    <3>2. Later(seen[a].task, t)
      BY <3>1 DEF Later
    <3> QED
      BY <1>3, <1>6, <1>8, <2>2, <2>3, <3>2
  <2>4. CASE seen[a].id # n
    <3>1. tasks'[seen[a].id] = tasks[seen[a].id]
      BY <1>8, <2>1, <2>4
    <3>2. tasks[seen[a].id] # Nil => Later(seen[a].task, tasks[seen[a].id])
      BY DEF SeenInv
    <3> QED
      BY <1>3, <1>6, <2>2, <3>1, <3>2
  <2> QED
    BY <2>3, <2>4
<1>11. ChangeInv'
  <2>1. DOMAIN writes = {} /\ DOMAIN writes' = {}
    BY <1>7
  <2>2. failures = 0 => Paired(tasks)
    <3>1. PICK board \in [TaskIds -> Files] : Heading(board)
      BY DEF ChangeInv
    <3>2. \A i \in TaskIds : board[i] = tasks[i]
      BY <2>1, <3>1 DEF Heading
    <3>3. board = tasks
      BY <3>2 DEF TypesHold
    <3> QED
      BY <3>1, <3>3 DEF Heading
  <2>3. failures = 0 => Paired(tasks')
    <3> SUFFICES ASSUME failures = 0, NEW i \in TaskIds, NEW j \in TaskIds, tasks'[i] # Nil
                 PROVE  /\ j \in tasks'[i].blocks \cup tasks'[i].blockedBy =>
                             i # j /\ tasks'[j] # Nil
                        /\ tasks'[j] # Nil =>
                             (j \in tasks'[i].blocks <=> i \in tasks'[j].blockedBy)
      BY DEF Paired
    <3>1. \A x, y \in TaskIds : tasks[x] # Nil =>
            /\ y \in tasks[x].blocks \cup tasks[x].blockedBy => x # y /\ tasks[y] # Nil
            /\ tasks[y] # Nil => (y \in tasks[x].blocks <=> x \in tasks[y].blockedBy)
      BY <2>2, Zenon DEF Paired
    <3>2. CASE i = n
      <4>1. tasks'[i].blocks = {} /\ tasks'[i].blockedBy = {}
        BY <1>4, <1>8, <3>2
      <4>2. ASSUME tasks'[j] # Nil PROVE i \notin tasks'[j].blockedBy
        <5>1. CASE j = n
          BY <3>2, <4>1, <5>1
        <5>2. CASE j # n
          BY <1>2, <1>8, <3>1, <3>2, <4>2, <5>2
        <5> QED
          BY <5>1, <5>2
      <4> QED
        BY <4>1, <4>2
    <3>3. CASE i # n
      <4>1. tasks'[i] = tasks[i]
        BY <1>8, <3>3
      <4>2. CASE j = n
        <5>1. j \notin tasks[i].blocks \cup tasks[i].blockedBy
          BY <1>2, <3>1, <4>1, <4>2
        <5>2. tasks'[j].blockedBy = {}
          BY <1>4, <1>8, <4>2
        <5> QED
          BY <4>1, <5>1, <5>2
      <4>3. CASE j # n
        BY <1>8, <3>1, <4>1, <4>3
      <4> QED
        BY <4>2, <4>3
    <3> QED
      BY <3>2, <3>3
  <2>4. Heading(tasks)'
    BY <1>7, <1>8, <2>1, <2>3 DEF Heading, Paired
  <2>5. \A k \in DOMAIN writes' : Sound(writes[k])'
    BY <2>1
  <2> QED
    BY <1>8, <2>1, <2>4 DEF ChangeInv
<1> QED
  BY <1>9, <1>10, <1>11

\* A later version of a later version.
LEMMA LaterStill ==
  ASSUME NEW x \in TaskRecords, NEW y \in TaskRecords, NEW z \in TaskRecords,
         Later(x, y), Later(y, z), z.birth = y.birth
  PROVE  Later(x, z)
<1>1. x.revision \in Nat /\ y.revision \in Nat /\ z.revision \in Nat
  BY DEF TaskRecords
<1> QED
  BY <1>1 DEF Later

\* The next write puts a later version of its task in the directory and goes on
\* towards the same board.
LEMMA WriteStep ==
  ASSUME BoardInv, WriteFile
  PROVE  BoardInv'
<1> USE DEF BoardInv
<1> DEFINE W == [id : TaskIds, task : Files, assigned : BOOLEAN]
<1>1. writes \in Seq(W) /\ writes # << >>
  BY DEF WriteFile, TypesHold
<1>2. PICK l \in Nat : l = Len(writes) /\ l > 0
  <2> HIDE DEF W
  <2> QED
    BY <1>1
<1>3. PICK w \in W : w = Head(writes) /\ w = writes[1]
  <2> HIDE DEF W
  <2> QED
    BY <1>1, <1>2
<1>4. PICK n \in TaskIds, t \in Files : n = w.id /\ t = w.task
  OBVIOUS
<1>5. /\ writes' = Tail(writes) /\ writes' \in Seq(W) /\ DOMAIN writes' = 1..(l - 1)
      /\ \A k \in 1..(l - 1) : writes'[k] = writes[k + 1] /\ k + 1 \in DOMAIN writes
      /\ 1 \in DOMAIN writes
      /\ writes' = << >> <=> l = 1
  <2>1. writes' = Tail(writes)
    BY DEF WriteFile
  <2> HIDE DEF W
  <2>2. writes' \in Seq(W) /\ Len(writes') = l - 1 /\ DOMAIN writes = 1..l
    BY <1>1, <1>2, <2>1
  <2>3. \A k \in 1..(l - 1) : writes'[k] = writes[k + 1]
    BY <1>1, <1>2, <2>1
  <2>4. writes' = << >> <=> l = 1
    BY <1>2, <2>2
  <2> QED
    BY <1>2, <2>1, <2>2, <2>3, <2>4
<1>6. tasks' = [tasks EXCEPT ![n] = t] /\ UNCHANGED <<seen, births, failures>>
  BY <1>3, <1>4 DEF WriteFile
<1>7. lock' = IF l = 1 THEN Nil ELSE lock
  BY <1>2 DEF WriteFile
<1>8. tasks' \in [TaskIds -> Files] /\ tasks'[n] = t
        /\ \A i \in TaskIds : i # n => tasks'[i] = tasks[i]
  BY <1>6 DEF TypesHold
<1>9. t # Nil => /\ t \in TaskRecords /\ tasks[n] \in TaskRecords /\ tasks[n] # Nil
                 /\ t.birth = tasks[n].birth /\ Later(tasks[n], t)
                 /\ n \notin t.blocks \cup t.blockedBy
  <2>1. Sound(w)
    BY <1>3, <1>5 DEF ChangeInv
  <2> QED
    BY <1>4, <2>1, RecordsAre DEF Sound, TypesHold
<1>10. TypesHold'
  <2>1. \A i \in Present' :
          tasks'[i].birth <= births' /\ i \notin tasks'[i].blocks \cup tasks'[i].blockedBy
    <3> SUFFICES ASSUME NEW i \in TaskIds, tasks'[i] # Nil
                 PROVE  /\ tasks'[i].birth <= births
                        /\ i \notin tasks'[i].blocks \cup tasks'[i].blockedBy
      BY <1>6 DEF Present
    <3>1. CASE i = n
      BY <1>8, <1>9, <3>1 DEF TypesHold, Present
    <3>2. CASE i # n
      BY <1>8, <3>2 DEF TypesHold, Present
    <3> QED
      BY <3>1, <3>2
  <2>2. lock' \in Agents \cup {Nil}
    BY <1>7 DEF TypesHold
  <2>3. lock' = Nil <=> writes' = << >>
    <3>1. lock # Nil
      BY <1>1 DEF TypesHold
    <3> QED
      BY <1>5, <1>7, <3>1
  <2> QED
    BY <1>5, <1>6, <1>8, <2>1, <2>2, <2>3 DEF TypesHold
<1>11. SeenInv'
  <2> SUFFICES ASSUME NEW a \in Agents, seen[a] # Nil
               PROVE  tasks'[seen[a].id] # Nil => Later(seen[a].task, tasks'[seen[a].id])
    BY <1>6, ZenonT(40) DEF SeenInv, Later
  <2>1. seen[a].id \in TaskIds /\ seen[a].task \in TaskRecords
    BY DEF TypesHold
  <2>2. tasks[seen[a].id] # Nil => Later(seen[a].task, tasks[seen[a].id])
    BY DEF SeenInv
  <2>3. CASE seen[a].id = n
    <3>1. ASSUME t # Nil PROVE Later(seen[a].task, t)
      <4>1. Later(seen[a].task, tasks[n])
        BY <1>9, <2>2, <2>3, <3>1
      <4> QED
        BY <1>9, <2>1, <3>1, <4>1, LaterStill
    <3> QED
      BY <1>8, <2>3, <3>1
  <2>4. CASE seen[a].id # n
    BY <1>8, <2>1, <2>2, <2>4
  <2> QED
    BY <2>3, <2>4
<1>12. ChangeInv'
  <2>1. PICK board \in [TaskIds -> Files] : Heading(board)
    BY DEF ChangeInv
  <2>2. board[n] = t
    BY <1>3, <1>4, <1>5, <2>1 DEF Heading
  <2>3. \A k \in DOMAIN writes' : board[writes'[k].id] = writes'[k].task
    BY <1>5, <2>1 DEF Heading
  <2>4. \A i \in TaskIds : board[i] = tasks'[i] \/ \E k \in DOMAIN writes' : writes'[k].id = i
    <3> SUFFICES ASSUME NEW i \in TaskIds, i # n, board[i] # tasks[i]
                 PROVE  \E k \in DOMAIN writes' : writes'[k].id = i
      BY <1>8, <2>2, Zenon
    <3>1. PICK k \in DOMAIN writes : writes[k].id = i
      BY <2>1 DEF Heading
    <3>2. k \in 1..l /\ k # 1
      <4> HIDE DEF W
      <4> QED
        BY <1>1, <1>2, <1>3, <1>4, <3>1
    <3>3. k - 1 \in 1..(l - 1) /\ (k - 1) + 1 = k
      BY <1>2, <3>2
    <3>4. writes'[k - 1] = writes[k]
      BY <1>5, <3>3
    <3> QED
      BY <1>5, <3>1, <3>3, <3>4
  <2>5. Heading(board)'
    BY <1>6, <2>1, <2>3, <2>4 DEF Heading, Paired
  <2>6. ASSUME NEW k \in DOMAIN writes' PROVE Sound(writes[k])'
    <3>1. writes'[k] = writes[k + 1] /\ k + 1 \in DOMAIN writes /\ k \in 1..(l - 1)
      BY <1>5
    <3>2. PICK v : v = writes[k + 1]
      OBVIOUS
    <3>3. v.id \in TaskIds /\ v.task \in Files /\ Sound(v)
      <4>1. v \in W
        <5> HIDE DEF W
        <5> QED
          BY <1>1, <3>1, <3>2
      <4>2. Sound(v)
        BY <3>1, <3>2 DEF ChangeInv
      <4> QED
        BY <4>1, <4>2
    <3>4. lock' = lock
      BY <1>2, <1>7, <3>1
    <3>5. Sound(v)'
      <4>1. CASE v.id = n
        <5>1. v.task = t
          BY <2>1, <2>2, <3>1, <3>2, <4>1 DEF Heading
        <5>2. t # Nil => Later(t, t)
          BY <1>9 DEF Later, TaskRecords
        <5> QED
          BY <1>8, <1>9, <4>1, <5>1, <5>2 DEF Sound, Later
      <4>2. CASE v.id # n
        <5>1. tasks'[v.id] = tasks[v.id]
          BY <1>8, <3>3, <4>2
        <5> QED
          BY <3>3, <3>4, <5>1, Zenon DEF Sound, Later
      <4> QED
        BY <4>1, <4>2
    <3> QED
      BY <3>1, <3>2, <3>5, Zenon DEF Sound, Later
  <2> QED
    BY <2>5, <2>6 DEF ChangeInv
<1> QED
  BY <1>10, <1>11, <1>12

\* After a failed write the directory is what it is.
LEMMA FailStep ==
  ASSUME BoardInv, WriteFails
  PROVE  BoardInv'
<1> USE DEF BoardInv
<1>1. writes' = << >> /\ lock' = Nil /\ UNCHANGED <<tasks, seen, births>>
  BY DEF WriteFails
<1>2. failures' \in Nat /\ failures' # 0
  BY DEF WriteFails, TypesHold
<1>3. TypesHold'
  BY <1>1, <1>2 DEF TypesHold, Present
<1>4. SeenInv'
  BY <1>1 DEF SeenInv, Later
<1>5. ChangeInv'
  <2>1. DOMAIN writes' = {}
    BY <1>1
  <2>2. tasks \in [TaskIds -> Files]
    BY DEF TypesHold
  <2>3. Heading(tasks)'
    BY <1>1, <1>2, <2>1, <2>2 DEF Heading
  <2> QED
    BY <1>1, <2>1, <2>2, <2>3 DEF ChangeInv
<1> QED
  BY <1>3, <1>4, <1>5

\* Between changes that all succeeded the edges match.
LEMMA BoardAtRest ==
  ASSUME BoardInv, lock = Nil, failures = 0
  PROVE  Paired(tasks)
<1>1. DOMAIN writes = {}
  BY DEF BoardInv, TypesHold
<1>2. PICK board \in [TaskIds -> Files] : Heading(board)
  BY DEF BoardInv, ChangeInv
<1>3. \A i \in TaskIds : board[i] = tasks[i]
  BY <1>1, <1>2 DEF Heading
<1>4. board = tasks
  BY <1>3 DEF BoardInv, TypesHold
<1> QED
  BY <1>2, <1>4 DEF Heading

\* A change takes the lock with the writes that lead to a board.
LEMMA ChangeStarts ==
  ASSUME BoardInv, lock = Nil,
         NEW a \in Agents, lock' = a, UNCHANGED <<tasks, seen, births, failures>>,
         writes' \in Seq([id : TaskIds, task : Files, assigned : BOOLEAN]), writes' # << >>,
         NEW board \in [TaskIds -> Files],
         \A k \in DOMAIN writes' : board[writes'[k].id] = writes'[k].task,
         \A i \in TaskIds : board[i] = tasks[i] \/ \E k \in DOMAIN writes' : writes'[k].id = i,
         failures = 0 => Paired(board),
         \A k \in DOMAIN writes' : Sound(writes[k])'
  PROVE  BoardInv'
<1>1. a # Nil
  BY BoardAssumption
<1>2. TypesHold'
  BY <1>1 DEF BoardInv, TypesHold, Present
<1>3. SeenInv'
  BY DEF BoardInv, SeenInv, Later
<1>4. Heading(board)'
  BY DEF Heading, Paired
<1>5. ChangeInv'
  BY <1>4 DEF ChangeInv
<1> QED
  BY <1>2, <1>3, <1>5 DEF BoardInv

\* A deletion takes its task out of every task it names.
LEMMA DeleteStep ==
  ASSUME BoardInv, NEW a \in Agents, DeleteTask(a)
  PROVE  BoardInv'
<1>1. PICK i \in TaskIds : i = seen[a].id /\ tasks[i] # Nil
  <2>1. seen[a].id \in Present
    BY DEF DeleteTask
  <2> QED
    BY <2>1 DEF Present
<1>2. /\ lock = Nil /\ lock' = a /\ UNCHANGED <<tasks, seen, births, failures>>
      /\ writes' = DeleteWrites(i)
  BY <1>1 DEF DeleteTask
<1>3. tasks \in [TaskIds -> Files]
  BY DEF BoardInv, TypesHold
<1>4. PICK D \in SUBSET TaskIds : D = (tasks[i].blocks \cup tasks[i].blockedBy) \cap Present
  BY DEF Present
<1>5. i \notin D
  BY <1>1, <1>4 DEF BoardInv, TypesHold, Present
<1>6. \A r \in D : tasks[r] \in TaskRecords /\ tasks[r] # Nil
  BY <1>3, <1>4, RecordsAre DEF Present
<1>7. PICK changed : changed = [r \in D |-> Unreferenced(i, r)]
  OBVIOUS
<1>8. \A r \in D : changed[r] \in TaskRecords /\ changed[r] \in Files /\ changed[r] # Nil
  <2>1. \A r \in D : changed[r] \in TaskRecords
    BY <1>6, <1>7, UnreferencedIs
  <2> QED
    BY <2>1, RecordsAre DEF Files
<1>9. PICK s : s = InIdOrder(changed)
  OBVIOUS
<1>10. Writes(s, changed)
  BY <1>7, <1>8, <1>9, InIdOrderIs
<1>11. PICK w \in [id : TaskIds, task : Files, assigned : BOOLEAN] :
         w = Put(i, Nil) /\ w.id = i /\ w.task = Nil
  <2>1. Put(i, Nil) \in [id : TaskIds, task : Files, assigned : BOOLEAN]
    BY DEF Put, Files
  <2> QED
    BY <2>1 DEF Put
<1>12. writes' = s \o <<w>>
  BY <1>2, <1>4, <1>7, <1>9, <1>11, Zenon DEF DeleteWrites
<1>13. /\ writes' \in Seq([id : TaskIds, task : Files, assigned : BOOLEAN])
       /\ writes' # << >>
       /\ \A k \in DOMAIN writes' :
            \/ writes'[k] = w
            \/ /\ writes'[k].id \in D /\ writes'[k].task = changed[writes'[k].id]
               /\ writes'[k].assigned = FALSE
       /\ \A r \in D \cup {i} : \E k \in DOMAIN writes' : writes'[k].id = r
  <2>1. DOMAIN changed = D
    BY <1>7
  <2>2. WritesAlso(writes', changed, w)
    BY <1>10, <1>12, AndThen
  <2> QED
    BY <1>11, <2>1, <2>2 DEF WritesAlso
<1>14. PICK board : board = [r \in TaskIds |->
                               IF r = i THEN Nil ELSE IF r \in D THEN changed[r] ELSE tasks[r]]
  OBVIOUS
<1>15. /\ board \in [TaskIds -> Files] /\ board[i] = Nil
       /\ \A r \in D : board[r] = changed[r]
       /\ \A r \in TaskIds : r # i /\ r \notin D => board[r] = tasks[r]
  <2>1. \A r \in TaskIds :
          (IF r = i THEN Nil ELSE IF r \in D THEN changed[r] ELSE tasks[r]) \in Files
    BY <1>3, <1>8 DEF Files
  <2> QED
    BY <1>5, <1>14, <2>1
<1>16. \A k \in DOMAIN writes' : board[writes'[k].id] = writes'[k].task
  BY <1>11, <1>13, <1>15, Zenon
<1>17. \A r \in TaskIds : board[r] = tasks[r] \/ \E k \in DOMAIN writes' : writes'[k].id = r
  BY <1>13, <1>15, Zenon
<1>18. ASSUME failures = 0 PROVE Paired(board)
  <2>1. \A x, y \in TaskIds : tasks[x] # Nil =>
          /\ y \in tasks[x].blocks \cup tasks[x].blockedBy => x # y /\ tasks[y] # Nil
          /\ tasks[y] # Nil => (y \in tasks[x].blocks <=> x \in tasks[y].blockedBy)
    BY <1>2, <1>18, BoardAtRest, Zenon DEF Paired
  <2>2. \A r \in TaskIds : tasks[r] # Nil /\ r # i =>
          /\ board[r] # Nil
          /\ board[r].blocks = tasks[r].blocks \ {i}
          /\ board[r].blockedBy = tasks[r].blockedBy \ {i}
    <3> SUFFICES ASSUME NEW r \in TaskIds, tasks[r] # Nil, r # i
                 PROVE  /\ board[r] # Nil
                        /\ board[r].blocks = tasks[r].blocks \ {i}
                        /\ board[r].blockedBy = tasks[r].blockedBy \ {i}
      OBVIOUS
    <3>1. CASE r \in D
      BY <1>6, <1>7, <1>8, <1>15, <3>1, UnreferencedIs
    <3>2. CASE r \notin D
      <4>1. r \notin tasks[i].blocks /\ r \notin tasks[i].blockedBy
        BY <1>4, <3>2 DEF Present
      <4>2. i \notin tasks[r].blockedBy /\ i \notin tasks[r].blocks
        BY <1>1, <2>1, <4>1
      <4> QED
        BY <1>15, <3>2, <4>2
    <3> QED
      BY <3>1, <3>2
  <2>3. \A r \in TaskIds : board[r] # Nil <=> tasks[r] # Nil /\ r # i
    <3> SUFFICES ASSUME NEW r \in TaskIds, r # i, tasks[r] = Nil PROVE board[r] = Nil
      BY <1>15, <2>2
    <3> QED
      BY <1>6, <1>15
  <2> QED
    BY <2>1, <2>2, <2>3 DEF Paired
<1>19. ASSUME NEW k \in DOMAIN writes' PROVE Sound(writes[k])'
  <2>1. PICK v : v = writes'[k]
    OBVIOUS
  <2>2. CASE v = w
    BY <1>11, <2>1, <2>2 DEF Sound
  <2>3. CASE v # w
    <3>1. PICK r \in D : v.id = r /\ v.task = Unreferenced(i, r)
      BY <1>7, <1>13, <2>1, <2>3
    <3>2. r \notin v.task.blocks \cup v.task.blockedBy
      <4>1. r \notin tasks[r].blocks \cup tasks[r].blockedBy
        BY <1>4 DEF BoardInv, TypesHold
      <4> QED
        BY <1>6, <3>1, <4>1, UnreferencedIs
    <3>3. /\ tasks[r] # Nil /\ v.task.birth = tasks[r].birth /\ Later(tasks[r], v.task)
          /\ v.task.owner = tasks[r].owner
      BY <1>6, <3>1, UnreferencedIs
    <3>4. Sound(v)'
      BY <1>2, <3>1, <3>2, <3>3 DEF Sound, Later
    <3> QED
      BY <2>1, <3>4
  <2> QED
    BY <2>2, <2>3
<1> QED
  BY <1>2, <1>13, <1>15, <1>16, <1>17, <1>18, <1>19, ChangeStarts

\* An update adds every edge at both of its ends, and changes the owner only as
\* the caller may.
LEMMA UpdateStep ==
  ASSUME BoardInv, NEW a \in Agents, NEW u \in Updates,
         NEW checked \in BOOLEAN, UpdateTask(a, u, checked)
  PROVE  BoardInv'
<1>1. PICK i \in TaskIds : i = seen[a].id /\ tasks[i] # Nil
  <2>1. seen[a].id \in Present
    BY DEF UpdateTask
  <2> QED
    BY <2>1 DEF Present
<1>2. /\ lock = Nil /\ lock' = a /\ UNCHANGED <<tasks, seen, births, failures>>
      /\ writes' = UpdateWrites(a, i, u) /\ writes' # << >>
      /\ i \notin u.blocks \cup u.blockedBy
      /\ u.blocks \cup u.blockedBy \subseteq Present
      /\ ~Conflicts(tasks[i], a, u)
  BY <1>1, Zenon DEF UpdateTask
<1>3. tasks \in [TaskIds -> Files]
  BY DEF BoardInv, TypesHold
<1>4. PICK D \in SUBSET TaskIds : D = u.blocks \cup u.blockedBy /\ i \notin D
  BY <1>2 DEF Present
<1>5. u.blocks \subseteq TaskIds /\ u.blockedBy \subseteq TaskIds
  BY <1>4
<1>6. \A r \in D : tasks[r] \in TaskRecords /\ tasks[r] # Nil
  BY <1>2, <1>3, <1>4, RecordsAre DEF Present
<1>7. PICK changed : changed = [r \in D |-> Related(i, u, r)]
  OBVIOUS
<1>8. \A r \in D : changed[r] \in TaskRecords /\ changed[r] \in Files /\ changed[r] # Nil
  <2>1. \A r \in D : changed[r] \in TaskRecords
    BY <1>6, <1>7, RelatedIs DEF IsRelated
  <2> QED
    BY <2>1, RecordsAre DEF Files
<1>9. PICK s : s = InIdOrder(changed)
  OBVIOUS
<1>10. Writes(s, changed)
  BY <1>7, <1>8, <1>9, InIdOrderIs
<1>11. PICK t \in TaskRecords : t = tasks[i] /\ t # Nil
  BY <1>1, <1>3, RecordsAre
<1>12. PICK own \in TaskRecords :
         /\ own = Bump(Applied(t, a, u)) /\ own # Nil /\ own \in Files
         /\ own.birth = t.birth /\ own.owner = Owner(t, a, u) /\ Later(t, own)
         /\ own.blocks = t.blocks \cup u.blocks /\ own.blockedBy = t.blockedBy \cup u.blockedBy
  BY <1>2, <1>5, <1>11, UpdatedIs, RecordsAre DEF Files
<1>13. PICK named \in BOOLEAN : named = Assigns(u)
  BY DEF Assigns
<1>14. PICK w \in [id : TaskIds, task : Files, assigned : BOOLEAN] :
         /\ w = [Put(i, own) EXCEPT !.assigned = named]
         /\ w.id = i /\ w.task = own /\ w.assigned = named
  <2>1. [Put(i, own) EXCEPT !.assigned = named] = [id |-> i, task |-> own, assigned |-> named]
    BY DEF Put
  <2>2. [id |-> i, task |-> own, assigned |-> named]
          \in [id : TaskIds, task : Files, assigned : BOOLEAN]
    BY <1>12
  <2> QED
    BY <2>1, <2>2
<1>15. writes' = s \o <<w>>
  <2>1. CASE Touches(t, a, u)
    BY <1>2, <1>4, <1>7, <1>9, <1>11, <1>12, <1>13, <1>14, <2>1, Zenon DEF UpdateWrites
  <2>2. CASE ~Touches(t, a, u)
    <3>1. D = {}
      BY <1>4, <2>2 DEF Touches
    <3>2. DOMAIN s = {} /\ s \in Seq([id : TaskIds, task : Files, assigned : BOOLEAN])
      BY <1>7, <1>10, <3>1 DEF Writes
    <3>3. s = << >>
      BY <3>2
    <3>4. writes' = s \o << >>
      BY <1>2, <1>4, <1>7, <1>9, <1>11, <2>2, Zenon DEF UpdateWrites
    <3> QED
      BY <1>2, <3>3, <3>4
  <2> QED
    BY <2>1, <2>2
<1>16. /\ writes' \in Seq([id : TaskIds, task : Files, assigned : BOOLEAN])
       /\ writes' # << >>
       /\ \A k \in DOMAIN writes' :
            \/ writes'[k] = w
            \/ /\ writes'[k].id \in D /\ writes'[k].task = changed[writes'[k].id]
               /\ writes'[k].assigned = FALSE
       /\ \A r \in D \cup {i} : \E k \in DOMAIN writes' : writes'[k].id = r
  <2>1. DOMAIN changed = D
    BY <1>7
  <2>2. WritesAlso(writes', changed, w)
    BY <1>10, <1>15, AndThen
  <2> QED
    BY <1>14, <2>1, <2>2 DEF WritesAlso
<1>17. PICK board : board = [r \in TaskIds |->
                               IF r = i THEN own ELSE IF r \in D THEN changed[r] ELSE tasks[r]]
  OBVIOUS
<1>18. /\ board \in [TaskIds -> Files] /\ board[i] = own
       /\ \A r \in D : board[r] = changed[r]
       /\ \A r \in TaskIds : r # i /\ r \notin D => board[r] = tasks[r]
  <2>1. \A r \in TaskIds :
          (IF r = i THEN own ELSE IF r \in D THEN changed[r] ELSE tasks[r]) \in Files
    BY <1>3, <1>8, <1>12
  <2> QED
    BY <1>4, <1>17, <2>1
<1>19. \A k \in DOMAIN writes' : board[writes'[k].id] = writes'[k].task
  BY <1>14, <1>16, <1>18, Zenon
<1>20. \A r \in TaskIds : board[r] = tasks[r] \/ \E k \in DOMAIN writes' : writes'[k].id = r
  BY <1>16, <1>18, Zenon
<1>21. ASSUME failures = 0 PROVE Paired(board)
  <2>1. \A x, y \in TaskIds : tasks[x] # Nil =>
          /\ y \in tasks[x].blocks \cup tasks[x].blockedBy => x # y /\ tasks[y] # Nil
          /\ tasks[y] # Nil => (y \in tasks[x].blocks <=> x \in tasks[y].blockedBy)
    BY <1>2, <1>21, BoardAtRest, Zenon DEF Paired
  <2>2. \A r \in TaskIds : board[r] # Nil <=> tasks[r] # Nil
    BY <1>6, <1>8, <1>11, <1>12, <1>18
  <2>3. \A r \in TaskIds : r # i =>
          \A y \in TaskIds :
            /\ y \in board[r].blockedBy <=> y \in tasks[r].blockedBy \/ (y = i /\ r \in u.blocks)
            /\ y \in board[r].blocks <=> y \in tasks[r].blocks \/ (y = i /\ r \in u.blockedBy)
    <3> SUFFICES ASSUME NEW r \in TaskIds, r # i, NEW y \in TaskIds
                 PROVE  /\ y \in board[r].blockedBy <=>
                             y \in tasks[r].blockedBy \/ (y = i /\ r \in u.blocks)
                        /\ y \in board[r].blocks <=>
                             y \in tasks[r].blocks \/ (y = i /\ r \in u.blockedBy)
      OBVIOUS
    <3>1. CASE r \in D
      <4>1. board[r] = Related(i, u, r) /\ tasks[r] \in TaskRecords
        BY <1>6, <1>7, <1>18, <3>1
      <4>2. IsRelated(board[r], i, u, r)
        BY <4>1, RelatedIs
      <4> QED
        BY <4>2 DEF IsRelated
    <3>2. CASE r \notin D
      BY <1>4, <1>18, <3>2
    <3> QED
      BY <3>1, <3>2
  <2>4. /\ board[i].blocks = tasks[i].blocks \cup u.blocks
        /\ board[i].blockedBy = tasks[i].blockedBy \cup u.blockedBy
    BY <1>11, <1>12, <1>18
  <2>5. ASSUME NEW x \in TaskIds, NEW y \in TaskIds, tasks[x] # Nil
        PROVE  /\ y \in board[x].blocks \cup board[x].blockedBy => x # y /\ tasks[y] # Nil
               /\ tasks[y] # Nil => (y \in board[x].blocks <=> x \in board[y].blockedBy)
    <3>1. CASE x = i /\ y = i
      BY <1>4, <2>1, <2>4, <2>5, <3>1
    <3>2. CASE x = i /\ y # i
      BY <1>4, <1>6, <2>1, <2>3, <2>4, <2>5, <3>2
    <3>3. CASE x # i /\ y = i
      BY <1>1, <1>4, <2>1, <2>3, <2>4, <2>5, <3>3
    <3>4. CASE x # i /\ y # i
      BY <2>1, <2>3, <2>5, <3>4
    <3> QED
      BY <3>1, <3>2, <3>3, <3>4
  <2> QED
    BY <2>2, <2>5 DEF Paired
<1>22. ASSUME NEW k \in DOMAIN writes' PROVE Sound(writes[k])'
  <2>1. PICK v : v = writes'[k]
    OBVIOUS
  <2>2. CASE v = w
    <3>1. i \notin own.blocks \cup own.blockedBy
      <4>1. i \notin t.blocks \cup t.blockedBy
        BY <1>1, <1>11 DEF BoardInv, TypesHold, Present
      <4> QED
        BY <1>4, <1>12, <4>1
    <3>2. ~named /\ own.owner # t.owner => {t.owner, own.owner} \subseteq {Nil, a}
      <4>1. t.owner \in Agents \cup {Nil}
        BY DEF TaskRecords
      <4> QED
        BY <1>2, <1>11, <1>12, <1>13, <4>1, OwnerIs
    <3>3. Sound(w)'
      BY <1>2, <1>11, <1>12, <1>14, <3>1, <3>2 DEF Sound, Later
    <3> QED
      BY <2>1, <2>2, <3>3
  <2>3. CASE v # w
    <3>1. PICK r \in D : v.id = r /\ v.task = Related(i, u, r)
      BY <1>7, <1>16, <2>1, <2>3
    <3>2. r \notin v.task.blocks \cup v.task.blockedBy
      <4>1. r \notin tasks[r].blocks \cup tasks[r].blockedBy
        BY <1>6 DEF BoardInv, TypesHold, Present
      <4>2. IsRelated(v.task, i, u, r)
        BY <1>6, <3>1, RelatedIs
      <4> QED
        BY <1>4, <4>1, <4>2 DEF IsRelated
    <3>3. /\ tasks[r] # Nil /\ v.task.birth = tasks[r].birth /\ Later(tasks[r], v.task)
          /\ v.task.owner = tasks[r].owner
      <4>1. IsRelated(v.task, i, u, r)
        BY <1>6, <3>1, RelatedIs
      <4> QED
        BY <1>6, <4>1 DEF IsRelated
    <3>4. Sound(v)'
      BY <1>2, <3>1, <3>2, <3>3 DEF Sound, Later
    <3> QED
      BY <2>1, <3>4
  <2> QED
    BY <2>2, <2>3
<1> QED
  BY <1>2, <1>16, <1>18, <1>19, <1>20, <1>21, <1>22, ChangeStarts

-----------------------------------------------------------------------------
(* The theorems.                                                           *)

\* Every step keeps the invariant.
LEMMA BoardStep == BoardInv /\ [BoardNext]_boardVars => BoardInv'
<1> SUFFICES ASSUME BoardInv, [BoardNext]_boardVars PROVE BoardInv'
  OBVIOUS
<1>1. CASE \E a \in Agents, i \in TaskIds : GetTask(a, i)
  BY <1>1, GetStep
<1>2. CASE CreateTask
  BY <1>2, CreateStep
<1>3. CASE \E a \in Agents, u \in Updates, checked \in BOOLEAN : UpdateTask(a, u, checked)
  BY <1>3, UpdateStep
<1>4. CASE \E a \in Agents : DeleteTask(a)
  BY <1>4, DeleteStep
<1>5. CASE WriteFile
  BY <1>5, WriteStep
<1>6. CASE WriteFails
  BY <1>6, FailStep
<1>7. CASE UNCHANGED boardVars
  <2>1. UNCHANGED <<tasks, lock, writes, seen, births, failures>>
    BY <1>7 DEF boardVars
  <2>2. TypesHold' /\ SeenInv'
    BY <2>1 DEF BoardInv, TypesHold, SeenInv, Present, Later
  <2>3. ChangeInv'
    <3>1. \A k \in DOMAIN writes' : Sound(writes[k])'
      BY <2>1 DEF BoardInv, ChangeInv, Sound, Later
    <3>2. PICK board \in [TaskIds -> Files] : Heading(board)
      BY DEF BoardInv, ChangeInv
    <3>3. Heading(board)'
      BY <2>1, <3>2 DEF Heading, Paired
    <3> QED
      BY <3>1, <3>2, <3>3 DEF ChangeInv
  <2> QED
    BY <2>2, <2>3 DEF BoardInv
<1> QED
  BY <1>1, <1>2, <1>3, <1>4, <1>5, <1>6, <1>7 DEF BoardNext

\* The invariant of the task list holds always: what the holder of the lock has
\* left to write leads from the directory to a board whose edges match.
THEOREM BoardInvariant == BoardSpec => []BoardInv
<1>1. BoardInit => BoardInv
  BY BoardStarts
<1>2. BoardInv /\ [BoardNext]_boardVars => BoardInv'
  BY BoardStep
<1> QED
  BY <1>1, <1>2, PTL DEF BoardSpec

\* The edges of the dependency graph match between changes: task_update and the
\* deletion rewrite both ends of every edge, whatever order the files are
\* written in and whoever holds the lock in turn.
THEOREM EdgesMatch == BoardSpec => []EdgesPaired
<1>1. BoardInv => EdgesPaired
  <2> SUFFICES ASSUME BoardInv, lock = Nil, failures = 0, NEW i \in Present
               PROVE  /\ tasks[i].blocks \cup tasks[i].blockedBy \subseteq Present \ {i}
                      /\ \A j \in Present : j \in tasks[i].blocks <=> i \in tasks[j].blockedBy
    BY DEF EdgesPaired
  <2>1. Paired(tasks)
    BY BoardAtRest
  <2>2. i \in TaskIds /\ tasks[i] # Nil /\ tasks[i] \in TaskRecords
    BY RecordsAre DEF BoardInv, TypesHold, Present
  <2>3. tasks[i].blocks \subseteq TaskIds /\ tasks[i].blockedBy \subseteq TaskIds
    BY <2>2 DEF TaskRecords
  <2> QED
    BY <2>1, <2>2, <2>3 DEF Paired, Present
<1> QED
  BY <1>1, BoardInvariant, PTL

\* No change takes a task from its owner, or gives it to an agent that did not ask,
\* unless it names the owner: the owner that apply_owner_claim_update compared is
\* still the owner when the file is written.
THEOREM OwnersKept == BoardSpec => ClaimsHold
<1> DEFINE Kept == \A i \in TaskIds :
                     /\ tasks[i] # Nil /\ tasks'[i] # Nil
                     /\ tasks[i].owner # tasks'[i].owner
                     /\ ~Head(writes).assigned
                     => /\ tasks[i].owner \in {Nil, lock}
                        /\ tasks'[i].owner \in {Nil, lock}
<1>1. BoardInv /\ [BoardNext]_boardVars => [Kept]_tasks
  <2> SUFFICES ASSUME BoardInv, BoardNext, tasks' # tasks,
                      NEW i \in TaskIds, tasks[i] # Nil, tasks'[i] # Nil,
                      tasks[i].owner # tasks'[i].owner, ~Head(writes).assigned
               PROVE  /\ tasks[i].owner \in {Nil, lock}
                      /\ tasks'[i].owner \in {Nil, lock}
    BY DEF boardVars
  <2>1. tasks \in [TaskIds -> Files]
    BY DEF BoardInv, TypesHold
  <2>2. CASE CreateTask
    <3>1. PICK n \in TaskIds : n = NextId /\ n \notin Present
      BY <2>2, NextIdIsFree DEF CreateTask, BoardInv
    <3>2. tasks' = [tasks EXCEPT ![n] = NewTask(births + 1)]
      BY <2>2, <3>1 DEF CreateTask
    <3>3. i # n
      BY <3>1 DEF Present
    <3> QED
      BY <2>1, <3>2, <3>3
  <2>3. CASE WriteFile
    <3>1. PICK w : w = Head(writes) /\ w \in [id : TaskIds, task : Files, assigned : BOOLEAN] /\ Sound(w)
      <4> DEFINE W == [id : TaskIds, task : Files, assigned : BOOLEAN]
      <4>1. writes \in Seq(W) /\ writes # << >>
        BY <2>3 DEF WriteFile, BoardInv, TypesHold
      <4>2. \A k \in DOMAIN writes : Sound(writes[k])
        BY DEF BoardInv, ChangeInv
      <4> HIDE DEF W
      <4>3. Head(writes) \in W /\ Head(writes) = writes[1] /\ 1 \in DOMAIN writes
        BY <4>1
      <4> QED
        BY <4>2, <4>3 DEF W
    <3>2. tasks' = [tasks EXCEPT ![w.id] = w.task]
      BY <2>3, <3>1 DEF WriteFile
    <3>3. i = w.id /\ tasks'[i] = w.task
      BY <2>1, <3>1, <3>2
    <3> QED
      BY <3>1, <3>3 DEF Sound
  <2> QED
    BY <2>2, <2>3 DEF BoardNext, GetTask, UpdateTask, DeleteTask, WriteFails
<1> QED
  BY <1>1, BoardInvariant, PTL DEF BoardSpec, ClaimsHold

\* An update accepted with the revision its caller saw finds the task its caller
\* saw, apart from references to deleted tasks: every change of anything else
\* moves the revision that update_task compares.
THEOREM CheckedIsSeen == BoardSpec => CheckedIsUnchanged
<1> DEFINE Same(a) ==
      LET saw == seen[a].task
          had == tasks[seen[a].id]
      IN saw.birth = had.birth =>
           /\ saw.owner = had.owner /\ saw.status = had.status
           /\ had.blocks \subseteq saw.blocks
           /\ had.blockedBy \subseteq saw.blockedBy
<1>1. BoardInv => \A a \in Agents : (\E u \in Updates : UpdateTask(a, u, TRUE)) => Same(a)
  <2> SUFFICES ASSUME BoardInv, NEW a \in Agents, NEW u \in Updates, UpdateTask(a, u, TRUE)
               PROVE  Same(a)
    OBVIOUS
  <2>1. /\ seen[a] # Nil /\ seen[a].id \in Present
        /\ tasks[seen[a].id].revision = seen[a].task.revision
    BY Zenon DEF UpdateTask
  <2>2. Later(seen[a].task, tasks[seen[a].id])
    BY <2>1 DEF BoardInv, SeenInv, Present
  <2> QED
    BY <2>1, <2>2 DEF Later
<1>2. BoardInv /\ [BoardNext]_boardVars =>
        [\A a \in Agents : a = lock' /\ (\E u \in Updates : UpdateTask(a, u, TRUE)) => Same(a)]_boardVars
  BY <1>1
<1> QED
  BY <1>2, BoardInvariant, PTL DEF BoardSpec, CheckedIsUnchanged

-----------------------------------------------------------------------------
(* Goals.                                                                  *)
-----------------------------------------------------------------------------
(* The invariant.                                                          *)

Stores ==
  [goal : GoalRecords \cup {Absent}, deferred : BOOLEAN, admission : Nat,
   membership : Nat \ {0}, bound : Threads \cup {Absent}]
Queries ==
  [why : {"user", "automatic", "requested"},
   state : {"running", "stopping", "ok", "failed", "panicked"},
   asks : BOOLEAN, member : Nat, birth : Nat]
Modes == {"automatic", "requested"}
Tickets == [token : Nat, birth : Birth]
Requests == [ticket : Tickets, mode : Modes]
Restores ==
  [thread : Threads, state : {"loading", "loaded", "unreadable"}, row : Rows \cup {Absent}]
Tuis ==
  [pending : [ticket : Tickets, enqueued : BOOLEAN, mode : Modes] \cup {Absent},
   offer : [ticket : Tickets] \cup {Absent},
   dialog : [kind : {"edit", "replace", "resume"}, ticket : Tickets] \cup {Absent},
   asking : BOOLEAN, followUp : BOOLEAN, agent : BOOLEAN,
   restore : Restores \cup {Absent}]

GoalTypes ==
  /\ store \in Stores
  /\ rows \in [Threads -> Rows \cup {Absent}]
  /\ query \in Queries \cup {Absent}
  /\ tui \in Tuis
  /\ port \in Seq(Requests)
  /\ halted \in SUBSET Birth
  /\ earned \in [Birth -> Nat]
  /\ created \in Nat /\ queries \in Nat /\ events \in Nat

\* Goals, in memory and in rows, and what they were charged.  A goal has one row.
LedgerInv ==
  /\ store.bound = Absent => store.goal = Absent
  /\ \A t \in Threads : rows[t] # Absent => rows[t].goal.birth <= created
  /\ \A t, o \in Threads :
       t # o /\ rows[t] # Absent /\ rows[o] # Absent => rows[t].goal.birth # rows[o].goal.birth
  /\ \A b \in Birth : b > created => earned[b] = 0
  /\ GoalSound

\* The query that runs is a member of the goal exactly when it began toward it.
LinkInv ==
  query # Absent =>
    /\ query.birth <= created
    /\ store.goal # Absent =>
         (query.member = store.membership <=> query.birth = store.goal.birth)

\* A row that was loaded is still the row when the restore is finished.
RestoreInv ==
  tui.restore # Absent =>
    /\ query = Absent
    /\ tui.restore.state = "loaded" => tui.restore.row = rows[tui.restore.thread]

\* A request that would be admitted was made for the goal that is there.
TicketInv ==
  \A h \in Holders : Matches(h) => store.goal # Absent /\ h.ticket.birth = store.goal.birth

\* A goal the user stopped is deferred, in memory and in its row.
HaltInv ==
  /\ \A b \in halted : b <= created
  /\ store.goal # Absent /\ store.goal.birth \in halted => store.deferred
  /\ \A t \in Threads : rows[t] # Absent /\ rows[t].goal.birth \in halted => rows[t].deferred

GoalInv == GoalTypes /\ LedgerInv /\ LinkInv /\ RestoreInv /\ TicketInv /\ HaltInv

-----------------------------------------------------------------------------
(* The operators.                                                          *)

\* A fresh pointer is unlike those that are held: there is one more to choose
\* from than there are.
LEMMA FreshIs ==
  ASSUME NEW held, IsFiniteSet(held)
  PROVE  Fresh(held) \in Nat \ {0} /\ Fresh(held) \notin held
<1>1. PICK c \in Nat : c = Cardinality(held)
  BY FS_CardinalityType
<1>2. \E n \in 1..(c + 1) : n \notin held
  <2> SUFFICES ASSUME 1..(c + 1) \subseteq held PROVE FALSE
    OBVIOUS
  <2>1. Cardinality(1..(c + 1)) <= c
    BY <1>1, FS_Subset
  <2>2. Cardinality(1..(c + 1)) = c + 1
    BY <1>1, FS_Interval
  <2> QED
    BY <1>1, <2>1, <2>2
<1>3. Fresh(held) \in 1..(c + 1) /\ Fresh(held) \notin held
  BY <1>1, <1>2, Zenon DEF Fresh
<1> QED
  BY <1>1, <1>3

\* Finitely many requests are under way.
LEMMA TokensAreFinite ==
  ASSUME GoalTypes
  PROVE  IsFiniteSet(HeldTokens)
<1>1. IsFiniteSet(Range(port))
  <2>1. PICK n \in Nat : n = Len(port) /\ DOMAIN port = 1..n
    BY DEF GoalTypes
  <2>2. IsFiniteSet(1..n)
    BY FS_Interval
  <2>3. port \in Surjection(1..n, Range(port))
    BY <2>1 DEF Surjection, Range, GoalTypes
  <2> QED
    BY <2>2, <2>3, FS_Surjection
<1>2. IsFiniteSet({tui.pending, tui.offer, tui.dialog})
  <2>1. IsFiniteSet({tui.pending}) /\ IsFiniteSet({tui.offer}) /\ IsFiniteSet({tui.dialog})
    BY FS_Singleton
  <2>2. IsFiniteSet({tui.pending} \cup {tui.offer})
    BY <2>1, FS_Union
  <2>3. IsFiniteSet(({tui.pending} \cup {tui.offer}) \cup {tui.dialog})
    BY <2>1, <2>2, FS_Union
  <2>4. {tui.pending, tui.offer, tui.dialog} = ({tui.pending} \cup {tui.offer}) \cup {tui.dialog}
    OBVIOUS
  <2> QED
    BY <2>3, <2>4
<1>3. IsFiniteSet({tui.pending, tui.offer, tui.dialog} \ {Absent})
  BY <1>2, FS_Subset
<1>4. IsFiniteSet(Holders)
  BY <1>1, <1>3, FS_Union DEF Holders
<1>5. PICK f : f = [h \in Holders |-> h.ticket.token]
  OBVIOUS
<1>6. f \in Surjection(Holders, HeldTokens)
  BY <1>5 DEF Surjection, HeldTokens
<1> QED
  BY <1>4, <1>6, FS_Surjection

\* Renewed changes the admission, to one that no request has.
LEMMA RenewedIs ==
  ASSUME GoalTypes, NEW s \in Stores
  PROVE  /\ Renewed(s) \in Stores
         /\ Renewed(s).admission \notin HeldTokens
         /\ Renewed(s).goal = s.goal /\ Renewed(s).deferred = s.deferred
         /\ Renewed(s).membership = s.membership /\ Renewed(s).bound = s.bound
<1>1. PICK n \in Nat : n = Fresh(HeldTokens) /\ n \notin HeldTokens
  BY TokensAreFinite, FreshIs
<1>2. PICK r : r = [s EXCEPT !.admission = n]
  OBVIOUS
<1>3. Renewed(s) = r
  BY <1>1, <1>2, Zenon DEF Renewed
<1>4. r \in Stores /\ r.admission = n /\ r.goal = s.goal /\ r.deferred = s.deferred
        /\ r.membership = s.membership /\ r.bound = s.bound
  BY <1>2 DEF Stores
<1> QED
  BY <1>1, <1>3, <1>4

\* Detached changes the membership, to one that the query does not have.
LEMMA DetachedIs ==
  ASSUME GoalTypes, NEW s \in Stores
  PROVE  /\ Detached(s) \in Stores
         /\ query # Absent => Detached(s).membership # query.member
         /\ Detached(s).goal = s.goal /\ Detached(s).deferred = s.deferred
         /\ Detached(s).admission = s.admission /\ Detached(s).bound = s.bound
<1>1. PICK held : held = IF query = Absent THEN {} ELSE {query.member}
  OBVIOUS
<1>2. IsFiniteSet(held)
  BY <1>1, FS_EmptySet, FS_Singleton
<1>3. PICK n \in Nat \ {0} : n = Fresh(held) /\ n \notin held
  BY <1>2, FreshIs
<1>4. PICK r : r = [s EXCEPT !.membership = n]
  OBVIOUS
<1>5. Detached(s) = r
  BY <1>1, <1>3, <1>4, Zenon DEF Detached
<1>6. r \in Stores /\ r.membership = n /\ r.goal = s.goal /\ r.deferred = s.deferred
        /\ r.admission = s.admission /\ r.bound = s.bound
  BY <1>4 DEF Stores
<1> QED
  BY <1>1, <1>3, <1>5, <1>6

\* A goal whose budget is checked is the same goal.
LEMMA BudgetCheckedIs ==
  ASSUME NEW g \in GoalRecords
  PROVE  /\ BudgetChecked(g) \in GoalRecords
         /\ BudgetChecked(g).birth = g.birth /\ BudgetChecked(g).used = g.used
         /\ BudgetChecked(g).id = g.id /\ BudgetChecked(g).status \in {g.status, "BudgetLimited"}
         /\ BudgetChecked(g).status # "BudgetLimited" => ~Exhausted(BudgetChecked(g))
<1>1. CASE Exhausted(g)
  <2>1. BudgetChecked(g) = [g EXCEPT !.status = "BudgetLimited"]
    BY <1>1 DEF BudgetChecked
  <2> QED
    BY <2>1 DEF GoalRecords, GoalStatuses
<1>2. CASE ~Exhausted(g)
  <2>1. BudgetChecked(g) = g
    BY <1>2 DEF BudgetChecked
  <2> QED
    BY <1>2, <2>1
<1> QED
  BY <1>1, <1>2

\* What m is when it is the store after its goal became n.
IsMutated(m, n) ==
  /\ m \in Stores /\ m.goal = n /\ m.bound = store.bound
  /\ n = store.goal => m = store
  /\ n # store.goal => m.admission \notin HeldTokens
  /\ SameGoal(store.goal, n) =>
       m.membership = store.membership /\ m.deferred = store.deferred
  /\ ~SameGoal(store.goal, n) /\ n # store.goal =>
       m.deferred = FALSE /\ (query # Absent => m.membership # query.member)

\* Mutated keeps a deferral and the members of the query only for the same goal.
LEMMA MutatedIs ==
  ASSUME GoalTypes, NEW n \in GoalRecords \cup {Absent}
  PROVE  IsMutated(Mutated(store, n), n)
<1>1. store \in Stores
  BY DEF GoalTypes
<1>2. CASE n = store.goal
  <2>1. Mutated(store, n) = store
    BY <1>2, Zenon DEF Mutated
  <2>2. store.goal # Absent => SameGoal(store.goal, n)
    BY <1>2 DEF SameGoal
  <2> QED
    BY <1>1, <1>2, <2>1, Zenon DEF IsMutated
<1>3. CASE n # store.goal
  <2>1. PICK r \in Stores : r = Renewed(store)
    BY <1>1, RenewedIs
  <2>2. r.admission \notin HeldTokens /\ r.deferred = store.deferred
          /\ r.membership = store.membership /\ r.bound = store.bound
    BY <1>1, <2>1, RenewedIs
  <2>3. PICK same \in BOOLEAN : same <=> SameGoal(store.goal, n)
    BY DEF SameGoal
  <2>4. PICK d \in BOOLEAN : d = (r.deferred /\ SameGoal(store.goal, n))
    OBVIOUS
  <2>5. PICK k : k = [r EXCEPT !.goal = n, !.deferred = d]
    OBVIOUS
  <2>6. k = [Renewed(store) EXCEPT !.goal = n, !.deferred = @ /\ SameGoal(store.goal, n)]
    BY <2>1, <2>4, <2>5, Zenon
  <2>7. k \in Stores /\ k.goal = n /\ k.deferred = d /\ k.admission = r.admission
          /\ k.membership = r.membership /\ k.bound = r.bound
    BY <2>5 DEF Stores
  <2>8. CASE SameGoal(store.goal, n)
    <3>1. Mutated(store, n) = k
      BY <1>3, <2>6, <2>8, Zenon DEF Mutated
    <3>2. d = store.deferred
      <4>1. r.deferred \in BOOLEAN
        BY DEF Stores
      <4>2. d <=> r.deferred
        BY <2>4, <2>8, Zenon
      <4>3. d = r.deferred
        BY <4>1, <4>2
      <4> QED
        BY <2>2, <4>3
    <3> QED
      BY <1>3, <2>2, <2>7, <2>8, <3>1, <3>2, Zenon DEF IsMutated
  <2>9. CASE ~SameGoal(store.goal, n)
    <3>1. Mutated(store, n) = Detached(k)
      BY <1>3, <2>6, <2>9, Zenon DEF Mutated
    <3>2. d = FALSE
      BY <2>4, <2>9, Zenon
    <3>3. PICK m \in Stores : m = Detached(k)
      BY <2>7, DetachedIs
    <3>4. /\ query # Absent => m.membership # query.member
          /\ m.goal = n /\ m.deferred = FALSE /\ m.admission = r.admission /\ m.bound = r.bound
      BY <2>7, <3>2, <3>3, DetachedIs
    <3> QED
      BY <1>3, <2>2, <2>9, <3>1, <3>3, <3>4, Zenon DEF IsMutated
  <2> QED
    BY <2>8, <2>9
<1> QED
  BY <1>2, <1>3

\* A store that may follow the one that is there: it has no goal, or the same
\* one with the members it has, or the next goal and no member; and requests
\* made for the goal fit it only if it has that goal.
Follows(s) ==
  /\ s \in Stores /\ s.bound = store.bound
  /\ \/ s.admission \notin HeldTokens
     \/ /\ s.admission = store.admission
        /\ store.goal # Absent => s.goal # Absent /\ s.goal.birth = store.goal.birth
  /\ s.goal # Absent =>
       \/ /\ store.goal # Absent
          /\ s.goal.birth = store.goal.birth
          /\ s.membership = store.membership
       \/ /\ s.goal.birth = created + 1
          /\ query # Absent => s.membership # query.member

\* The same goal with another status, and no goal, may follow.
LEMMA ChangedFollows ==
  ASSUME GoalTypes, NEW n \in GoalRecords \cup {Absent},
         n # Absent => /\ store.goal # Absent
                       /\ n.birth = store.goal.birth /\ n.id = store.goal.id
                       /\ ~(store.goal.status = "Complete" /\ n.status = "Pursuing")
  PROVE  /\ Follows(Mutated(store, n)) /\ Mutated(store, n).goal = n
         /\ n # Absent => Mutated(store, n).deferred = store.deferred
<1>1. PICK m : m = Mutated(store, n) /\ IsMutated(m, n)
  BY MutatedIs
<1>2. n # Absent => SameGoal(store.goal, n)
  BY DEF SameGoal
<1>3. Follows(m)
  BY <1>1, <1>2 DEF IsMutated, Follows
<1> QED
  BY <1>1, <1>2, <1>3, Zenon DEF IsMutated

\* A new goal may follow a goal that is complete, or none.
LEMMA NewFollows ==
  ASSUME GoalTypes, ~UnlessFinished, created < MaxGoals,
         NEW id \in GoalIds, NEW budget \in Budgets
  PROVE  /\ NewGoal(id, budget) \in GoalRecords
         /\ NewGoal(id, budget).birth = created + 1 /\ NewGoal(id, budget).used = 0
         /\ Follows(Mutated(store, NewGoal(id, budget)))
         /\ Mutated(store, NewGoal(id, budget)).goal = NewGoal(id, budget)
         /\ Mutated(store, NewGoal(id, budget)).deferred = FALSE
<1>1. PICK n \in GoalRecords : /\ n = NewGoal(id, budget) /\ n.birth = created + 1
                              /\ n.used = 0 /\ n.status = "Pursuing"
  <2>1. created + 1 \in Birth /\ budget \in Nat
    BY GoalAssumption DEF Birth, GoalTypes
  <2>2. NewGoal(id, budget) \in GoalRecords
    BY <2>1 DEF NewGoal, GoalRecords, GoalStatuses
  <2> QED
    BY <2>2 DEF NewGoal
<1>2. n # Absent
  BY GoalAssumption
<1>3. ~SameGoal(store.goal, n) /\ n # store.goal
  BY <1>1, <1>2 DEF SameGoal, UnlessFinished
<1>4. IsMutated(Mutated(store, n), n)
  BY MutatedIs
<1>5. Follows(Mutated(store, n))
  BY <1>1, <1>3, <1>4 DEF IsMutated, Follows
<1> QED
  BY <1>1, <1>3, <1>4, <1>5 DEF IsMutated

-----------------------------------------------------------------------------
(* The parts of the invariant.                                             *)

\* The two ends of a write: the store that was asked for and its row, or the
\* other one and no row.
LEMMA SaveIs ==
  ASSUME NEW stores \in BOOLEAN, NEW s, NEW otherwise, NEW ok \in BOOLEAN,
         Save(stores, s, otherwise, ok), events \in Nat
  PROVE  /\ \/ /\ ok /\ store' = s /\ stores /\ store.bound # Absent
               /\ rows' = [rows EXCEPT ![store.bound] = Row(s)]
            \/ ok /\ store' = s /\ ~stores /\ rows' = rows
            \/ ~ok /\ store' = otherwise /\ stores /\ rows' = rows
         /\ events' \in Nat
<1>1. CASE ok /\ stores
  BY <1>1 DEF Save
<1>2. CASE ok /\ ~stores
  BY <1>2 DEF Save
<1>3. CASE ~ok
  BY <1>3 DEF Save
<1> QED
  BY <1>1, <1>2, <1>3

\* The row of a store with a goal says what the store says.
LEMMA RowIs ==
  ASSUME NEW s \in Stores
  PROVE  /\ s.goal = Absent => Row(s) = Absent
         /\ s.goal # Absent => /\ Row(s) \in Rows
                               /\ Row(s) # Absent
                               /\ Row(s).goal = s.goal /\ Row(s).deferred = s.deferred
         /\ Row(s) \in Rows \cup {Absent}
<1>1. CASE s.goal = Absent
  BY <1>1 DEF Row
<1>2. CASE s.goal # Absent
  <2>1. Row(s) = [goal |-> s.goal, deferred |-> s.deferred]
    BY <1>2 DEF Row
  <2>2. s.goal \in GoalRecords /\ s.deferred \in BOOLEAN
    BY <1>2 DEF Stores
  <2>3. Row(s) \in Rows /\ Row(s).goal = s.goal /\ Row(s).deferred = s.deferred
    BY <2>1, <2>2 DEF Rows
  <2> QED
    BY <1>2, <2>3, GoalAssumption
<1> QED
  BY <1>1, <1>2

\* How rows follow a store: its row is written, or the store says what it said.
Written ==
  \/ /\ store.bound # Absent
     /\ rows' = [rows EXCEPT ![store.bound] = Row(store')]
  \/ rows' = rows /\ store'.goal = store.goal /\ store'.deferred = store.deferred

\* The ledger stays right when the goal that is charged is the one that is
\* written.
LEMMA LedgerStep ==
  ASSUME GoalTypes, LedgerInv, Written,
         store' \in Stores, store'.bound = store.bound,
         created' \in Nat, created' >= created,
         store'.goal # Absent =>
           /\ store'.goal.used = earned'[store'.goal.birth]
           /\ \/ store.goal # Absent /\ store'.goal.birth = store.goal.birth
              \/ store'.goal.birth = created + 1 /\ created' = created + 1,
         earned' \in [Birth -> Nat],
         \A b \in Birth : earned'[b] # earned[b] =>
           store'.goal # Absent /\ b = store'.goal.birth
  PROVE  LedgerInv' /\ rows' \in [Threads -> Rows \cup {Absent}]
<1>1. /\ store \in Stores /\ rows \in [Threads -> Rows \cup {Absent}]
      /\ created \in Nat /\ earned \in [Birth -> Nat]
  BY DEF GoalTypes
<1>2. store.goal # Absent =>
        /\ store.goal.birth <= created /\ store.bound \in Threads /\ store.bound # Absent
        /\ rows[store.bound] # Absent /\ rows[store.bound].goal = store.goal
  <2> SUFFICES ASSUME store.goal # Absent
               PROVE  /\ store.goal.birth <= created
                      /\ store.bound \in Threads /\ store.bound # Absent
                      /\ rows[store.bound] # Absent /\ rows[store.bound].goal = store.goal
    OBVIOUS
  <2>1. store.bound # Absent /\ store.bound \in Threads
    BY <1>1 DEF LedgerInv, Stores
  <2>2. rows[store.bound] = Row(store)
    BY <2>1 DEF LedgerInv, GoalSound
  <2>3. Row(store) # Absent /\ Row(store).goal = store.goal
    BY <1>1, RowIs
  <2> QED
    BY <2>1, <2>2, <2>3 DEF LedgerInv
<1>3. store'.goal # Absent => /\ store'.goal \in GoalRecords /\ store'.goal.birth \in Birth
                             /\ store'.goal.birth <= created'
  <2> SUFFICES ASSUME store'.goal # Absent
               PROVE  /\ store'.goal \in GoalRecords /\ store'.goal.birth \in Birth
                      /\ store'.goal.birth <= created'
    OBVIOUS
  <2>1. store'.goal \in GoalRecords /\ store'.goal.birth \in Birth
    BY DEF Stores, GoalRecords
  <2>2. store'.goal.birth \in Nat
    BY <2>1, GoalAssumption DEF Birth
  <2> QED
    BY <1>1, <1>2, <2>1, <2>2
<1>4. PICK r : r = Row(store')
  OBVIOUS
<1>5. /\ r \in Rows \cup {Absent}
      /\ r # Absent <=> store'.goal # Absent
      /\ r # Absent => r.goal = store'.goal
  BY <1>4, RowIs
<1>6. rows' \in [Threads -> Rows \cup {Absent}]
  BY <1>1, <1>4, <1>5 DEF Written
<1>7. \A t \in Threads : t # store.bound => rows'[t] = rows[t]
  BY <1>1 DEF Written
<1>8. store.bound # Absent => store.bound \in Threads /\ rows'[store.bound] = r
  <2> SUFFICES ASSUME store.bound # Absent PROVE store.bound \in Threads /\ rows'[store.bound] = r
    OBVIOUS
  <2>1. store.bound \in Threads
    BY <1>1 DEF Stores
  <2>2. CASE rows' = [rows EXCEPT ![store.bound] = Row(store')]
    BY <1>1, <1>4, <2>1, <2>2
  <2>3. CASE rows' = rows /\ store'.goal = store.goal /\ store'.deferred = store.deferred
    <3>1. Row(store') = Row(store)
      BY <2>3 DEF Row
    <3> QED
      BY <1>4, <2>1, <2>3, <3>1 DEF LedgerInv, GoalSound
  <2> QED
    BY <2>1, <2>2, <2>3 DEF Written
<1>9. store.bound = Absent => store'.goal = Absent
  BY DEF Written, LedgerInv
\* The row of another thread is of another goal.
<1>10. ASSUME NEW t \in Threads, t # store.bound, rows[t] # Absent, store'.goal # Absent
       PROVE  rows[t].goal.birth # store'.goal.birth
  <2>1. rows[t].goal.birth <= created /\ rows[t].goal.birth \in Nat
    <3>1. rows[t] \in Rows
      BY <1>1, <1>10
    <3>2. rows[t].goal.birth \in Birth
      BY <3>1 DEF Rows, GoalRecords
    <3> QED
      BY <1>10, <3>2, GoalAssumption DEF LedgerInv, Birth
  <2>2. CASE store.goal # Absent /\ store'.goal.birth = store.goal.birth
    BY <1>2, <1>10, <2>2 DEF LedgerInv
  <2>3. CASE store'.goal.birth = created + 1
    BY <1>1, <2>1, <2>3
  <2> QED
    BY <1>10, <2>2, <2>3
<1>11. \A t \in Threads : rows'[t] # Absent =>
         rows'[t].goal.birth <= created' /\ rows'[t].goal.used = earned'[rows'[t].goal.birth]
  <2> SUFFICES ASSUME NEW t \in Threads, rows'[t] # Absent
               PROVE  /\ rows'[t].goal.birth <= created'
                      /\ rows'[t].goal.used = earned'[rows'[t].goal.birth]
    OBVIOUS
  <2>1. CASE t = store.bound
    <3>1. rows'[t] = r /\ r # Absent
      <4>1. store.bound # Absent
        BY <2>1, GoalAssumption
      <4> QED
        BY <1>8, <2>1, <4>1
    <3> QED
      BY <1>3, <1>5, <3>1
  <2>2. CASE t # store.bound
    <3>1. rows'[t] = rows[t] /\ rows[t] # Absent
      BY <1>7, <2>2
    <3>2. rows[t].goal.birth \in Birth
      BY <1>1, <3>1 DEF Rows, GoalRecords
    <3>3. earned'[rows[t].goal.birth] = earned[rows[t].goal.birth]
      BY <1>10, <2>2, <3>1, <3>2
    <3>4. rows[t].goal.birth <= created /\ rows[t].goal.used = earned[rows[t].goal.birth]
      BY <3>1 DEF LedgerInv, GoalSound
    <3>5. rows[t].goal.birth \in Nat
      BY <3>2, GoalAssumption DEF Birth
    <3> QED
      BY <1>1, <3>1, <3>3, <3>4, <3>5
  <2> QED
    BY <2>1, <2>2
<1>12. \A t, o \in Threads :
         t # o /\ rows'[t] # Absent /\ rows'[o] # Absent =>
           rows'[t].goal.birth # rows'[o].goal.birth
  <2>1. ASSUME NEW t \in Threads, t # store.bound, rows'[t] # Absent,
               store.bound \in Threads, rows'[store.bound] # Absent
        PROVE  rows'[t].goal.birth # rows'[store.bound].goal.birth
    <3>1. rows'[t] = rows[t] /\ rows'[store.bound] = r /\ store'.goal # Absent
      <4>1. store.bound # Absent
        BY <2>1, GoalAssumption
      <4> QED
        BY <1>5, <1>7, <1>8, <2>1, <4>1
    <3> QED
      BY <1>5, <1>10, <2>1, <3>1
  <2> SUFFICES ASSUME NEW t \in Threads, NEW o \in Threads,
                      t # o, rows'[t] # Absent, rows'[o] # Absent
               PROVE  rows'[t].goal.birth # rows'[o].goal.birth
    OBVIOUS
  <2>2. CASE t = store.bound
    BY <2>1, <2>2
  <2>3. CASE o = store.bound
    BY <2>1, <2>3
  <2>4. CASE t # store.bound /\ o # store.bound
    <3>1. rows'[t] = rows[t] /\ rows'[o] = rows[o]
      BY <1>7, <2>4
    <3> QED
      BY <3>1 DEF LedgerInv
  <2> QED
    BY <2>2, <2>3, <2>4
<1>13. \A b \in Birth : b > created' => earned'[b] = 0
  <2> SUFFICES ASSUME NEW b \in Birth, b > created' PROVE earned'[b] = 0
    OBVIOUS
  <2>1. b \in Nat
    BY GoalAssumption DEF Birth
  <2>2. earned'[b] = earned[b]
    <3>1. store'.goal # Absent => b # store'.goal.birth
      BY <1>3, <2>1, GoalAssumption DEF Birth
    <3> QED
      BY <3>1
  <2>3. b > created
    BY <1>1, <2>1
  <2> QED
    BY <2>2, <2>3 DEF LedgerInv
<1>14. store'.bound # Absent => rows'[store'.bound] = Row(store')
  BY <1>4, <1>8
<1>15. GoalSound'
  BY <1>11, <1>14 DEF GoalSound, Row
<1> QED
  BY <1>6, <1>9, <1>11, <1>12, <1>13, <1>15 DEF LedgerInv

\* What the query is a member of does not change while the store follows.
LEMMA LinkStep ==
  ASSUME GoalTypes, LinkInv, store' \in Stores,
         query' # Absent => /\ query # Absent
                            /\ query'.member = query.member /\ query'.birth = query.birth,
         created' \in Nat, created' >= created,
         store'.goal # Absent =>
           \/ /\ store.goal # Absent
              /\ store'.goal.birth = store.goal.birth
              /\ store'.membership = store.membership
           \/ /\ store'.goal.birth = created + 1
              /\ query # Absent => store'.membership # query.member
  PROVE  LinkInv'
<1> SUFFICES ASSUME query' # Absent
             PROVE  /\ query.birth <= created'
                    /\ store'.goal # Absent =>
                         (query.member = store'.membership <=> query.birth = store'.goal.birth)
  BY DEF LinkInv
<1>0. query # Absent
  OBVIOUS
<1>1. query.birth <= created /\ query.birth \in Nat /\ created \in Nat
  BY <1>0 DEF LinkInv, GoalTypes, Queries
<1>2. query.birth <= created'
  BY <1>1
<1>3. CASE store.goal # Absent /\ store'.goal.birth = store.goal.birth
             /\ store'.membership = store.membership
  BY <1>0, <1>2, <1>3 DEF LinkInv
<1>4. CASE store'.goal.birth = created + 1 /\ store'.membership # query.member
  BY <1>1, <1>2, <1>4
<1> QED
  BY <1>0, <1>2, <1>3, <1>4

\* A query that begins is a member of the goal it works for, and of no other.
LEMMA BeganIs ==
  ASSUME NEW s \in Stores, NEW why \in {"user", "automatic", "requested"},
         query' = Began(s, why), store' \in Stores, created' \in Nat,
         s.goal # Absent => s.goal.birth <= created',
         store'.goal # Absent =>
           /\ s.goal # Absent /\ store'.goal.birth = s.goal.birth
           /\ store'.membership = s.membership
  PROVE  LinkInv' /\ query' \in Queries /\ query'.why = why
<1>1. PICK works \in BOOLEAN : works <=> s.goal # Absent /\ s.goal.status = "Pursuing"
  OBVIOUS
<1>2. PICK m : m = IF works THEN s.membership ELSE 0
  OBVIOUS
<1>3. PICK b : b = IF works THEN s.goal.birth ELSE 0
  OBVIOUS
<1>4. query' = [why |-> why, state |-> "running", asks |-> FALSE, member |-> m, birth |-> b]
  <2>1. CASE works
    BY <1>1, <1>2, <1>3, <2>1, Zenon DEF Began
  <2>2. CASE ~works
    BY <1>1, <1>2, <1>3, <2>2, Zenon DEF Began
  <2> QED
    BY <2>1, <2>2
<1>5. s.goal # Absent => s.goal.birth \in Nat \ {0}
  BY GoalAssumption DEF Stores, GoalRecords, Birth
<1>6. s.membership \in Nat \ {0}
  BY DEF Stores
<1>7. m \in Nat /\ b \in Nat
  BY <1>1, <1>2, <1>3, <1>5, <1>6
<1>8. query' \in Queries /\ query'.why = why /\ query'.member = m /\ query'.birth = b
  BY <1>4, <1>7 DEF Queries
<1>9. b <= created'
  BY <1>1, <1>3
<1>10. store'.goal # Absent => (m = store'.membership <=> b = store'.goal.birth)
  BY <1>1, <1>2, <1>3, <1>5, <1>6
<1> QED
  BY <1>8, <1>9, <1>10 DEF LinkInv

\* A request stays one for the goal that is there, or is never admitted.
LEMMA TicketStep ==
  ASSUME TicketInv,
         \A h \in Holders' :
           \/ \E g \in Holders : g.ticket = h.ticket
           \/ store'.goal # Absent /\ h.ticket.birth = store'.goal.birth,
         \/ store'.admission \notin HeldTokens
         \/ /\ store'.admission = store.admission
            /\ store.goal # Absent =>
                 store'.goal # Absent /\ store'.goal.birth = store.goal.birth
  PROVE  TicketInv'
<1> SUFFICES ASSUME NEW h \in Holders', h.ticket.token = store'.admission
             PROVE  store'.goal # Absent /\ h.ticket.birth = store'.goal.birth
  BY DEF TicketInv, Matches
<1>1. CASE store'.goal # Absent /\ h.ticket.birth = store'.goal.birth
  BY <1>1
<1>2. ASSUME NEW g \in Holders, g.ticket = h.ticket
      PROVE  store'.goal # Absent /\ h.ticket.birth = store'.goal.birth
  <2>1. store'.admission \in HeldTokens
    BY <1>2 DEF HeldTokens
  <2>2. Matches(g)
    BY <1>2, <2>1 DEF Matches
  <2> QED
    BY <1>2, <2>1, <2>2 DEF TicketInv
<1> QED
  BY <1>1, <1>2

\* A goal that is stopped is deferred where it is stopped, and in its only row.
LEMMA HaltStep ==
  ASSUME GoalTypes, HaltInv, LedgerInv', Written,
         store' \in Stores, store'.bound = store.bound,
         created' \in Nat, halted' \in SUBSET Birth,
         \A b \in halted' : b <= created',
         \A b \in halted' : b \in halted \/ (store'.goal # Absent /\ b = store'.goal.birth),
         store'.goal # Absent /\ store'.goal.birth \in halted' => store'.deferred
  PROVE  HaltInv'
<1>1. ASSUME NEW t \in Threads, rows'[t] # Absent, rows'[t].goal.birth \in halted'
      PROVE  rows'[t].deferred
  <2>1. CASE t = store.bound
    <3>1. rows'[t] = Row(store') /\ store'.bound # Absent
      BY <2>1, GoalAssumption DEF LedgerInv, GoalSound, Row
    <3>2. store'.goal # Absent
      BY <1>1, <3>1, RowIs
    <3>3. rows'[t].goal = store'.goal /\ rows'[t].deferred = store'.deferred
      BY <3>1, <3>2, RowIs
    <3> QED
      BY <1>1, <3>2, <3>3
  <2>2. CASE t # store.bound
    <3>1. rows'[t] = rows[t]
      BY <2>2 DEF Written, GoalTypes
    <3>2. CASE rows'[t].goal.birth \in halted
      BY <1>1, <3>1, <3>2 DEF HaltInv
    <3>3. CASE store'.goal # Absent /\ rows'[t].goal.birth = store'.goal.birth
      <4>1. store'.bound # Absent /\ store'.bound \in Threads
        BY <3>3 DEF LedgerInv, Stores
      <4>2. rows'[store'.bound] = Row(store') /\ Row(store') # Absent
              /\ Row(store').goal = store'.goal
        BY <3>3, <4>1, RowIs DEF LedgerInv, GoalSound, Row
      <4> QED
        BY <1>1, <2>2, <3>3, <4>1, <4>2 DEF LedgerInv
    <3> QED
      BY <1>1, <3>2, <3>3
  <2> QED
    BY <2>1, <2>2
<1> QED
  BY <1>1 DEF HaltInv

\* Tickets are typed, and one more command in the port is the only one.
LEMMA SendIs ==
  ASSUME GoalTypes, NEW x \in Requests
  PROVE  /\ Append(port, x) \in Seq(Requests)
         /\ Range(Append(port, x)) \subseteq Range(port) \cup {x}
<1>1. PICK n \in Nat : n = Len(port) /\ DOMAIN port = 1..n
  BY DEF GoalTypes
<1>2. PICK p : p = Append(port, x)
  OBVIOUS
<1>3. /\ p \in Seq(Requests) /\ DOMAIN p = 1..(n + 1) /\ p[n + 1] = x
      /\ \A k \in 1..n : p[k] = port[k]
  BY <1>1, <1>2 DEF GoalTypes
<1>4. \A k \in 1..(n + 1) : k = n + 1 \/ k \in 1..n
  BY <1>1
<1> QED
  BY <1>1, <1>2, <1>3, <1>4 DEF Range

\* A ticket for the goal of a store.
LEMMA TicketIs ==
  ASSUME NEW s \in Stores, s.goal # Absent
  PROVE  Ticket(s) \in Tickets /\ Ticket(s).birth = s.goal.birth
<1>1. s.admission \in Nat /\ s.goal.birth \in Birth
  BY DEF Stores, GoalRecords
<1> QED
  BY <1>1 DEF Ticket, Tickets

\* A change keeps what the goal was charged; a new goal was charged nothing.
Keeps(s) ==
  s.goal # Absent =>
    \/ /\ store.goal # Absent
       /\ s.goal.birth = store.goal.birth /\ s.goal.used = store.goal.used
    \/ s.goal.birth = created + 1 /\ created' = created + 1 /\ s.goal.used = 0

\* A change of the store that charges nothing.
LEMMA StoreStep ==
  ASSUME GoalInv,
         NEW stores \in BOOLEAN, NEW s, NEW otherwise, NEW ok \in BOOLEAN,
         Save(stores, s, otherwise, ok),
         Follows(s), Keeps(s), Follows(otherwise),
         otherwise.goal = store.goal, otherwise.deferred = store.deferred,
         ~stores => s.goal = store.goal /\ s.deferred = store.deferred,
         created' = created \/ created' = created + 1, earned' = earned
  PROVE  /\ (ok /\ store' = s) \/ (~ok /\ store' = otherwise)
         /\ Follows(store') /\ store' \in Stores /\ store'.bound = store.bound
         /\ Written /\ LedgerInv'
         /\ rows' \in [Threads -> Rows \cup {Absent}]
         /\ events' \in Nat /\ created' \in Nat /\ created' >= created
<1>1. GoalTypes /\ LedgerInv
  BY DEF GoalInv
<1>2. /\ (ok /\ store' = s) \/ (~ok /\ store' = otherwise)
      /\ Written /\ events' \in Nat
  <2>1. events \in Nat
    BY <1>1 DEF GoalTypes
  <2>2. \/ /\ ok /\ store' = s /\ stores /\ store.bound # Absent
           /\ rows' = [rows EXCEPT ![store.bound] = Row(s)]
        \/ ok /\ store' = s /\ ~stores /\ rows' = rows
        \/ ~ok /\ store' = otherwise /\ stores /\ rows' = rows
    BY <2>1, SaveIs
  <2>3. events' \in Nat
    BY <2>1, SaveIs
  <2> QED
    BY <2>2, <2>3 DEF Written
<1>3. Follows(store')
  BY <1>2
<1>4. store' \in Stores /\ store'.bound = store.bound
  BY <1>3 DEF Follows
<1>5. created \in Nat /\ created' \in Nat /\ created' >= created /\ earned \in [Birth -> Nat]
  BY <1>1 DEF GoalTypes
<1>6. store'.goal # Absent =>
        /\ store'.goal.used = earned[store'.goal.birth]
        /\ \/ store.goal # Absent /\ store'.goal.birth = store.goal.birth
           \/ store'.goal.birth = created + 1 /\ created' = created + 1
  <2> SUFFICES ASSUME store'.goal # Absent
               PROVE  /\ store'.goal.used = earned[store'.goal.birth]
                      /\ \/ store.goal # Absent /\ store'.goal.birth = store.goal.birth
                         \/ store'.goal.birth = created + 1 /\ created' = created + 1
    OBVIOUS
  <2>1. store'.goal.birth \in Birth /\ store'.goal.birth \in Nat
    <3>1. store'.goal \in GoalRecords
      BY <1>4 DEF Stores
    <3> QED
      BY <3>1, GoalAssumption DEF GoalRecords, Birth
  <2>2. Keeps(store')
    BY <1>2 DEF Keeps
  <2>3. CASE store.goal # Absent /\ store'.goal.birth = store.goal.birth
               /\ store'.goal.used = store.goal.used
    BY <1>1, <2>3 DEF LedgerInv, GoalSound
  <2>4. CASE store'.goal.birth = created + 1 /\ created' = created + 1 /\ store'.goal.used = 0
    <3>1. store'.goal.birth > created
      BY <1>5, <2>4
    <3> QED
      BY <1>1, <2>1, <2>4, <3>1 DEF LedgerInv
  <2> QED
    BY <2>2, <2>3, <2>4 DEF Keeps
<1>7. LedgerInv' /\ rows' \in [Threads -> Rows \cup {Absent}]
  BY <1>1, <1>2, <1>4, <1>5, <1>6, LedgerStep
<1> QED
  BY <1>2, <1>3, <1>4, <1>5, <1>7

\* What the interface and the port hold after a step: what they held, or a
\* request for the goal that is there then.
Requested ==
  \A h \in Holders' :
    \/ \E g \in Holders : g.ticket = h.ticket
    \/ store'.goal # Absent /\ h.ticket.birth = store'.goal.birth

\* A command of the user or a tool of the query: it charges nothing, and keeps
\* what is deferred.
LEMMA CommandStep ==
  ASSUME GoalInv,
         NEW stores \in BOOLEAN, NEW s, NEW ok \in BOOLEAN,
         Save(stores, s, store, ok), Follows(s), Keeps(s),
         s.goal # Absent /\ store.goal # Absent /\ s.goal.birth = store.goal.birth =>
           s.deferred = store.deferred,
         ~stores => s = store,
         created' = created \/ created' = created + 1,
         UNCHANGED <<query, halted, earned, queries>>,
         tui.restore = Absent, tui'.restore = Absent,
         tui' \in Tuis, port' \in Seq(Requests), Requested
  PROVE  GoalInv'
<1>1. GoalTypes /\ LedgerInv /\ LinkInv /\ HaltInv /\ TicketInv
  BY DEF GoalInv
<1>2. store \in Stores /\ Follows(store)
  BY <1>1 DEF GoalTypes, Follows
<1>3. /\ (ok /\ store' = s) \/ (~ok /\ store' = store)
      /\ Follows(store') /\ store' \in Stores /\ store'.bound = store.bound
      /\ Written /\ LedgerInv'
      /\ rows' \in [Threads -> Rows \cup {Absent}]
      /\ events' \in Nat /\ created' \in Nat /\ created' >= created
  BY <1>2, StoreStep
<1>4. GoalTypes'
  BY <1>1, <1>3 DEF GoalTypes
<1>5. LinkInv'
  BY <1>1, <1>3, LinkStep DEF Follows
<1>6. RestoreInv'
  BY DEF RestoreInv
<1>7. TicketInv'
  BY <1>1, <1>3, TicketStep DEF Follows, Requested
<1>8. HaltInv'
  <2>1. halted' \in SUBSET Birth /\ \A b \in halted' : b \in halted /\ b \in Nat
    BY <1>1, GoalAssumption DEF GoalTypes, Birth
  <2>2. \A b \in halted' : b <= created'
    BY <1>1, <1>3, <2>1 DEF HaltInv, GoalTypes
  <2>3. store'.goal # Absent /\ store'.goal.birth \in halted' => store'.deferred
    <3> SUFFICES ASSUME store'.goal # Absent, store'.goal.birth \in halted
                 PROVE  store'.deferred
      OBVIOUS
    <3>1. store'.goal.birth <= created
      BY <1>1 DEF HaltInv
    <3>2. store'.goal.birth # created + 1
      BY <1>1, <2>1, <3>1 DEF GoalTypes
    <3>3. store.goal # Absent /\ store'.goal.birth = store.goal.birth
      BY <1>3, <3>2 DEF Follows
    <3>4. store'.deferred = store.deferred
      BY <1>3, <3>3
    <3> QED
      BY <1>1, <3>3, <3>4 DEF HaltInv
  <2> QED
    BY <1>1, <1>3, <2>1, <2>2, <2>3, HaltStep
<1> QED
  BY <1>3, <1>4, <1>5, <1>6, <1>7, <1>8 DEF GoalInv

-----------------------------------------------------------------------------
(* The commands and dialogs.                                               *)

\* A goal with another status is the same goal.
LEMMA StatusIs ==
  ASSUME NEW g \in GoalRecords, NEW st \in GoalStatuses
  PROVE  /\ [g EXCEPT !.status = st] \in GoalRecords
         /\ [g EXCEPT !.status = st].birth = g.birth /\ [g EXCEPT !.status = st].id = g.id
         /\ [g EXCEPT !.status = st].used = g.used /\ [g EXCEPT !.status = st].status = st
BY DEF GoalRecords

\* Nobody holds another ticket when the interface and the port hold what they held.
LEMMA SameRequests ==
  ASSUME port' = port, tui' \in Tuis,
         tui'.pending \in {tui.pending, Absent}, tui'.offer \in {tui.offer, Absent},
         tui'.dialog \in {tui.dialog, Absent}
  PROVE  Requested
<1>1. Holders' \subseteq Holders
  BY DEF Holders
<1> QED
  BY <1>1, Zenon DEF Requested

\* The same with one more command in the port.
LEMMA OneMoreRequest ==
  ASSUME GoalTypes, NEW x \in Requests, port' = Append(port, x), tui' \in Tuis,
         store'.goal # Absent, x.ticket.birth = store'.goal.birth,
         tui'.pending \in {tui.pending, Absent}, tui'.offer \in {tui.offer, Absent},
         tui'.dialog \in {tui.dialog, Absent}
  PROVE  Requested /\ port' \in Seq(Requests)
<1>1. Holders' \subseteq Holders \cup {x}
  <2>1. Range(port') \subseteq Range(port) \cup {x}
    BY SendIs
  <2> QED
    BY <2>1 DEF Holders
<1>2. port' \in Seq(Requests)
  BY SendIs
<1> QED
  BY <1>1, <1>2, Zenon DEF Requested

\* Pausing, clearing and a tool's report keep the goal or end it.
LEMMA StatusStep ==
  ASSUME GoalInv, NEW n \in GoalRecords \cup {Absent}, NEW ok \in BOOLEAN,
         Save(TRUE, Mutated(store, n), store, ok),
         n # Absent => /\ store.goal # Absent
                       /\ n.birth = store.goal.birth /\ n.id = store.goal.id
                       /\ n.used = store.goal.used /\ n.status # "Pursuing",
         UNCHANGED <<query, port, halted, earned, created, queries>>,
         tui.restore = Absent, tui' \in Tuis, tui'.restore = Absent,
         tui'.pending \in {tui.pending, Absent}, tui'.offer \in {tui.offer, Absent},
         tui'.dialog \in {tui.dialog, Absent}
  PROVE  GoalInv'
<1>1. GoalTypes
  BY DEF GoalInv
<1>2. PICK s : s = Mutated(store, n)
  OBVIOUS
<1>3. Follows(s) /\ s.goal = n /\ (n # Absent => s.deferred = store.deferred)
  BY <1>1, <1>2, ChangedFollows
<1>4. Keeps(s)
  BY <1>3 DEF Keeps
<1>5. Requested /\ port' \in Seq(Requests)
  BY <1>1, SameRequests DEF GoalTypes
<1> QED
  BY <1>2, <1>3, <1>4, <1>5, CommandStep

\* Pause, clear and the report of a tool.
LEMMA PauseStep ==
  ASSUME GoalInv, NEW ok \in BOOLEAN, Pause(ok)
  PROVE  GoalInv'
<1>1. tui \in Tuis /\ store.goal # Absent /\ store.goal \in GoalRecords /\ "Paused" \in GoalStatuses
  BY DEF GoalInv, GoalTypes, Stores, Pause, GoalStatuses
<1>2. PICK n \in GoalRecords :
        /\ n = [store.goal EXCEPT !.status = "Paused"]
        /\ n.birth = store.goal.birth /\ n.id = store.goal.id
        /\ n.used = store.goal.used /\ n.status = "Paused"
  BY <1>1, StatusIs
<1>3. Save(TRUE, Mutated(store, n), store, ok)
  BY <1>2, Zenon DEF Pause
<1>4. UNCHANGED <<query, tui, port, halted, earned, created, queries>> /\ tui.restore = Absent
  BY DEF Pause, Commanding
<1> QED
  BY <1>1, <1>2, <1>3, <1>4, StatusStep

\* The user clears the goal.
LEMMA ClearStep ==
  ASSUME GoalInv, NEW ok \in BOOLEAN, Clear(ok)
  PROVE  GoalInv'
<1>1. tui \in Tuis
  BY DEF GoalInv, GoalTypes
<1>2. Save(TRUE, Mutated(store, Absent), store, ok)
  BY DEF Clear
<1>3. UNCHANGED <<query, port, halted, earned, created, queries>> /\ tui.restore = Absent
  BY DEF Clear, Commanding
<1>4. tui' = [tui EXCEPT !.pending = Absent]
  BY DEF Clear
<1>5. /\ tui' \in Tuis /\ tui'.restore = Absent /\ tui'.pending = Absent
      /\ tui'.offer = tui.offer /\ tui'.dialog = tui.dialog
  BY <1>1, <1>3, <1>4 DEF Tuis
<1> QED
  BY <1>2, <1>3, <1>5, StatusStep

\* The query that runs reports the goal complete or blocked.
LEMMA UpdateGoalStep ==
  ASSUME GoalInv, NEW ok \in BOOLEAN, NEW status \in {"Complete", "Blocked"},
         UpdateGoal(status, ok)
  PROVE  GoalInv'
<1>1. tui \in Tuis /\ store.goal # Absent /\ store.goal \in GoalRecords /\ status \in GoalStatuses
  BY DEF GoalInv, GoalTypes, Stores, UpdateGoal, GoalStatuses
<1>2. PICK n \in GoalRecords :
        /\ n = [store.goal EXCEPT !.status = status]
        /\ n.birth = store.goal.birth /\ n.id = store.goal.id
        /\ n.used = store.goal.used /\ n.status = status
  BY <1>1, StatusIs
<1>3. Save(TRUE, Mutated(store, n), store, ok)
  BY <1>2, Zenon DEF UpdateGoal
<1>4. UNCHANGED <<query, tui, port, halted, earned, created, queries>> /\ tui.restore = Absent
  <2>1. query # Absent
    BY DEF UpdateGoal, Executing
  <2> QED
    BY <2>1 DEF UpdateGoal, GoalInv, RestoreInv
<1>5. n.status # "Pursuing"
  BY <1>2
<1> QED
  BY <1>1, <1>2, <1>3, <1>4, <1>5, StatusStep

\* The goal that is there was created before.
LEMMA GoalIsOld ==
  ASSUME GoalTypes, LedgerInv, store.goal # Absent
  PROVE  /\ store.goal \in GoalRecords /\ store.goal.birth \in Birth
         /\ store.goal.birth \in Nat /\ store.goal.birth <= created
         /\ store.goal.used \in Nat /\ store.goal.used = earned[store.goal.birth]
<1>1. store \in Stores
  BY DEF GoalTypes
<1>2. store.goal \in GoalRecords
  BY <1>1 DEF Stores
<1>3. store.goal.birth \in Birth /\ store.goal.birth \in Nat /\ store.goal.used \in Nat
  BY <1>2, GoalAssumption DEF GoalRecords, Birth
<1>4. store.bound # Absent /\ store.bound \in Threads
  BY <1>1 DEF LedgerInv, Stores
<1>5. rows[store.bound] = Row(store)
  BY <1>4 DEF LedgerInv, GoalSound
<1>6. Row(store) # Absent /\ Row(store).goal = store.goal
  BY <1>1, RowIs
<1>7. store.goal.birth <= created
  BY <1>4, <1>5, <1>6 DEF LedgerInv
<1> QED
  BY <1>2, <1>3, <1>7 DEF LedgerInv, GoalSound

\* A request for the goal of a store.
LEMMA ContinueIs ==
  ASSUME NEW s \in Stores, s.goal # Absent, NEW mode \in Modes
  PROVE  /\ Continue(s, mode) \in Requests
         /\ Continue(s, mode).ticket.birth = s.goal.birth
<1>1. PICK t \in Tickets : t = Ticket(s) /\ t.birth = s.goal.birth
  BY TicketIs
<1>2. Continue(s, mode) = [ticket |-> t, mode |-> mode]
  BY <1>1, Zenon DEF Continue
<1> QED
  BY <1>1, <1>2 DEF Requests

\* A new goal is charged nothing, and continued by a request of its own.
LEMMA NewStep ==
  ASSUME GoalInv, NEW s, NEW n \in GoalRecords, NEW ok \in BOOLEAN,
         Save(TRUE, s, store, ok), Follows(s), s.goal = n,
         n.birth = created + 1, n.used = 0, created' = created + 1,
         port' = port \/ (ok /\ port' = Append(port, Continue(s, "requested"))),
         UNCHANGED <<query, halted, earned, queries>>,
         tui.restore = Absent, tui' \in Tuis, tui'.restore = Absent,
         tui'.pending \in {tui.pending, Absent}, tui'.offer \in {tui.offer, Absent},
         tui'.dialog \in {tui.dialog, Absent}
  PROVE  GoalInv'
<1>1. GoalTypes /\ LedgerInv /\ created \in Nat
  BY DEF GoalInv, GoalTypes
<1>2. s \in Stores /\ s.goal # Absent
  BY GoalAssumption DEF Follows
<1>3. Keeps(s)
  BY DEF Keeps
<1>4. store.goal # Absent => s.goal.birth # store.goal.birth
  BY <1>1, GoalIsOld
<1>5. Requested /\ port' \in Seq(Requests)
  <2>1. CASE port' = port
    BY <1>1, <2>1, SameRequests DEF GoalTypes
  <2>2. CASE ok /\ port' = Append(port, Continue(s, "requested"))
    <3>1. PICK x \in Requests : x = Continue(s, "requested") /\ x.ticket.birth = s.goal.birth
      BY <1>2, ContinueIs DEF Modes
    <3>2. store' = s
      BY <2>2 DEF Save
    <3>3. port' = Append(port, x)
      BY <2>2, <3>1
    <3> QED
      BY <1>1, <1>2, <3>1, <3>2, <3>3, OneMoreRequest
  <2> QED
    BY <2>1, <2>2
<1> QED
  BY <1>2, <1>3, <1>4, <1>5, CommandStep

\* A new goal is sent at once, or not.
LEMMA StartIs ==
  ASSUME NEW s, NEW ok, StartNewGoal(s, ok)
  PROVE  port' = port \/ (ok /\ port' = Append(port, Continue(s, "requested")))
BY DEF StartNewGoal

\* A goal of the user.
LEMMA SetGoalStep ==
  ASSUME GoalInv, NEW ok \in BOOLEAN, NEW id \in GoalIds, NEW budget \in Budgets,
         SetGoal(id, budget, ok)
  PROVE  GoalInv'
<1>1. GoalTypes /\ ~UnlessFinished /\ created < MaxGoals /\ tui \in Tuis /\ tui' = tui
        /\ tui.restore = Absent
  BY DEF GoalInv, GoalTypes, SetGoal, Commanding
<1>2. PICK n \in GoalRecords : n = NewGoal(id, budget) /\ n.birth = created + 1 /\ n.used = 0
  BY <1>1, NewFollows
<1>3. PICK s : s = Mutated(store, n)
  OBVIOUS
<1>4. Follows(s) /\ s.goal = n
  BY <1>1, <1>2, <1>3, NewFollows
<1>5. Save(TRUE, s, store, ok) /\ StartNewGoal(s, ok)
  BY <1>2, <1>3, Zenon DEF SetGoal
<1>6. created' = created + 1 /\ UNCHANGED <<query, halted, earned, queries>>
  BY DEF SetGoal
<1> QED
  BY <1>1, <1>2, <1>4, <1>5, <1>6, StartIs, NewStep

\* A goal of the query that runs.
LEMMA CreateGoalStep ==
  ASSUME GoalInv, NEW ok \in BOOLEAN, NEW id \in GoalIds, NEW budget \in Budgets,
         CreateGoal(id, budget, ok)
  PROVE  GoalInv'
<1>1. GoalTypes /\ ~UnlessFinished /\ created < MaxGoals /\ tui \in Tuis /\ tui' = tui
  BY DEF GoalInv, GoalTypes, CreateGoal
<1>2. PICK n \in GoalRecords : n = NewGoal(id, budget) /\ n.birth = created + 1 /\ n.used = 0
  BY <1>1, NewFollows
<1>3. PICK s : s = Mutated(store, n)
  OBVIOUS
<1>4. Follows(s) /\ s.goal = n
  BY <1>1, <1>2, <1>3, NewFollows
<1>5. Save(TRUE, s, store, ok)
  BY <1>2, <1>3, Zenon DEF CreateGoal
<1>6. created' = created + 1 /\ UNCHANGED <<query, halted, earned, queries>> /\ port' = port
  BY DEF CreateGoal
<1>7. tui.restore = Absent
  <2>1. query # Absent
    BY DEF CreateGoal, Executing
  <2> QED
    BY <2>1 DEF GoalInv, RestoreInv
<1> QED
  BY <1>1, <1>2, <1>4, <1>5, <1>6, <1>7, NewStep

\* What Replaced makes of the store.
LEMMA ReplacedFollows ==
  ASSUME GoalTypes, NEW n \in GoalRecords, n.birth = created + 1
  PROVE  Follows(Replaced(store, n)) /\ Replaced(store, n).goal = n
<1>1. store \in Stores
  BY DEF GoalTypes
<1>2. PICK r \in Stores :
        r = Renewed(store) /\ r.admission \notin HeldTokens /\ r.bound = store.bound
  BY <1>1, RenewedIs
<1>3. PICK k : k = [r EXCEPT !.goal = n, !.deferred = FALSE]
  OBVIOUS
<1>4. /\ k \in Stores /\ k.goal = n /\ k.admission = r.admission /\ k.bound = r.bound
  BY <1>3 DEF Stores
<1>5. PICK m \in Stores :
        /\ m = Detached(k)
        /\ query # Absent => m.membership # query.member
        /\ m.goal = n /\ m.admission = r.admission /\ m.bound = r.bound
  BY <1>4, DetachedIs
<1>6. Replaced(store, n) = m
  <2>1. k = [Renewed(store) EXCEPT !.goal = n, !.deferred = FALSE]
    BY <1>2, <1>3
  <2> QED
    BY <1>5, <2>1, Zenon DEF Replaced
<1>7. Follows(m)
  BY <1>2, <1>5 DEF Follows
<1> QED
  BY <1>5, <1>6, <1>7

\* A new goal in the place of another.
LEMMA ConfirmReplaceStep ==
  ASSUME GoalInv, NEW ok \in BOOLEAN, NEW id \in GoalIds, NEW budget \in Budgets,
         ConfirmReplace(id, budget, ok)
  PROVE  GoalInv'
<1>1. GoalTypes /\ created < MaxGoals /\ tui \in Tuis /\ created \in Nat
        /\ tui' = [tui EXCEPT !.dialog = Absent] /\ tui.restore = Absent
  BY DEF GoalInv, GoalTypes, ConfirmReplace, Confirming, Busy
<1>2. PICK n \in GoalRecords : n = NewGoal(id, budget) /\ n.birth = created + 1 /\ n.used = 0
  <2>1. created + 1 \in Birth /\ budget \in Nat
    BY <1>1, GoalAssumption DEF Birth
  <2>2. NewGoal(id, budget) \in GoalRecords
    BY <2>1 DEF NewGoal, GoalRecords, GoalStatuses
  <2> QED
    BY <2>2 DEF NewGoal
<1>3. PICK s : s = Replaced(store, n)
  OBVIOUS
<1>4. Follows(s) /\ s.goal = n
  BY <1>1, <1>2, <1>3, ReplacedFollows
<1>5. Save(TRUE, s, store, ok) /\ StartNewGoal(s, ok)
  BY <1>2, <1>3, Zenon DEF ConfirmReplace
<1>6. created' = created + 1 /\ UNCHANGED <<query, halted, earned, queries>>
  BY DEF ConfirmReplace
<1>7. /\ tui' \in Tuis /\ tui'.restore = Absent /\ tui'.pending = tui.pending
      /\ tui'.offer = tui.offer /\ tui'.dialog = Absent
  BY <1>1 DEF Tuis
<1> QED
  BY <1>1, <1>2, <1>4, <1>5, <1>6, <1>7, StartIs, NewStep

\* A goal that is resumed is the same goal.
LEMMA ResumeGoalStep ==
  ASSUME GoalInv, NEW ok \in BOOLEAN, CanResume, ResumeGoal(ok),
         UNCHANGED <<query, halted, earned, created, queries>>,
         tui' \in Tuis, tui'.restore = tui.restore,
         tui'.pending \in {tui.pending, Absent}, tui'.offer \in {tui.offer, Absent},
         tui'.dialog \in {tui.dialog, Absent}
  PROVE  GoalInv'
<1>1. GoalTypes /\ tui.restore = Absent /\ store.goal # Absent /\ store.goal \in GoalRecords
        /\ store.goal.status # "Complete"
  BY DEF GoalInv, GoalTypes, CanResume, Busy, Stores
<1>2. PICK p \in GoalRecords :
        /\ p = [store.goal EXCEPT !.status = "Pursuing"]
        /\ p.birth = store.goal.birth /\ p.id = store.goal.id /\ p.used = store.goal.used
  BY <1>1, StatusIs, ZenonT(40) DEF GoalStatuses
<1>3. PICK n \in GoalRecords :
        /\ n = BudgetChecked(p)
        /\ n.birth = p.birth /\ n.id = p.id /\ n.used = p.used
  BY BudgetCheckedIs
<1>4. PICK s : s = Mutated(store, n)
  OBVIOUS
<1>5. Follows(s) /\ s.goal = n /\ s.deferred = store.deferred
  <2>1. n # Absent
    BY GoalAssumption
  <2> QED
    BY <1>1, <1>2, <1>3, <1>4, <2>1, ChangedFollows
<1>6. PICK stores \in BOOLEAN : stores = (n # store.goal)
  OBVIOUS
<1>7. /\ Save(stores, s, store, ok)
      /\ port' = IF ok THEN Append(port, Continue(s, "requested")) ELSE port
  BY <1>2, <1>3, <1>4, <1>6, Zenon DEF ResumeGoal
<1>8. ~stores => s = store
  <2>1. IsMutated(s, n)
    BY <1>1, <1>4, MutatedIs
  <2> QED
    BY <1>6, <2>1 DEF IsMutated
<1>9. Keeps(s)
  BY <1>1, <1>2, <1>3, <1>5 DEF Keeps
<1>10. s \in Stores /\ s.goal # Absent
  BY <1>5, GoalAssumption DEF Follows
<1>11. Requested /\ port' \in Seq(Requests)
  <2>1. CASE ~ok
    <3>1. port' = port
      BY <1>7, <2>1
    <3> QED
      BY <1>1, <3>1, SameRequests DEF GoalTypes
  <2>2. CASE ok
    <3>1. PICK x \in Requests : x = Continue(s, "requested") /\ x.ticket.birth = s.goal.birth
      BY <1>10, ContinueIs DEF Modes
    <3>2. store' = s
      BY <1>7, <2>2 DEF Save
    <3>3. port' = Append(port, x)
      BY <1>7, <2>2, <3>1
    <3> QED
      BY <1>1, <1>10, <3>1, <3>2, <3>3, OneMoreRequest
  <2> QED
    BY <2>1, <2>2
<1> QED
  BY <1>1, <1>5, <1>7, <1>8, <1>9, <1>11, CommandStep

\* The command and the dialog that resume.
LEMMA ResumeStep ==
  ASSUME GoalInv, NEW ok \in BOOLEAN, Resume(ok)
  PROVE  GoalInv'
<1>1. /\ CanResume /\ ResumeGoal(ok)
      /\ UNCHANGED <<query, tui, halted, earned, created, queries>>
  BY DEF Resume
<1>2. tui' = tui /\ tui' \in Tuis
  BY <1>1 DEF GoalInv, GoalTypes
<1> QED
  BY <1>1, <1>2, ResumeGoalStep

\* The interface when its dialog is closed.
LEMMA ClosedIs ==
  ASSUME tui \in Tuis
  PROVE  /\ [tui EXCEPT !.dialog = Absent] \in Tuis
         /\ [tui EXCEPT !.dialog = Absent].restore = tui.restore
         /\ [tui EXCEPT !.dialog = Absent].pending = tui.pending
         /\ [tui EXCEPT !.dialog = Absent].offer = tui.offer
         /\ [tui EXCEPT !.dialog = Absent].dialog = Absent
BY DEF Tuis

\* The dialog that offers to resume.
LEMMA ConfirmResumeStep ==
  ASSUME GoalInv, NEW ok \in BOOLEAN, ConfirmResume(ok)
  PROVE  GoalInv'
<1>1. /\ CanResume /\ ResumeGoal(ok) /\ tui' = [tui EXCEPT !.dialog = Absent]
      /\ UNCHANGED <<query, halted, earned, created, queries>>
  BY DEF ConfirmResume
<1>2. tui' \in Tuis /\ tui'.restore = tui.restore /\ tui'.pending = tui.pending
        /\ tui'.offer = tui.offer /\ tui'.dialog = Absent
  BY <1>1, ClosedIs DEF GoalInv, GoalTypes
<1> QED
  BY <1>1, <1>2, ResumeGoalStep

\* What the interface holds after it is armed for a store: requests for its goal.
IsArmed(a, t, s) ==
  /\ a \in Tuis /\ a.restore = t.restore /\ a.dialog = t.dialog
  /\ a.pending # Absent => s.goal # Absent /\ a.pending.ticket.birth = s.goal.birth
  /\ a.offer # Absent => s.goal # Absent /\ a.offer.ticket.birth = s.goal.birth

\* Only a store with a goal arms the interface.
LEMMA ArmedIs ==
  ASSUME NEW t \in Tuis, NEW s \in Stores
  PROVE  IsArmed(Armed(t, s), t, s)
<1>1. PICK status : status = IF s.goal = Absent THEN Absent ELSE s.goal.status
  OBVIOUS
<1>2. PICK p : p = IF status = "Pursuing" /\ ~s.deferred
                   THEN [ticket |-> Ticket(s), enqueued |-> FALSE, mode |-> "automatic"]
                   ELSE Absent
  OBVIOUS
<1>3. PICK o : o = IF status = "Paused" THEN [ticket |-> Ticket(s)] ELSE Absent
  OBVIOUS
<1>4. Armed(t, s) = [t EXCEPT !.pending = p, !.offer = o]
  BY <1>1, <1>2, <1>3, Zenon DEF Armed
<1>5. CASE s.goal = Absent
  <2>1. status = Absent
    BY <1>1, <1>5
  <2>2. p = Absent /\ o = Absent
    BY <1>2, <1>3, <2>1, GoalAssumption DEF GoalStatuses
  <2> QED
    BY <1>4, <1>5, <2>2 DEF Tuis, IsArmed
<1>6. CASE s.goal # Absent
  <2>1. PICK k \in Tickets : k = Ticket(s) /\ k.birth = s.goal.birth
    BY <1>6, TicketIs
  <2>2. /\ p \in [ticket : {k}, enqueued : BOOLEAN, mode : Modes] \cup {Absent}
        /\ o \in [ticket : {k}] \cup {Absent}
    BY <1>2, <1>3, <2>1 DEF Modes
  <2>3. PICK a : a = [t EXCEPT !.pending = p, !.offer = o]
    OBVIOUS
  <2>4. /\ a \in Tuis /\ a.restore = t.restore /\ a.dialog = t.dialog
        /\ a.pending = p /\ a.offer = o
    BY <2>2, <2>3 DEF Tuis
  <2> QED
    BY <1>4, <1>6, <2>1, <2>2, <2>3, <2>4 DEF IsArmed
<1> QED
  BY <1>5, <1>6

\* An edited goal is the same goal, and asks for continuation again.
LEMMA ConfirmEditStep ==
  ASSUME GoalInv, NEW ok \in BOOLEAN, NEW id \in GoalIds, ConfirmEdit(id, ok)
  PROVE  GoalInv'
<1>1. GoalTypes /\ LedgerInv /\ tui \in Tuis /\ store \in Stores /\ tui.restore = Absent
  BY DEF GoalInv, GoalTypes, ConfirmEdit, Confirming, Busy
<1>2. store.goal # Absent /\ store.goal \in GoalRecords
  <2>1. tui.dialog \in Holders /\ Matches(tui.dialog)
    BY DEF ConfirmEdit, Confirming, Holders
  <2> QED
    BY <1>1, <2>1 DEF GoalInv, TicketInv, Stores
<1>3. PICK n \in GoalRecords :
        /\ n = [store.goal EXCEPT !.id = id]
        /\ n.birth = store.goal.birth /\ n.used = store.goal.used
  <2>1. [store.goal EXCEPT !.id = id] \in GoalRecords
          /\ [store.goal EXCEPT !.id = id].birth = store.goal.birth
          /\ [store.goal EXCEPT !.id = id].used = store.goal.used
    BY <1>2 DEF GoalRecords
  <2> QED
    BY <2>1
<1>4. PICK r \in Stores :
        /\ r = Renewed(store) /\ r.admission \notin HeldTokens /\ r.goal = store.goal
        /\ r.deferred = store.deferred /\ r.membership = store.membership
        /\ r.bound = store.bound
  BY <1>1, RenewedIs
<1>5. PICK s : s = [r EXCEPT !.goal = n]
  OBVIOUS
<1>6. /\ s \in Stores /\ s.goal = n /\ s.deferred = store.deferred
      /\ s.admission = r.admission /\ s.membership = store.membership /\ s.bound = store.bound
  BY <1>4, <1>5 DEF Stores
<1>7. s.goal # Absent /\ Follows(s) /\ Keeps(s)
  BY <1>2, <1>3, <1>4, <1>6, GoalAssumption DEF Follows, Keeps
<1>8. s = [Renewed(store) EXCEPT !.goal = [@ EXCEPT !.id = id]]
  BY <1>3, <1>4, <1>5
<1>9. PICK closed : closed = [tui EXCEPT !.dialog = Absent]
  OBVIOUS
<1>10. /\ Save(TRUE, s, store, ok)
       /\ tui' = IF ok /\ tui.pending # Absent THEN Armed(closed, s) ELSE closed
       /\ UNCHANGED <<query, port, halted, earned, created, queries>>
  BY <1>8, <1>9, Zenon DEF ConfirmEdit
<1>11. /\ closed \in Tuis /\ closed.restore = Absent /\ closed.pending = tui.pending
       /\ closed.offer = tui.offer /\ closed.dialog = Absent
  BY <1>1, <1>9, ClosedIs
<1>12. tui' \in Tuis /\ tui'.restore = Absent /\ Requested /\ port' \in Seq(Requests)
  <2>1. CASE tui' = closed
    BY <1>1, <1>10, <1>11, <2>1, SameRequests DEF GoalTypes
  <2>2. CASE ok /\ tui' = Armed(closed, s)
    <3>1. IsArmed(tui', closed, s)
      BY <1>6, <1>11, <2>2, ArmedIs
    <3>2. store' = s
      BY <1>10, <2>2 DEF Save
    <3>3. \A h \in Holders' :
            \/ h \in Holders
            \/ h = tui'.pending /\ tui'.pending # Absent
            \/ h = tui'.offer /\ tui'.offer # Absent
      <4>1. port' = port /\ tui'.dialog = Absent
        BY <1>10, <1>11, <3>1 DEF IsArmed
      <4>2. Range(port') = Range(port)
        BY <4>1
      <4> QED
        BY <4>1, <4>2 DEF Holders
    <3>4. Requested
      BY <3>1, <3>2, <3>3 DEF IsArmed, Requested
    <3> QED
      BY <1>1, <1>10, <1>11, <3>1, <3>4 DEF IsArmed, GoalTypes
  <2> QED
    BY <1>10, <2>1, <2>2
<1> QED
  BY <1>1, <1>6, <1>7, <1>10, <1>12, CommandStep

\* A step of the interface alone, that holds no request it did not hold or one
\* for the goal that is there.
LEMMA InterfaceStep ==
  ASSUME GoalInv, UNCHANGED <<store, rows, query, halted, earned, created, queries>>,
         events' \in Nat, tui' \in Tuis, port' \in Seq(Requests),
         RestoreInv', Requested
  PROVE  GoalInv'
<1>1. GoalTypes'
  BY DEF GoalInv, GoalTypes
<1>2. LedgerInv' /\ LinkInv' /\ HaltInv'
  BY DEF GoalInv, LedgerInv, GoalSound, Row, LinkInv, HaltInv
<1>3. TicketInv'
  BY TicketStep DEF GoalInv, Requested
<1> QED
  BY <1>1, <1>2, <1>3 DEF GoalInv

\* The dialogs open and close.
LEMMA OpenDialogStep ==
  ASSUME GoalInv, NEW kind \in {"edit", "replace"}, OpenDialog(kind)
  PROVE  GoalInv'
<1>1. /\ store \in Stores /\ store.goal # Absent /\ tui \in Tuis /\ tui.restore = Absent
      /\ port \in Seq(Requests) /\ events \in Nat
      /\ events' = events + 1
      /\ UNCHANGED <<store, rows, query, port, halted, earned, created, queries>>
  BY DEF GoalInv, GoalTypes, OpenDialog, Commanding
<1>2. PICK k \in Tickets : k = Ticket(store) /\ k.birth = store.goal.birth
  BY <1>1, TicketIs
<1>3. PICK d : d = [kind |-> kind, ticket |-> k]
  OBVIOUS
<1>4. tui' = [tui EXCEPT !.dialog = d]
  BY <1>2, <1>3, Zenon DEF OpenDialog
<1>5. /\ tui' \in Tuis /\ tui'.restore = tui.restore /\ tui'.pending = tui.pending
      /\ tui'.offer = tui.offer /\ tui'.dialog = d
  BY <1>1, <1>3, <1>4 DEF Tuis
<1>6. \A h \in Holders' : h \in Holders \/ h = d
  BY <1>1, <1>5 DEF Holders
<1>7. Requested
  BY <1>1, <1>2, <1>3, <1>6 DEF Requested
<1> QED
  BY <1>1, <1>5, <1>7, InterfaceStep DEF RestoreInv

\* A dialog that is closed changes nothing else.
LEMMA CloseDialogStep ==
  ASSUME GoalInv, CloseDialog
  PROVE  GoalInv'
<1>1. /\ tui \in Tuis /\ tui' = [tui EXCEPT !.dialog = Absent]
      /\ UNCHANGED <<store, rows, query, port, halted, earned, created, queries, events>>
      /\ port' \in Seq(Requests) /\ events' \in Nat
  BY DEF GoalInv, GoalTypes, CloseDialog
<1>2. /\ tui' \in Tuis /\ tui'.restore = tui.restore /\ tui'.pending = tui.pending
      /\ tui'.offer = tui.offer /\ tui'.dialog = Absent
  BY <1>1, ClosedIs
<1>3. RestoreInv'
  BY <1>1, <1>2 DEF GoalInv, RestoreInv
<1> QED
  BY <1>1, <1>2, <1>3, SameRequests, InterfaceStep

\* A message waits for the query to end.
LEMMA QueueFollowUpStep ==
  ASSUME GoalInv, QueueFollowUp
  PROVE  GoalInv'
<1>1. /\ tui \in Tuis /\ tui' = [tui EXCEPT !.followUp = TRUE]
      /\ UNCHANGED <<store, rows, query, port, halted, earned, created, queries>>
      /\ port' \in Seq(Requests) /\ events' \in Nat
  BY DEF GoalInv, GoalTypes, QueueFollowUp
<1>2. /\ tui' \in Tuis /\ tui'.restore = tui.restore /\ tui'.pending = tui.pending
      /\ tui'.offer = tui.offer /\ tui'.dialog = tui.dialog
  BY <1>1 DEF Tuis
<1>3. RestoreInv'
  BY <1>1, <1>2 DEF GoalInv, RestoreInv
<1> QED
  BY <1>1, <1>2, <1>3, SameRequests, InterfaceStep

\* The interface chooses, rebuilds and forgets.
LEMMA OfferResumeStep ==
  ASSUME GoalInv, OfferResume
  PROVE  GoalInv'
<1>1. /\ tui \in Tuis /\ tui.offer # Absent /\ tui.offer \in [ticket : Tickets]
      /\ UNCHANGED <<store, rows, query, port, halted, earned, created, queries, events>>
      /\ port' \in Seq(Requests) /\ events' \in Nat
  BY DEF GoalInv, GoalTypes, OfferResume, Tuis
<1>2. CASE tui' = [tui EXCEPT !.offer = Absent]
  <2>1. /\ tui' \in Tuis /\ tui'.restore = tui.restore /\ tui'.pending = tui.pending
        /\ tui'.offer = Absent /\ tui'.dialog = tui.dialog
    BY <1>1, <1>2 DEF Tuis
  <2>2. RestoreInv'
    BY <1>1, <2>1 DEF GoalInv, RestoreInv
  <2> QED
    BY <1>1, <2>1, <2>2, SameRequests, InterfaceStep
<1>3. CASE tui' = [tui EXCEPT !.offer = Absent,
                     !.dialog = [kind |-> "resume", ticket |-> tui.offer.ticket]]
  <2>1. PICK d : d = [kind |-> "resume", ticket |-> tui.offer.ticket]
    OBVIOUS
  <2>2. tui' = [tui EXCEPT !.offer = Absent, !.dialog = d]
    BY <1>3, <2>1, Zenon
  <2>3. /\ tui' \in Tuis /\ tui'.restore = tui.restore /\ tui'.pending = tui.pending
        /\ tui'.offer = Absent /\ tui'.dialog = d
    BY <1>1, <2>1, <2>2 DEF Tuis
  <2>4. \A h \in Holders' : h \in Holders \/ h = d
    BY <1>1, <2>3 DEF Holders
  <2>5. tui.offer \in Holders
    BY <1>1 DEF Holders
  <2>6. Requested
    BY <2>1, <2>4, <2>5 DEF Requested
  <2>7. RestoreInv'
    BY <1>1, <2>3 DEF GoalInv, RestoreInv
  <2> QED
    BY <1>1, <2>3, <2>6, <2>7, InterfaceStep
<1> QED
  BY <1>2, <1>3, Zenon DEF OfferResume

\* A pending request is sent, once, or is dropped.
LEMMA QueueIfIdleStep ==
  ASSUME GoalInv, QueueIfIdle
  PROVE  GoalInv'
<1>1. /\ tui \in Tuis /\ tui.pending # Absent /\ GoalTypes
      /\ tui.pending \in [ticket : Tickets, enqueued : BOOLEAN, mode : Modes]
      /\ UNCHANGED <<store, rows, query, halted, earned, created, queries, events>>
      /\ port \in Seq(Requests) /\ events' \in Nat
  BY DEF GoalInv, GoalTypes, QueueIfIdle, Tuis
<1>2. CASE tui' = [tui EXCEPT !.pending = Absent] /\ port' = port
  <2>1. /\ tui' \in Tuis /\ tui'.restore = tui.restore /\ tui'.pending = Absent
        /\ tui'.offer = tui.offer /\ tui'.dialog = tui.dialog
    BY <1>1, <1>2 DEF Tuis
  <2>2. RestoreInv'
    BY <1>1, <2>1 DEF GoalInv, RestoreInv
  <2>3. port' \in Seq(Requests)
    BY <1>1, <1>2
  <2> QED
    BY <1>1, <1>2, <2>1, <2>2, <2>3, SameRequests, InterfaceStep
<1>3. CASE /\ port' = Append(port, [ticket |-> tui.pending.ticket, mode |-> tui.pending.mode])
           /\ tui' = [tui EXCEPT !.pending = [@ EXCEPT !.enqueued = TRUE]]
  <2>1. PICK x \in Requests :
          x = [ticket |-> tui.pending.ticket, mode |-> tui.pending.mode]
    BY <1>1 DEF Requests
  <2>2. PICK p : p = [tui.pending EXCEPT !.enqueued = TRUE]
    OBVIOUS
  <2>3. tui' = [tui EXCEPT !.pending = p] /\ port' = Append(port, x)
    BY <1>3, <2>1, <2>2
  <2>4. /\ p \in [ticket : Tickets, enqueued : BOOLEAN, mode : Modes]
        /\ p.ticket = tui.pending.ticket /\ x.ticket = tui.pending.ticket
    BY <1>1, <2>1, <2>2
  <2>5. /\ tui' \in Tuis /\ tui'.restore = tui.restore /\ tui'.pending = p
        /\ tui'.offer = tui.offer /\ tui'.dialog = tui.dialog
    BY <1>1, <2>3, <2>4 DEF Tuis
  <2>6. port' \in Seq(Requests) /\ Range(port') \subseteq Range(port) \cup {x}
    BY <1>1, <2>3, SendIs
  <2>7. \A h \in Holders' : h \in Holders \/ h = p \/ h = x
    BY <2>5, <2>6 DEF Holders
  <2>8. tui.pending \in Holders
    BY <1>1 DEF Holders
  <2>9. Requested
    BY <2>4, <2>7, <2>8 DEF Requested
  <2>10. RestoreInv'
    BY <1>1, <2>5 DEF GoalInv, RestoreInv
  <2> QED
    BY <1>1, <2>5, <2>6, <2>9, <2>10, InterfaceStep
<1> QED
  BY <1>2, <1>3, Zenon DEF QueueIfIdle

\* A rebuilt backend brings an agent.
LEMMA RebuildStep ==
  ASSUME GoalInv, Rebuild
  PROVE  GoalInv'
<1>1. /\ tui \in Tuis /\ tui' = [tui EXCEPT !.agent = TRUE]
      /\ UNCHANGED <<store, rows, query, port, halted, earned, created, queries, events>>
      /\ port' \in Seq(Requests) /\ events' \in Nat
  BY DEF GoalInv, GoalTypes, Rebuild
<1>2. /\ tui' \in Tuis /\ tui'.restore = tui.restore /\ tui'.pending = tui.pending
      /\ tui'.offer = tui.offer /\ tui'.dialog = tui.dialog
  BY <1>1 DEF Tuis
<1>3. RestoreInv'
  BY <1>1, <1>2 DEF GoalInv, RestoreInv
<1> QED
  BY <1>1, <1>2, <1>3, SameRequests, InterfaceStep

\* A restore begins, loads and is given up.
LEMMA RequestRestoreStep ==
  ASSUME GoalInv, NEW t \in Threads, RequestRestore(t)
  PROVE  GoalInv'
<1>1. /\ tui \in Tuis /\ query = Absent
      /\ UNCHANGED <<store, rows, query, port, halted, earned, created, queries>>
      /\ port' \in Seq(Requests) /\ events' \in Nat
  BY DEF GoalInv, GoalTypes, RequestRestore, AgentReady
<1>2. PICK r : r = [thread |-> t, state |-> "loading", row |-> Absent]
  OBVIOUS
<1>3. tui' = [tui EXCEPT !.restore = r]
  BY <1>2, Zenon DEF RequestRestore
<1>4. /\ tui' \in Tuis /\ tui'.restore = r /\ tui'.pending = tui.pending
      /\ tui'.offer = tui.offer /\ tui'.dialog = tui.dialog
  BY <1>1, <1>2, <1>3 DEF Tuis, Restores
<1>5. RestoreInv'
  BY <1>1, <1>2, <1>4 DEF RestoreInv
<1> QED
  BY <1>1, <1>4, <1>5, SameRequests, InterfaceStep

\* The row that was read is the row of the thread.
LEMMA LoadRowStep ==
  ASSUME GoalInv, NEW readable \in BOOLEAN, LoadRow(readable)
  PROVE  GoalInv'
<1>1. /\ tui \in Tuis /\ tui.restore # Absent /\ tui.restore \in Restores
      /\ rows \in [Threads -> Rows \cup {Absent}] /\ query = Absent
      /\ UNCHANGED <<store, rows, query, port, halted, earned, created, queries>>
      /\ port' \in Seq(Requests)
  BY DEF GoalInv, GoalTypes, RestoreInv, LoadRow, Tuis
<1>2. events' \in Nat
  BY DEF GoalInv, GoalTypes, LoadRow
<1>3. PICK state : state = IF readable THEN "loaded" ELSE "unreadable"
  OBVIOUS
<1>4. PICK row : row = IF readable THEN rows[tui.restore.thread] ELSE Absent
  OBVIOUS
<1>5. PICK r : r = [tui.restore EXCEPT !.state = state, !.row = row]
  OBVIOUS
<1>6. tui' = [tui EXCEPT !.restore = r]
  <2>1. tui' = [tui EXCEPT !.restore = [tui.restore EXCEPT !.state = state, !.row = row]]
    BY <1>3, <1>4, Zenon DEF LoadRow
  <2> QED
    BY <1>5, <2>1, Zenon
<1>7. /\ r \in Restores /\ r.state = state /\ r.row = row /\ r.thread = tui.restore.thread
  BY <1>1, <1>3, <1>4, <1>5 DEF Restores
<1>8. /\ tui' \in Tuis /\ tui'.restore = r /\ tui'.pending = tui.pending
      /\ tui'.offer = tui.offer /\ tui'.dialog = tui.dialog
  BY <1>1, <1>6, <1>7 DEF Tuis
<1>9. RestoreInv'
  BY <1>1, <1>3, <1>4, <1>7, <1>8 DEF RestoreInv
<1> QED
  BY <1>1, <1>2, <1>8, <1>9, SameRequests, InterfaceStep

\* A restore is given up.
LEMMA CancelRestoreStep ==
  ASSUME GoalInv, CancelRestore
  PROVE  GoalInv'
<1>1. /\ tui \in Tuis /\ tui' = [tui EXCEPT !.restore = Absent]
      /\ UNCHANGED <<store, rows, query, port, halted, earned, created, queries, events>>
      /\ port' \in Seq(Requests) /\ events' \in Nat
  BY DEF GoalInv, GoalTypes, CancelRestore
<1>2. /\ tui' \in Tuis /\ tui'.restore = Absent /\ tui'.pending = tui.pending
      /\ tui'.offer = tui.offer /\ tui'.dialog = tui.dialog
  BY <1>1 DEF Tuis
<1>3. RestoreInv'
  BY <1>2 DEF RestoreInv
<1> QED
  BY <1>1, <1>2, <1>3, SameRequests, InterfaceStep

-----------------------------------------------------------------------------
(* Restores and restarts.                                                  *)

\* The store a row is restored to says what the row says.
LEMMA FromRowIs ==
  ASSUME GoalTypes, NEW t \in Threads, NEW row \in Rows \cup {Absent}
  PROVE  /\ FromRow(row, t) \in Stores /\ FromRow(row, t).bound = t
         /\ FromRow(row, t).admission \notin HeldTokens
         /\ Row(FromRow(row, t)) = row
<1>1. store \in Stores
  BY DEF GoalTypes
<1>2. PICK a \in Nat : a = Renewed(store).admission /\ a \notin HeldTokens
  BY <1>1, RenewedIs DEF Stores
<1>3. PICK m \in Nat \ {0} : m = Detached(store).membership
  BY <1>1, DetachedIs DEF Stores
<1>4. PICK g : g = IF row = Absent THEN Absent ELSE row.goal
  OBVIOUS
<1>5. PICK d \in BOOLEAN : d = (row # Absent /\ row.deferred)
  OBVIOUS
<1>6. FromRow(row, t) = [goal |-> g, deferred |-> d, admission |-> a, membership |-> m,
                         bound |-> t]
  BY <1>2, <1>3, <1>4, <1>5, Zenon DEF FromRow
<1>7. g \in GoalRecords \cup {Absent}
  BY <1>4 DEF Rows
<1>8. PICK s : s = FromRow(row, t)
  OBVIOUS
<1>9. s \in Stores /\ s.bound = t /\ s.admission = a /\ s.goal = g /\ s.deferred = d
  BY <1>6, <1>7, <1>8 DEF Stores
<1>10. Row(s) = row
  <2>1. CASE row = Absent
    BY <1>4, <1>9, <2>1 DEF Row
  <2>2. CASE row # Absent
    <3>1. row \in Rows /\ row.goal \in GoalRecords /\ row.deferred \in BOOLEAN
      BY <2>2 DEF Rows
    <3>2. d <=> row.deferred
      BY <1>5, <2>2, Zenon
    <3>3. d = row.deferred
      BY <3>1, <3>2
    <3>4. s.goal = row.goal /\ s.goal # Absent
      BY <1>4, <1>9, <2>2, <3>1, GoalAssumption
    <3>5. Row(s) = [goal |-> row.goal, deferred |-> row.deferred]
      BY <1>9, <3>3, <3>4, Zenon DEF Row
    <3>6. row = [goal |-> row.goal, deferred |-> row.deferred]
      BY <3>1 DEF Rows
    <3> QED
      BY <3>5, <3>6
  <2> QED
    BY <2>1, <2>2
<1> QED
  BY <1>2, <1>8, <1>9, <1>10

\* A store that is replaced has the goal of its row, and no query.
LEMMA ReplacedStore ==
  ASSUME GoalInv, store' \in Stores, query' = Absent,
         UNCHANGED <<rows, halted, earned, created>>,
         \/ store'.bound = Absent /\ store'.goal = Absent
         \/ store'.bound \in Threads /\ rows[store'.bound] = Row(store')
  PROVE  LedgerInv' /\ LinkInv' /\ HaltInv'
<1>1. LedgerInv /\ HaltInv
  BY DEF GoalInv
<1>2. LinkInv'
  BY DEF LinkInv
<1>3. store'.goal # Absent =>
        /\ store'.bound \in Threads /\ rows[store'.bound] # Absent
        /\ rows[store'.bound].goal = store'.goal
        /\ rows[store'.bound].deferred = store'.deferred
  BY RowIs
<1>4. LedgerInv'
  <2>1. store'.bound = Absent => store'.goal = Absent
    BY GoalAssumption
  <2>2. store'.bound # Absent => rows'[store'.bound] = Row(store')
    OBVIOUS
  <2>3. store'.goal # Absent => store'.goal.used = earned'[store'.goal.birth]
    BY <1>1, <1>3 DEF LedgerInv, GoalSound
  <2>4. GoalSound'
    BY <1>1, <2>2, <2>3 DEF GoalSound, LedgerInv, Row
  <2> QED
    BY <1>1, <2>1, <2>4 DEF LedgerInv
<1>5. HaltInv'
  BY <1>1, <1>3 DEF HaltInv
<1> QED
  BY <1>2, <1>4, <1>5

\* A thread is restored.
LEMMA FinishRestoreStep ==
  ASSUME GoalInv, NEW asks \in BOOLEAN, FinishRestore(asks)
  PROVE  GoalInv'
<1>1. /\ GoalTypes /\ store \in Stores /\ tui \in Tuis /\ tui.restore # Absent
      /\ tui.restore \in Restores /\ query = Absent /\ tui.restore.state # "loading"
      /\ UNCHANGED <<rows, query, port, halted, earned, created, queries, events>>
  BY DEF GoalInv, GoalTypes, FinishRestore, AgentReady, Tuis
<1>2. PICK t : t = [tui EXCEPT !.restore = Absent, !.asking = asks]
  OBVIOUS
<1>3. t \in Tuis /\ t.restore = Absent /\ t.dialog = tui.dialog
  BY <1>1, <1>2 DEF Tuis
<1>4. store' = IF tui.restore.state = "loaded"
               THEN FromRow(tui.restore.row, tui.restore.thread) ELSE Disabled
  BY Zenon DEF FinishRestore
<1>5. tui' = Armed(t, store')
  BY <1>2, Zenon DEF FinishRestore
<1>6. /\ store' \in Stores /\ store'.admission \notin HeldTokens
      /\ \/ store'.bound = Absent /\ store'.goal = Absent
         \/ store'.bound \in Threads /\ rows[store'.bound] = Row(store')
  <2>1. CASE tui.restore.state = "loaded"
    <3>1. PICK th \in Threads : th = tui.restore.thread
      BY <1>1 DEF Restores
    <3>2. PICK row \in Rows \cup {Absent} : row = tui.restore.row /\ row = rows[th]
      BY <1>1, <2>1, <3>1 DEF Restores, GoalInv, RestoreInv
    <3>3. store' = FromRow(row, th)
      BY <1>4, <2>1, <3>1, <3>2
    <3> QED
      BY <1>1, <3>2, <3>3, FromRowIs
  <2>2. CASE tui.restore.state # "loaded"
    <3>1. PICK r \in Stores : r = Renewed(store) /\ r.admission \notin HeldTokens
      BY <1>1, RenewedIs
    <3>2. PICK k \in Stores : k = Detached(r) /\ k.admission = r.admission
      BY <1>1, <3>1, DetachedIs
    <3>3. PICK d : d = [k EXCEPT !.goal = Absent, !.bound = Absent]
      OBVIOUS
    <3>4. /\ d \in Stores /\ d.admission = k.admission
          /\ d.bound = Absent /\ d.goal = Absent
      BY <3>2, <3>3 DEF Stores
    <3>5. k = Detached(Renewed(store))
      BY <3>1, <3>2
    <3>6. Disabled = d
      BY <3>3, <3>5, Zenon DEF Disabled
    <3>7. store' = d
      BY <1>4, <2>2, <3>6
    <3> QED
      BY <3>1, <3>2, <3>4, <3>7
  <2> QED
    BY <2>1, <2>2
<1>7. IsArmed(tui', t, store')
  <2>1. PICK s \in Stores : s = store'
    BY <1>6
  <2>2. IsArmed(Armed(t, s), t, s)
    BY <1>3, <2>1, ArmedIs
  <2> QED
    BY <1>5, <2>1, <2>2
<1>8. /\ tui' \in Tuis /\ tui'.restore = Absent /\ tui'.dialog = tui.dialog
      /\ tui'.pending # Absent =>
           store'.goal # Absent /\ tui'.pending.ticket.birth = store'.goal.birth
      /\ tui'.offer # Absent =>
           store'.goal # Absent /\ tui'.offer.ticket.birth = store'.goal.birth
  BY <1>3, <1>7 DEF IsArmed
<1>9. LedgerInv' /\ LinkInv' /\ HaltInv'
  BY <1>1, <1>6, ReplacedStore
<1>10. Requested
  <2>1. port' = port
    BY <1>1
  <2>2. Range(port') = Range(port)
    BY <2>1
  <2>3. \A h \in Holders' :
          \/ h \in Holders
          \/ h = tui'.pending /\ tui'.pending # Absent
          \/ h = tui'.offer /\ tui'.offer # Absent
    BY <1>8, <2>1, <2>2 DEF Holders
  <2> QED
    BY <1>8, <2>3 DEF Requested
<1>11. TicketInv'
  BY <1>6, <1>10, TicketStep DEF GoalInv, Requested
<1>12. GoalTypes' /\ RestoreInv'
  BY <1>1, <1>6, <1>8 DEF GoalTypes, RestoreInv
<1> QED
  BY <1>9, <1>11, <1>12 DEF GoalInv

\* Nothing is held by an interface that has just started.
LEMMA NewTuiIs ==
  NewTui \in Tuis /\ NewTui.pending = Absent /\ NewTui.offer = Absent
    /\ NewTui.dialog = Absent /\ NewTui.restore = Absent
BY DEF NewTui, Tuis

\* The process starts again.
LEMMA RestartStep ==
  ASSUME GoalInv, NEW t \in Threads, Restart(t)
  PROVE  GoalInv'
<1>1. /\ GoalTypes /\ query' = Absent /\ tui' = NewTui /\ port' = << >>
      /\ events' = events + 1
      /\ UNCHANGED <<rows, halted, earned, created, queries>>
  BY DEF GoalInv, Restart
<1>2. PICK row \in Rows \cup {Absent} : row = rows[t]
  BY <1>1 DEF GoalTypes
<1>3. PICK f \in Stores : f = FromRow(row, t) /\ f.bound = t /\ Row(f) = row
  BY <1>1, FromRowIs
<1>4. PICK s : s = [f EXCEPT !.admission = 1, !.membership = 1]
  OBVIOUS
<1>5. s \in Stores /\ s.bound = t /\ s.goal = f.goal /\ s.deferred = f.deferred
  <2>1. PICK o \in Nat \ {0} : o = 1
    OBVIOUS
  <2>2. s = [f EXCEPT !.admission = o, !.membership = o]
    BY <1>4, <2>1
  <2> QED
    BY <1>3, <2>2 DEF Stores
<1>6. store' = s
  BY <1>2, <1>3, <1>4, Zenon DEF Restart, NewStore
<1>7. Row(s) = row
  BY <1>3, <1>5 DEF Row
<1>8. LedgerInv' /\ LinkInv' /\ HaltInv'
  BY <1>1, <1>2, <1>5, <1>6, <1>7, ReplacedStore
<1>9. Holders' = {}
  <2>1. Range(port') = {}
    BY <1>1 DEF Range
  <2>2. /\ tui'.pending = Absent /\ tui'.offer = Absent /\ tui'.dialog = Absent
    BY <1>1, NewTuiIs
  <2> QED
    BY <2>1, <2>2 DEF Holders
<1>10. TicketInv'
  BY <1>9 DEF TicketInv
<1>11. GoalTypes' /\ RestoreInv'
  BY <1>1, <1>5, <1>6, NewTuiIs DEF GoalTypes, RestoreInv
<1> QED
  BY <1>8, <1>10, <1>11 DEF GoalInv

\* Nothing has happened at first.
LEMMA GoalStarts ==
  ASSUME GoalInit
  PROVE  GoalInv
<1>1. PICK t \in Threads :
        store = [goal |-> Absent, deferred |-> FALSE, admission |-> 1, membership |-> 1,
                 bound |-> t]
  BY DEF GoalInit
<1>2. /\ rows = [th \in Threads |-> Absent] /\ query = Absent /\ tui = NewTui /\ port = << >>
      /\ halted = {} /\ earned = [b \in Birth |-> 0] /\ created = 0 /\ queries = 0 /\ events = 0
  BY DEF GoalInit
<1>3. store \in Stores /\ store.goal = Absent /\ store.bound = t
  BY <1>1 DEF Stores
<1>4. GoalTypes
  BY <1>2, <1>3, NewTuiIs DEF GoalTypes
<1>5. LedgerInv
  BY <1>2, <1>3 DEF LedgerInv, GoalSound, Row
<1>6. Holders = {}
  <2>1. Range(port) = {}
    BY <1>2 DEF Range
  <2> QED
    BY <1>2, <2>1, NewTuiIs DEF Holders
<1>7. LinkInv /\ RestoreInv /\ TicketInv /\ HaltInv
  BY <1>2, <1>3, <1>6, NewTuiIs DEF LinkInv, RestoreInv, TicketInv, HaltInv
<1> QED
  BY <1>4, <1>5, <1>7 DEF GoalInv

-----------------------------------------------------------------------------
(* The queries.                                                            *)

\* A step that leaves the goal alone.
LEMMA QuietStep ==
  ASSUME GoalInv, UNCHANGED <<store, rows, halted, earned, created>>,
         GoalTypes', LinkInv', RestoreInv', Requested
  PROVE  GoalInv'
<1>1. LedgerInv' /\ HaltInv'
  BY DEF GoalInv, LedgerInv, GoalSound, Row, HaltInv
<1>2. TicketInv'
  BY TicketStep DEF GoalInv, Requested
<1> QED
  BY <1>1, <1>2 DEF GoalInv

\* A query that ended is still the member it was.
LEMMA QueryEndsStep ==
  ASSUME GoalInv, NEW state \in {"ok", "failed", "panicked"}, NEW asks \in BOOLEAN,
         QueryEnds(state, asks)
  PROVE  GoalInv'
<1>1. /\ query \in Queries /\ query # Absent /\ GoalTypes
      /\ query' = [query EXCEPT !.state = state, !.asks = asks]
      /\ UNCHANGED <<store, rows, tui, port, halted, earned, created, queries, events>>
  BY DEF GoalInv, GoalTypes, QueryEnds, Executing
<1>2. query' \in Queries /\ query'.member = query.member /\ query'.birth = query.birth
  BY <1>1 DEF Queries
<1>3. GoalTypes'
  BY <1>1, <1>2 DEF GoalTypes
<1>4. LinkInv' /\ RestoreInv'
  BY <1>1, <1>2 DEF GoalInv, LinkInv, RestoreInv
<1>5. Requested
  BY <1>1, SameRequests DEF GoalTypes
<1> QED
  BY <1>1, <1>3, <1>4, <1>5, QuietStep

\* A query that failed is charged to nobody.
LEMMA QueryFailedStep ==
  ASSUME GoalInv, QueryFailed
  PROVE  GoalInv'
<1>1. /\ GoalTypes /\ query # Absent /\ query' = Absent /\ tui \in Tuis
      /\ UNCHANGED <<store, rows, port, halted, earned, created, queries, events>>
  BY DEF GoalInv, GoalTypes, QueryFailed
<1>2. PICK back \in BOOLEAN : back = (query.state = "failed")
  OBVIOUS
<1>3. tui' = [tui EXCEPT !.agent = back]
  BY <1>2, Zenon DEF QueryFailed
<1>4. /\ tui' \in Tuis /\ tui'.restore = tui.restore /\ tui'.pending = tui.pending
      /\ tui'.offer = tui.offer /\ tui'.dialog = tui.dialog
  BY <1>1, <1>3 DEF Tuis
<1>5. GoalTypes'
  BY <1>1, <1>4 DEF GoalTypes
<1>6. LinkInv' /\ RestoreInv'
  BY <1>1, <1>4 DEF GoalInv, LinkInv, RestoreInv
<1>7. Requested
  BY <1>1, <1>4, SameRequests
<1> QED
  BY <1>1, <1>5, <1>6, <1>7, QuietStep

\* A store with other requests and a deferral of its own.
LEMMA DeferredIs ==
  ASSUME GoalInv, NEW d \in BOOLEAN
  PROVE  /\ [Renewed(store) EXCEPT !.deferred = d] \in Stores
         /\ [Renewed(store) EXCEPT !.deferred = d].goal = store.goal
         /\ [Renewed(store) EXCEPT !.deferred = d].deferred = d
         /\ [Renewed(store) EXCEPT !.deferred = d].membership = store.membership
         /\ Follows([Renewed(store) EXCEPT !.deferred = d])
         /\ Keeps([Renewed(store) EXCEPT !.deferred = d])
         /\ Renewed(store) \in Stores /\ Follows(Renewed(store))
         /\ Renewed(store).goal = store.goal /\ Renewed(store).deferred = store.deferred
         /\ Renewed(store).membership = store.membership
<1>1. GoalTypes /\ store \in Stores
  BY DEF GoalInv, GoalTypes
<1>2. PICK r \in Stores :
        /\ r = Renewed(store) /\ r.admission \notin HeldTokens /\ r.goal = store.goal
        /\ r.deferred = store.deferred /\ r.membership = store.membership
        /\ r.bound = store.bound
  BY <1>1, RenewedIs
<1>3. PICK s : s = [r EXCEPT !.deferred = d]
  OBVIOUS
<1>4. /\ s \in Stores /\ s.goal = store.goal /\ s.deferred = d
      /\ s.admission = r.admission /\ s.membership = store.membership /\ s.bound = store.bound
  BY <1>2, <1>3 DEF Stores
<1>5. Follows(s) /\ Keeps(s) /\ Follows(r)
  BY <1>2, <1>4 DEF Follows, Keeps
<1> QED
  BY <1>2, <1>3, <1>4, <1>5

\* A step of a query that charges nothing.
LEMMA TurnStep ==
  ASSUME GoalInv,
         store' \in Stores, Follows(store'), store'.bound = store.bound, Written, LedgerInv',
         store'.goal # Absent => store.goal # Absent /\ store'.goal.birth = store.goal.birth,
         rows' \in [Threads -> Rows \cup {Absent}], events' \in Nat, queries' \in Nat,
         UNCHANGED <<earned, created>>,
         query' \in Queries \cup {Absent}, LinkInv',
         tui' \in Tuis, port' \in Seq(Requests), RestoreInv', Requested,
         halted' \subseteq halted \cup Wanted(store.goal),
         \A b \in halted' : b \in halted \/ store'.goal # Absent,
         store'.goal # Absent /\ store'.goal.birth \in halted' => store'.deferred
  PROVE  GoalInv'
<1>1. GoalTypes /\ LedgerInv /\ HaltInv /\ TicketInv
  BY DEF GoalInv
<1>2. \A b \in Wanted(store.goal) :
        store.goal # Absent /\ b = store.goal.birth /\ b \in Birth /\ b <= created
  BY <1>1, GoalIsOld DEF Wanted
<1>3. halted' \in SUBSET Birth /\ \A b \in halted' : b <= created'
  BY <1>1, <1>2 DEF GoalTypes, HaltInv
<1>4. \A b \in halted' : b \in halted \/ (store'.goal # Absent /\ b = store'.goal.birth)
  BY <1>2
<1>5. created' \in Nat
  BY <1>1 DEF GoalTypes
<1>6. HaltInv'
  BY <1>1, <1>3, <1>4, <1>5, HaltStep
<1>7. GoalTypes'
  BY <1>1, <1>3 DEF GoalTypes
<1>8. TicketInv'
  BY <1>1, TicketStep DEF Follows, Requested
<1> QED
  BY <1>6, <1>7, <1>8 DEF GoalInv

\* The user stops a query: its goal is deferred, or nothing is said to be stopped.
LEMMA StopQueryStep ==
  ASSUME GoalInv, NEW ok \in BOOLEAN, StopQuery(ok)
  PROVE  GoalInv'
<1>1. /\ GoalTypes /\ HaltInv /\ query \in Queries /\ query # Absent /\ tui \in Tuis
      /\ store.deferred \in BOOLEAN /\ created \in Nat
      /\ tui' = [tui EXCEPT !.pending = Absent]
      /\ halted' = IF ok THEN halted \cup Wanted(store.goal) ELSE halted
      /\ UNCHANGED <<port, earned, created, queries>>
      /\ port' \in Seq(Requests) /\ queries' \in Nat
  BY DEF GoalInv, GoalTypes, StopQuery, Stores
<1>2. PICK stores \in BOOLEAN : stores = (store.goal # Absent /\ ~store.deferred)
  OBVIOUS
<1>3. PICK d \in BOOLEAN : d = (store.deferred \/ stores)
  OBVIOUS
<1>4. PICK r : r = Renewed(store)
  OBVIOUS
<1>5. PICK s : s = [r EXCEPT !.deferred = d]
  OBVIOUS
<1>6. /\ s \in Stores /\ s.goal = store.goal /\ s.deferred = d
      /\ s.membership = store.membership /\ Follows(s) /\ Keeps(s)
      /\ r \in Stores /\ Follows(r) /\ r.goal = store.goal /\ r.deferred = store.deferred
      /\ r.membership = store.membership
  BY <1>4, <1>5, DeferredIs
<1>7. s = [Renewed(store) EXCEPT !.deferred = @ \/ stores]
  <2>1. s = [r EXCEPT !.deferred = r.deferred \/ stores]
    BY <1>3, <1>5, <1>6, Zenon
  <2> QED
    BY <1>4, <2>1
<1>8. Save(stores, s, r, ok)
  BY <1>2, <1>4, <1>7, Zenon DEF StopQuery
<1>9. ~stores => d = store.deferred
  <2>1. ~stores => (d <=> store.deferred)
    BY <1>3, Zenon
  <2> QED
    BY <1>1, <2>1
<1>10. /\ (ok /\ store' = s) \/ (~ok /\ store' = r)
       /\ Follows(store') /\ store' \in Stores /\ store'.bound = store.bound
       /\ Written /\ LedgerInv'
       /\ rows' \in [Threads -> Rows \cup {Absent}]
       /\ events' \in Nat
  BY <1>1, <1>6, <1>8, <1>9, StoreStep
<1>11. PICK st \in {"running", "stopping", "ok", "failed", "panicked"} :
         st = IF query.state = "running" THEN "stopping" ELSE query.state
  BY <1>1 DEF Queries
<1>12. query' = [query EXCEPT !.state = st]
  <2>1. query' = [query EXCEPT !.state = IF @ = "running" THEN "stopping" ELSE @]
    BY DEF StopQuery
  <2> QED
    BY <1>11, <2>1, Zenon
<1>13. query' \in Queries /\ query'.member = query.member /\ query'.birth = query.birth
  BY <1>1, <1>11, <1>12 DEF Queries
<1>14. store'.goal = store.goal /\ store'.membership = store.membership
  BY <1>6, <1>10
<1>15. LinkInv'
  BY <1>1, <1>10, <1>13, <1>14, LinkStep DEF GoalInv
<1>16. /\ tui' \in Tuis /\ tui'.restore = tui.restore /\ tui'.pending = Absent
       /\ tui'.offer = tui.offer /\ tui'.dialog = tui.dialog
  BY <1>1 DEF Tuis
<1>17. Requested /\ RestoreInv'
  BY <1>1, <1>16, SameRequests DEF GoalInv, RestoreInv
<1>18. store.goal # Absent => d
  BY <1>2, <1>3, Zenon
<1>19. store'.goal # Absent /\ store'.goal.birth \in halted' => store'.deferred
  <2>1. CASE ok
    BY <1>6, <1>10, <1>14, <1>18, <2>1
  <2>2. CASE ~ok
    BY <1>1, <1>6, <1>10, <1>14, <2>2 DEF HaltInv
  <2> QED
    BY <2>1, <2>2
<1>20. halted' \subseteq halted \cup Wanted(store.goal)
         /\ \A b \in halted' : b \in halted \/ store'.goal # Absent
  BY <1>1, <1>14 DEF Wanted
<1> QED
  BY <1>1, <1>10, <1>13, <1>14, <1>15, <1>16, <1>17, <1>19, <1>20, TurnStep

\* A turn of the user ends the deferral, unless that cannot be written.
LEMMA UserTurnStep ==
  ASSUME GoalInv, NEW ok \in BOOLEAN, UserTurn(ok)
  PROVE  GoalInv'
<1>1. /\ GoalTypes /\ LedgerInv /\ HaltInv /\ query = Absent /\ tui \in Tuis
      /\ tui.restore = Absent
      /\ store \in Stores /\ store.deferred \in BOOLEAN /\ created \in Nat
      /\ tui' = [tui EXCEPT !.pending = Absent, !.followUp = FALSE, !.asking = FALSE]
      /\ halted' = halted \ Wanted(store.goal)
      /\ query' = Began(store, "user")
      /\ UNCHANGED <<port, earned, created>>
      /\ port' \in Seq(Requests) /\ queries' \in Nat
  BY DEF GoalInv, GoalTypes, UserTurn, AgentReady, Busy, Stores
<1>2. PICK stores \in BOOLEAN : stores = store.deferred
  BY <1>1
<1>3. PICK r : r = Renewed(store)
  OBVIOUS
<1>4. PICK s : s = [r EXCEPT !.deferred = FALSE]
  OBVIOUS
<1>5. /\ s \in Stores /\ s.goal = store.goal /\ s.deferred = FALSE
      /\ s.membership = store.membership /\ Follows(s) /\ Keeps(s)
      /\ r \in Stores /\ Follows(r) /\ r.goal = store.goal /\ r.deferred = store.deferred
      /\ r.membership = store.membership
  BY <1>3, <1>4, DeferredIs
<1>6. Save(stores, s, r, ok)
  BY <1>2, <1>3, <1>4, Zenon DEF UserTurn
<1>7. ~stores => s.deferred = store.deferred
  BY <1>1, <1>2, <1>5
<1>8. /\ (ok /\ store' = s) \/ (~ok /\ store' = r)
      /\ Follows(store') /\ store' \in Stores /\ store'.bound = store.bound
      /\ Written /\ LedgerInv'
      /\ rows' \in [Threads -> Rows \cup {Absent}]
      /\ events' \in Nat
  BY <1>1, <1>5, <1>6, <1>7, StoreStep
<1>9. store'.goal = store.goal /\ store'.membership = store.membership
  BY <1>5, <1>8
<1>10. store.goal # Absent => store.goal.birth <= created
  BY <1>1, GoalIsOld
<1>11. LinkInv' /\ query' \in Queries
  BY <1>1, <1>8, <1>9, <1>10, BeganIs
<1>12. /\ tui' \in Tuis /\ tui'.restore = tui.restore /\ tui'.pending = Absent
       /\ tui'.offer = tui.offer /\ tui'.dialog = tui.dialog
  BY <1>1 DEF Tuis
<1>13. Requested /\ RestoreInv'
  BY <1>1, <1>12, SameRequests DEF RestoreInv
<1>14. store'.goal # Absent => store'.goal.birth \notin halted'
  BY <1>1, <1>9 DEF Wanted
<1> QED
  BY <1>1, <1>8, <1>9, <1>11, <1>12, <1>13, <1>14, TurnStep

\* The first command of the port, and the others.
LEMMA TailIs ==
  ASSUME GoalTypes, port # << >>
  PROVE  /\ Head(port) \in Requests /\ Head(port) \in Holders
         /\ Tail(port) \in Seq(Requests) /\ Range(Tail(port)) \subseteq Range(port)
<1>1. PICK p \in Seq(Requests) : p = port
  BY DEF GoalTypes
<1>2. PICK n \in Nat : n = Len(p) /\ DOMAIN p = 1..n
  BY <1>1
<1>3. n >= 1
  BY <1>1, <1>2
<1>4. PICK q \in Seq(Requests) : q = Tail(p)
  <2>1. p # << >>
    BY <1>1
  <2>2. Tail(p) \in Seq(Requests)
    BY <2>1
  <2> QED
    BY <2>2
<1>5. Len(q) = n - 1 /\ DOMAIN q = 1..(n - 1) /\ \A k \in 1..(n - 1) : q[k] = p[k + 1]
  BY <1>1, <1>2, <1>3, <1>4
<1>6. Head(p) = p[1] /\ 1 \in 1..n /\ p[1] \in Requests
  BY <1>1, <1>2, <1>3
<1>7. Range(q) \subseteq Range(p)
  <2>1. \A k \in 1..(n - 1) : k + 1 \in 1..n
    BY <1>2
  <2> QED
    BY <1>2, <1>5, <2>1 DEF Range
<1>8. Head(p) \in Range(p)
  BY <1>2, <1>6 DEF Range
<1> QED
  BY <1>1, <1>4, <1>6, <1>7, <1>8 DEF Holders

\* A goal that is claimed is the same goal, within its budget or to be wrapped up.
LEMMA ClaimedIs ==
  ASSUME GoalInv, store.goal # Absent
  PROVE  /\ Claimed \in Stores /\ Follows(Claimed) /\ Keeps(Claimed)
         /\ Claimed.goal = BudgetChecked(store.goal) /\ Claimed.goal \in GoalRecords
         /\ Claimed.goal # Absent /\ Claimed.goal.birth = store.goal.birth
         /\ Claimed.deferred = FALSE
<1>1. GoalTypes /\ store \in Stores /\ store.goal \in GoalRecords
  BY DEF GoalInv, GoalTypes, Stores
<1>2. PICK r \in Stores :
        /\ r = Renewed(store) /\ r.admission \notin HeldTokens /\ r.goal = store.goal
        /\ r.deferred = store.deferred /\ r.membership = store.membership
        /\ r.bound = store.bound
  BY <1>1, RenewedIs
<1>3. PICK g \in GoalRecords :
        /\ g = BudgetChecked(store.goal)
        /\ g.birth = store.goal.birth /\ g.used = store.goal.used
  BY <1>1, BudgetCheckedIs
<1>4. PICK s : s = [r EXCEPT !.goal = g, !.deferred = FALSE]
  OBVIOUS
<1>5. /\ s \in Stores /\ s.goal = g /\ s.deferred = FALSE
      /\ s.admission = r.admission /\ s.membership = store.membership /\ s.bound = store.bound
  BY <1>2, <1>4 DEF Stores
<1>6. Claimed = s
  <2>1. s = [r EXCEPT !.goal = BudgetChecked(r.goal), !.deferred = FALSE]
    BY <1>2, <1>3, <1>4, Zenon
  <2>2. [r EXCEPT !.goal = BudgetChecked(@), !.deferred = FALSE] =
        [r EXCEPT !.goal = BudgetChecked(r.goal), !.deferred = FALSE]
    OBVIOUS
  <2> QED
    BY <1>2, <2>1, <2>2, Zenon DEF Claimed
<1>7. s.goal # Absent
  BY <1>5, GoalAssumption
<1>8. Follows(s) /\ Keeps(s)
  BY <1>2, <1>3, <1>5, <1>7 DEF Follows, Keeps
<1> QED
  BY <1>3, <1>5, <1>6, <1>7, <1>8

\* What the interface and the port are after a command is taken.
LEMMA TakenIs ==
  ASSUME GoalInv, NEW ok \in BOOLEAN, ContinueGoal(ok)
  PROVE  /\ port # << >> /\ port' \in Seq(Requests)
         /\ tui' \in Tuis /\ tui'.restore = tui.restore
         /\ Requested /\ UNCHANGED <<earned, created>>
<1>1. /\ GoalTypes /\ tui \in Tuis /\ port # << >> /\ port' = Tail(port)
      /\ UNCHANGED <<earned, created>>
  BY DEF GoalInv, GoalTypes, ContinueGoal
<1>2. PICK c \in Requests : c = Head(port) /\ c \in Holders
  BY <1>1, TailIs
<1>3. port' \in Seq(Requests) /\ Range(port') \subseteq Range(port)
  BY <1>1, TailIs
<1>4. PICK ready \in BOOLEAN : ready = (AgentReady /\ IdleForGoal)
  OBVIOUS
<1>5. PICK p : p = IF ~Matches(c) THEN tui.pending
                   ELSE IF ready THEN Absent
                   ELSE [ticket |-> c.ticket, enqueued |-> FALSE, mode |-> c.mode]
  OBVIOUS
<1>6. tui' = [tui EXCEPT !.pending = p]
  <2>1. tui' = [tui EXCEPT !.pending =
                  IF ~Matches(c) THEN @
                  ELSE IF ready THEN Absent
                  ELSE [ticket |-> c.ticket, enqueued |-> FALSE, mode |-> c.mode]]
    BY <1>2, <1>4, Zenon DEF ContinueGoal
  <2> QED
    BY <1>5, <2>1, Zenon
<1>7. /\ p \in [ticket : Tickets, enqueued : BOOLEAN, mode : Modes] \cup {Absent}
      /\ p = Absent \/ p = tui.pending \/ p.ticket = c.ticket
  <2>1. tui.pending \in [ticket : Tickets, enqueued : BOOLEAN, mode : Modes] \cup {Absent}
    BY <1>1 DEF Tuis
  <2>2. c.ticket \in Tickets /\ c.mode \in Modes
    BY DEF Requests
  <2>3. CASE p = [ticket |-> c.ticket, enqueued |-> FALSE, mode |-> c.mode]
    BY <2>2, <2>3
  <2>4. CASE p = Absent \/ p = tui.pending
    BY <2>1, <2>4
  <2> QED
    BY <1>5, <2>3, <2>4
<1>8. /\ tui' \in Tuis /\ tui'.restore = tui.restore /\ tui'.pending = p
      /\ tui'.offer = tui.offer /\ tui'.dialog = tui.dialog
  BY <1>1, <1>6, <1>7 DEF Tuis
<1>9. \A h \in Holders' : h \in Holders \/ (h = p /\ p # Absent)
  BY <1>3, <1>8 DEF Holders
<1>10. \A h \in Holders' : h \in Holders \/ h.ticket = c.ticket
  <2>1. p = tui.pending /\ p # Absent => p \in Holders
    BY DEF Holders
  <2> QED
    BY <1>7, <1>9, <2>1
<1>11. Requested
  BY <1>2, <1>10 DEF Requested
<1> QED
  BY <1>1, <1>3, <1>8, <1>11

\* A command that is not admitted changes no goal; one that is starts a query
\* toward the goal it was made for.
Refused ==
  UNCHANGED <<store, rows, events, query, queries, halted>>
Admitted(ok) ==
  LET c == Head(port) IN
  /\ Matches(c) /\ AgentReady /\ IdleForGoal /\ Admits(c.mode)
  /\ Save(Claimed.goal # store.goal \/ store.deferred, Claimed, store, ok)
  /\ query' = IF ok THEN Began(Claimed, c.mode) ELSE query
  /\ queries' = IF ok THEN queries + 1 ELSE queries
  /\ halted' = IF ok /\ c.mode = "requested" THEN halted \ Wanted(store.goal) ELSE halted

\* One of the two happens.
LEMMA TakenEither ==
  ASSUME NEW ok \in BOOLEAN, ContinueGoal(ok)
  PROVE  Refused \/ Admitted(ok)
<1>1. PICK c : c = Head(port)
  OBVIOUS
<1>2. PICK ready \in BOOLEAN : ready = (AgentReady /\ IdleForGoal)
  OBVIOUS
<1>3. PICK starts \in BOOLEAN : starts = (Matches(c) /\ ready /\ Admits(c.mode) /\ ok)
  OBVIOUS
<1>4. /\ IF Matches(c) /\ ready /\ Admits(c.mode)
         THEN Save(Claimed.goal # store.goal \/ store.deferred, Claimed, store, ok)
         ELSE ok /\ UNCHANGED <<store, rows, events>>
      /\ query' = IF starts THEN Began(Claimed, c.mode) ELSE query
      /\ queries' = IF starts THEN queries + 1 ELSE queries
      /\ halted' = IF starts /\ c.mode = "requested"
                   THEN halted \ Wanted(store.goal) ELSE halted
  BY <1>1, <1>2, <1>3, Zenon DEF ContinueGoal
<1>5. CASE Matches(c) /\ ready /\ Admits(c.mode)
  <2>1. starts <=> ok
    BY <1>3, <1>5, Zenon
  <2>2. Save(Claimed.goal # store.goal \/ store.deferred, Claimed, store, ok)
    BY <1>4, <1>5
  <2>3. AgentReady /\ IdleForGoal
    BY <1>2, <1>5, Zenon
  <2>4. /\ query' = IF ok THEN Began(Claimed, c.mode) ELSE query
        /\ queries' = IF ok THEN queries + 1 ELSE queries
        /\ halted' = IF ok /\ c.mode = "requested"
                     THEN halted \ Wanted(store.goal) ELSE halted
    BY <1>4, <2>1
  <2> QED
    BY <1>1, <1>5, <2>2, <2>3, <2>4, Zenon DEF Admitted
<1>6. CASE ~(Matches(c) /\ ready /\ Admits(c.mode))
  <2>1. ~starts
    BY <1>3, <1>6, Zenon
  <2> QED
    BY <1>4, <1>6, <2>1 DEF Refused
<1> QED
  BY <1>5, <1>6

\* A claim charges nothing, and ends a deferral only as the user wants.
LEMMA ContinueGoalStep ==
  ASSUME GoalInv, NEW ok \in BOOLEAN, ContinueGoal(ok)
  PROVE  GoalInv'
<1>1. /\ GoalTypes /\ LedgerInv /\ LinkInv /\ RestoreInv /\ HaltInv /\ TicketInv
      /\ store \in Stores /\ store.deferred \in BOOLEAN /\ created \in Nat
      /\ queries \in Nat
  BY DEF GoalInv, GoalTypes, Stores
<1>2. /\ port # << >> /\ port' \in Seq(Requests)
      /\ tui' \in Tuis /\ tui'.restore = tui.restore
      /\ Requested /\ UNCHANGED <<earned, created>>
  BY TakenIs
<1>3. CASE Refused
  <2>1. GoalTypes'
    BY <1>1, <1>2, <1>3 DEF GoalTypes, Refused
  <2>2. LinkInv' /\ RestoreInv'
    BY <1>1, <1>2, <1>3 DEF LinkInv, RestoreInv, Refused
  <2> QED
    BY <1>2, <1>3, <2>1, <2>2, QuietStep DEF Refused
<1>4. CASE Admitted(ok)
  <2>1. PICK c \in Requests : c = Head(port)
    BY <1>1, <1>2, TailIs
  <2>2. /\ query = Absent /\ tui.restore = Absent /\ store.goal # Absent
        /\ c.mode = "requested" \/ ~store.deferred
        /\ c.mode \in {"user", "automatic", "requested"}
    BY <1>4, <2>1 DEF Admitted, AgentReady, IdleForGoal, Busy, Admits, Requests, Modes
  <2>3. PICK s \in Stores :
          /\ s = Claimed /\ Follows(s) /\ Keeps(s) /\ s.goal # Absent
          /\ s.goal.birth = store.goal.birth /\ s.deferred = FALSE
    BY <2>2, ClaimedIs
  <2>4. PICK stores \in BOOLEAN : stores = (s.goal # store.goal \/ store.deferred)
    OBVIOUS
  <2>5. Save(stores, s, store, ok)
    BY <1>4, <2>3, <2>4, Zenon DEF Admitted
  <2>6. ~stores => s.goal = store.goal /\ s.deferred = store.deferred
    <3>1. ~stores => s.goal = store.goal /\ ~store.deferred
      BY <2>4, Zenon
    <3> QED
      BY <1>1, <2>3, <3>1
  <2>7. Follows(store)
    BY <1>1 DEF Follows
  <2>8. /\ (ok /\ store' = s) \/ (~ok /\ store' = store)
        /\ Follows(store') /\ store' \in Stores /\ store'.bound = store.bound
        /\ Written /\ LedgerInv'
        /\ rows' \in [Threads -> Rows \cup {Absent}]
        /\ events' \in Nat
    BY <1>2, <2>3, <2>5, <2>6, <2>7, StoreStep
  <2>9. store'.goal # Absent /\ store'.goal.birth = store.goal.birth
    BY <2>2, <2>3, <2>8
  <2>10. RestoreInv'
    BY <1>2, <2>2 DEF RestoreInv
  <2>11. CASE ok
    <3>1. store' = s /\ query' = Began(s, c.mode) /\ queries' = queries + 1
      BY <1>4, <2>1, <2>3, <2>8, <2>11 DEF Admitted
    <3>2. store.goal.birth <= created
      BY <1>1, <2>2, GoalIsOld
    <3>3. LinkInv' /\ query' \in Queries
      BY <1>1, <1>2, <2>2, <2>3, <3>1, <3>2, BeganIs
    <3>4. halted' \subseteq halted /\ store.goal.birth \notin halted'
      <4>1. CASE c.mode = "requested"
        BY <1>4, <2>1, <2>2, <2>11, <4>1 DEF Admitted, Wanted
      <4>2. CASE c.mode # "requested"
        BY <1>1, <1>4, <2>1, <2>2, <2>11, <4>2 DEF Admitted, HaltInv
      <4> QED
        BY <4>1, <4>2
    <3> QED
      BY <1>1, <1>2, <2>2, <2>8, <2>9, <2>10, <3>1, <3>3, <3>4, TurnStep
  <2>12. CASE ~ok
    <3>1. /\ store' = store /\ query' = query /\ queries' = queries /\ halted' = halted
      BY <1>4, <2>8, <2>12 DEF Admitted
    <3>2. LinkInv' /\ query' \in Queries \cup {Absent}
      BY <2>2, <3>1 DEF LinkInv
    <3> QED
      BY <1>1, <1>2, <2>2, <2>8, <2>9, <2>10, <3>1, <3>2, TurnStep DEF HaltInv
  <2> QED
    BY <2>11, <2>12
<1> QED
  BY <1>3, <1>4, TakenEither

\* The goal after a query that succeeded is the same goal, charged when the query
\* was a member of it.
LEMMA AccountedIs ==
  ASSUME GoalInv, query # Absent, store.goal # Absent
  PROVE  /\ Accounted \in GoalRecords
         /\ Accounted.birth = store.goal.birth /\ Accounted.id = store.goal.id
         /\ ~(store.goal.status = "Complete" /\ Accounted.status = "Pursuing")
         /\ query.birth = store.goal.birth => Accounted.used = store.goal.used + 1
         /\ query.birth # store.goal.birth => Accounted.used = store.goal.used
         /\ GoesOn => \/ Accounted.status = "BudgetLimited"
                      \/ Accounted.status = "Pursuing" /\ ~Exhausted(Accounted)
<1>1. store.goal \in GoalRecords /\ store.goal.used \in Nat
  BY GoalIsOld DEF GoalInv
<1>2. query.member = store.membership <=> query.birth = store.goal.birth
  BY DEF GoalInv, LinkInv
<1>3. PICK c \in GoalRecords :
        /\ c = Charged
        /\ c.birth = store.goal.birth /\ c.id = store.goal.id /\ c.status = store.goal.status
        /\ query.birth = store.goal.birth => c.used = store.goal.used + 1
        /\ query.birth # store.goal.birth => c.used = store.goal.used
  <2>1. CASE query.member = store.membership
    <3>1. PICK u \in Nat : u = store.goal.used + 1
      BY <1>1
    <3>2. PICK c : c = [store.goal EXCEPT !.used = u]
      OBVIOUS
    <3>3. Charged = c
      <4>1. Charged = [store.goal EXCEPT !.used = @ + 1]
        BY <2>1, Zenon DEF Charged
      <4> QED
        BY <3>1, <3>2, <4>1
    <3>4. /\ c \in GoalRecords /\ c.birth = store.goal.birth /\ c.id = store.goal.id
          /\ c.status = store.goal.status /\ c.used = u
      BY <1>1, <3>2 DEF GoalRecords
    <3> QED
      BY <1>2, <2>1, <3>1, <3>3, <3>4
  <2>2. CASE query.member # store.membership
    <3>1. Charged = store.goal
      BY <2>2, Zenon DEF Charged
    <3> QED
      BY <1>1, <1>2, <2>2, <3>1
  <2> QED
    BY <2>1, <2>2
<1>4. PICK n \in GoalRecords :
        /\ n = BudgetChecked(c) /\ n.birth = c.birth /\ n.id = c.id /\ n.used = c.used
        /\ n.status \in {c.status, "BudgetLimited"}
        /\ n.status # "BudgetLimited" => ~Exhausted(n)
  BY BudgetCheckedIs
<1>5. CASE GoesOn
  <2>1. Accounted = n
    BY <1>3, <1>4, <1>5, Zenon DEF Accounted
  <2>2. store.goal.status = "Pursuing"
    BY <1>5 DEF GoesOn
  <2> QED
    BY <1>3, <1>4, <2>1, <2>2
<1>6. CASE ~GoesOn
  <2>1. Accounted = c
    BY <1>3, <1>6, Zenon DEF Accounted
  <2> QED
    BY <1>3, <1>6, <2>1
<1> QED
  BY <1>5, <1>6

\* What a query that succeeded leaves: the goal it was charged to, written with
\* the charge, or everything as it was.
LEMMA ChargeIs ==
  ASSUME GoalInv, NEW ok \in BOOLEAN, QuerySucceeded(ok), query # Absent
  PROVE  /\ store' \in Stores /\ store'.bound = store.bound /\ Follows(store')
         /\ Written /\ events' \in Nat
         /\ store'.deferred = store.deferred
         /\ store'.membership = store.membership
         /\ store.goal = Absent => store'.goal = Absent
         /\ store.goal # Absent =>
              /\ store'.goal # Absent /\ store'.goal.birth = store.goal.birth
              /\ store'.goal = IF ok THEN Accounted ELSE store.goal
         /\ ok /\ Continues => /\ query' = Began(Mutated(store, Accounted), "automatic")
                               /\ Mutated(store, Accounted) \in Stores
                               /\ Mutated(store, Accounted).goal = store'.goal
                               /\ Mutated(store, Accounted).membership = store'.membership
         /\ ~(ok /\ Continues) => query' = Absent
<1>1. GoalTypes /\ store \in Stores /\ events \in Nat
  BY DEF GoalInv, GoalTypes
<1>2. PICK n \in GoalRecords \cup {Absent} :
        /\ n = Accounted
        /\ store.goal = Absent => n = Absent
        /\ store.goal # Absent =>
             /\ n # Absent /\ n.birth = store.goal.birth /\ n.id = store.goal.id
             /\ ~(store.goal.status = "Complete" /\ n.status = "Pursuing")
  <2>1. CASE store.goal = Absent
    <3>1. Accounted = Absent
      BY <2>1 DEF Accounted, GoesOn, Charged
    <3> QED
      BY <2>1, <3>1
  <2>2. CASE store.goal # Absent
    BY <2>2, AccountedIs, GoalAssumption
  <2> QED
    BY <2>1, <2>2
<1>3. PICK s : s = Mutated(store, n) /\ IsMutated(s, n)
  BY <1>1, MutatedIs
<1>4. store.goal # Absent => SameGoal(store.goal, n)
  BY <1>2 DEF SameGoal
<1>5. /\ s \in Stores /\ s.goal = n /\ s.bound = store.bound
      /\ s.deferred = store.deferred /\ s.membership = store.membership
      /\ n = store.goal => s = store
      /\ s.admission \notin HeldTokens \/ s.admission = store.admission
  BY <1>2, <1>3, <1>4 DEF IsMutated
<1>6. PICK r \in Stores :
        /\ r = Renewed(s) /\ r.admission \notin HeldTokens /\ r.goal = n
        /\ r.deferred = store.deferred /\ r.membership = store.membership
        /\ r.bound = store.bound
  BY <1>1, <1>5, RenewedIs
<1>7. PICK goes \in BOOLEAN : goes <=> Continues
  BY DEF Continues
<1>8. PICK x \in Stores : x = IF goes THEN r ELSE s
  BY <1>5
<1>9. PICK stores \in BOOLEAN : stores = (n # store.goal)
  OBVIOUS
<1>10. Save(stores, x, store, ok)
  <2>1. Save(Accounted # store.goal,
             IF Continues THEN Renewed(Mutated(store, Accounted)) ELSE Mutated(store, Accounted),
             store, ok)
    BY Zenon DEF QuerySucceeded
  <2>2. x = IF Continues THEN Renewed(Mutated(store, Accounted)) ELSE Mutated(store, Accounted)
    <3>1. CASE goes
      BY <1>2, <1>3, <1>6, <1>7, <1>8, <3>1, Zenon
    <3>2. CASE ~goes
      BY <1>2, <1>3, <1>7, <1>8, <3>2, Zenon
    <3> QED
      BY <3>1, <3>2
  <2> QED
    BY <1>2, <1>9, <2>1, <2>2, Zenon
<1>11. /\ x.goal = n /\ x.bound = store.bound /\ x.deferred = store.deferred
       /\ x.membership = store.membership
       /\ x.admission \notin HeldTokens \/ x.admission = store.admission
  BY <1>5, <1>6, <1>8
<1>12. /\ \/ /\ ok /\ store' = x /\ stores /\ store.bound # Absent
             /\ rows' = [rows EXCEPT ![store.bound] = Row(x)]
          \/ ok /\ store' = x /\ ~stores /\ rows' = rows
          \/ ~ok /\ store' = store /\ stores /\ rows' = rows
       /\ events' \in Nat
  <2>1. \/ /\ ok /\ store' = x /\ stores /\ store.bound # Absent
           /\ rows' = [rows EXCEPT ![store.bound] = Row(x)]
        \/ ok /\ store' = x /\ ~stores /\ rows' = rows
        \/ ~ok /\ store' = store /\ stores /\ rows' = rows
    BY <1>1, <1>10, SaveIs
  <2>2. events' \in Nat
    BY <1>1, <1>10, SaveIs
  <2> QED
    BY <2>1, <2>2
<1>13. Written
  BY <1>9, <1>11, <1>12 DEF Written
<1>14. /\ store' \in Stores /\ store'.bound = store.bound
       /\ store'.deferred = store.deferred /\ store'.membership = store.membership
       /\ store'.admission \notin HeldTokens \/ store'.admission = store.admission
       /\ store'.goal = IF ok THEN n ELSE store.goal
  BY <1>1, <1>11, <1>12
<1>15. /\ store.goal = Absent => store'.goal = Absent
       /\ store.goal # Absent => store'.goal # Absent /\ store'.goal.birth = store.goal.birth
  BY <1>2, <1>14
<1>16. Follows(store')
  BY <1>14, <1>15 DEF Follows
<1>17. query' = IF ok /\ Continues THEN Began(Mutated(store, Accounted), "automatic") ELSE Absent
  BY Zenon DEF QuerySucceeded
<1>18. ok => s.goal = store'.goal
  BY <1>5, <1>14
<1> QED
  BY <1>2, <1>3, <1>5, <1>12, <1>13, <1>14, <1>15, <1>16, <1>17, <1>18

\* A query that succeeded is charged to its goal, once, and to no other.
LEMMA QuerySucceededStep ==
  ASSUME GoalInv, NEW ok \in BOOLEAN, QuerySucceeded(ok)
  PROVE  GoalInv'
<1>1. /\ GoalTypes /\ LedgerInv /\ HaltInv /\ TicketInv /\ query # Absent /\ query \in Queries
      /\ tui \in Tuis /\ tui.restore = Absent /\ created \in Nat
      /\ earned \in [Birth -> Nat] /\ halted \in SUBSET Birth /\ queries \in Nat
      /\ UNCHANGED <<port, halted, created>> /\ port' \in Seq(Requests)
  BY DEF GoalInv, GoalTypes, QuerySucceeded, RestoreInv
<1>2. PICK starts \in BOOLEAN : starts <=> (ok /\ Continues)
  BY DEF Continues
<1>3. /\ queries' = IF starts THEN queries + 1 ELSE queries
      /\ tui' = [tui EXCEPT !.asking = query.asks, !.pending = IF starts THEN Absent ELSE @]
      /\ earned' = [b \in Birth |->
             IF ok /\ b = query.birth /\ b \in Wanted(store.goal)
             THEN earned[b] + 1 ELSE earned[b]]
  <2>1. PICK st \in BOOLEAN : st = (ok /\ Continues)
    OBVIOUS
  <2>2. st = starts
    BY <1>2, <2>1
  <2>3. /\ queries' = IF st THEN queries + 1 ELSE queries
        /\ tui' = [tui EXCEPT !.asking = query.asks, !.pending = IF st THEN Absent ELSE @]
        /\ earned' = [b \in Birth |->
               IF ok /\ b = query.birth /\ b \in Wanted(store.goal)
               THEN earned[b] + 1 ELSE earned[b]]
    BY <2>1, Zenon DEF QuerySucceeded
  <2> QED
    BY <2>2, <2>3
<1>4. /\ store' \in Stores /\ store'.bound = store.bound /\ Follows(store')
      /\ Written /\ events' \in Nat
      /\ store'.deferred = store.deferred
      /\ store.goal = Absent => store'.goal = Absent
      /\ store.goal # Absent =>
           /\ store'.goal # Absent /\ store'.goal.birth = store.goal.birth
           /\ store'.goal = IF ok THEN Accounted ELSE store.goal
  BY <1>1, ChargeIs
<1>5. /\ earned' \in [Birth -> Nat]
      /\ \A b \in Birth : earned'[b] # earned[b] => store.goal # Absent /\ b = store.goal.birth
  BY <1>1, <1>3 DEF Wanted
<1>6. store.goal # Absent => store'.goal.used = earned'[store.goal.birth]
  <2> SUFFICES ASSUME store.goal # Absent
               PROVE  store'.goal.used = earned'[store.goal.birth]
    OBVIOUS
  <2>1. /\ store.goal.birth \in Birth /\ store.goal.used \in Nat
        /\ store.goal.used = earned[store.goal.birth]
    BY <1>1, GoalIsOld
  <2>2. /\ query.birth = store.goal.birth => Accounted.used = store.goal.used + 1
        /\ query.birth # store.goal.birth => Accounted.used = store.goal.used
    BY <1>1, AccountedIs
  <2>3. earned'[store.goal.birth] = IF ok /\ store.goal.birth = query.birth
                                    THEN earned[store.goal.birth] + 1
                                    ELSE earned[store.goal.birth]
    BY <1>3, <2>1 DEF Wanted
  <2> QED
    BY <1>4, <2>1, <2>2, <2>3
<1>7. LedgerInv' /\ rows' \in [Threads -> Rows \cup {Absent}]
  <2>1. created' \in Nat /\ created' >= created
    BY <1>1
  <2>2. store'.goal # Absent =>
           /\ store'.goal.used = earned'[store'.goal.birth]
           /\ \/ store.goal # Absent /\ store'.goal.birth = store.goal.birth
              \/ store'.goal.birth = created + 1 /\ created' = created + 1
    BY <1>4, <1>6
  <2>3. \A b \in Birth : earned'[b] # earned[b] => store'.goal # Absent /\ b = store'.goal.birth
    BY <1>4, <1>5
  <2> QED
    BY <1>1, <1>4, <1>5, <2>1, <2>2, <2>3, LedgerStep
<1>8. LinkInv' /\ query' \in Queries \cup {Absent}
  <2>1. CASE ok /\ Continues
    <3>1. PICK s \in Stores : /\ s = Mutated(store, Accounted) /\ s.goal = store'.goal
                              /\ s.membership = store'.membership
                              /\ query' = Began(s, "automatic")
      BY <1>1, <2>1, ChargeIs
    <3>2. s.goal # Absent => s.goal.birth <= created'
      BY <1>1, <1>4, <3>1, GoalIsOld
    <3>3. created' \in Nat
      BY <1>1
    <3> QED
      BY <1>4, <3>1, <3>2, <3>3, BeganIs
  <2>2. CASE ~(ok /\ Continues)
    <3>1. query' = Absent
      BY <1>1, <2>2, ChargeIs
    <3> QED
      BY <3>1 DEF LinkInv
  <2> QED
    BY <2>1, <2>2
<1>9. /\ tui' \in Tuis /\ tui'.restore = Absent /\ tui'.pending \in {tui.pending, Absent}
      /\ tui'.offer = tui.offer /\ tui'.dialog = tui.dialog
  <2>1. PICK p : p = IF starts THEN Absent ELSE tui.pending
    OBVIOUS
  <2>2. PICK a \in BOOLEAN : a = query.asks
    BY <1>1 DEF Queries
  <2>3. tui' = [tui EXCEPT !.asking = a, !.pending = p]
    BY <1>3, <2>1, <2>2, Zenon
  <2> QED
    BY <1>1, <2>1, <2>3, ZenonT(40) DEF Tuis
<1>10. Requested /\ RestoreInv'
  BY <1>1, <1>9, SameRequests DEF RestoreInv
<1>11. GoalTypes'
  BY <1>1, <1>3, <1>4, <1>5, <1>7, <1>8, <1>9 DEF GoalTypes
<1>12. TicketInv'
  BY <1>1, <1>4, <1>10, TicketStep DEF Requested, Follows
<1>13. HaltInv'
  <2>1. store'.goal # Absent /\ store'.goal.birth \in halted' => store'.deferred
    BY <1>1, <1>4 DEF HaltInv
  <2>2. \A b \in halted' : b <= created'
    BY <1>1 DEF HaltInv
  <2>3. created' \in Nat
    BY <1>1
  <2> QED
    BY <1>1, <1>4, <1>7, <2>1, <2>2, <2>3, HaltStep
<1> QED
  BY <1>7, <1>8, <1>10, <1>11, <1>12, <1>13 DEF GoalInv

-----------------------------------------------------------------------------
(* The theorems.                                                           *)

\* Every step of the program keeps the invariant.
LEMMA GoalStepKeeps ==
  ASSUME GoalInv, [GoalNext]_goalVars
  PROVE  GoalInv'
<1>1. CASE UNCHANGED goalVars
  <2>1. UNCHANGED <<store, rows, query, tui, port, halted, earned, created, queries, events>>
    BY <1>1 DEF goalVars
  <2>2. GoalTypes' /\ LedgerInv' /\ LinkInv' /\ RestoreInv' /\ HaltInv'
    BY <2>1 DEF GoalInv, GoalTypes, LedgerInv, GoalSound, Row, LinkInv, RestoreInv, HaltInv
  <2>3. TicketInv'
    <3>1. Holders' = Holders
      BY <2>1 DEF Holders
    <3> QED
      BY <2>1, <3>1 DEF GoalInv, TicketInv, Matches
  <2> QED
    BY <2>2, <2>3 DEF GoalInv
<1>2. CASE GoalNext
  <2>1. ASSUME NEW ok \in BOOLEAN,
               \/ Pause(ok) \/ Clear(ok) \/ Resume(ok) \/ ConfirmResume(ok)
               \/ UserTurn(ok) \/ StopQuery(ok) \/ QuerySucceeded(ok) \/ ContinueGoal(ok)
        PROVE  GoalInv'
    BY <2>1, PauseStep, ClearStep, ResumeStep, ConfirmResumeStep, UserTurnStep,
       StopQueryStep, QuerySucceededStep, ContinueGoalStep
  <2>2. ASSUME NEW ok \in BOOLEAN, NEW id \in GoalIds, NEW b \in Budgets,
               SetGoal(id, b, ok) \/ ConfirmReplace(id, b, ok) \/ CreateGoal(id, b, ok)
        PROVE  GoalInv'
    BY <2>2, SetGoalStep, ConfirmReplaceStep, CreateGoalStep
  <2>3. ASSUME NEW ok \in BOOLEAN, NEW id \in GoalIds, ConfirmEdit(id, ok)
        PROVE  GoalInv'
    BY <2>3, ConfirmEditStep
  <2>4. ASSUME NEW ok \in BOOLEAN, NEW status \in {"Complete", "Blocked"}, UpdateGoal(status, ok)
        PROVE  GoalInv'
    BY <2>4, UpdateGoalStep
  <2>5. ASSUME NEW kind \in {"edit", "replace"}, OpenDialog(kind)
        PROVE  GoalInv'
    BY <2>5, OpenDialogStep
  <2>6. ASSUME NEW state \in {"ok", "failed", "panicked"}, NEW asks \in BOOLEAN,
               QueryEnds(state, asks)
        PROVE  GoalInv'
    BY <2>6, QueryEndsStep
  <2>7. ASSUME NEW t \in Threads, RequestRestore(t) \/ Restart(t)
        PROVE  GoalInv'
    BY <2>7, RequestRestoreStep, RestartStep
  <2>8. ASSUME NEW readable \in BOOLEAN, LoadRow(readable)
        PROVE  GoalInv'
    BY <2>8, LoadRowStep
  <2>9. ASSUME NEW asks \in BOOLEAN, FinishRestore(asks)
        PROVE  GoalInv'
    BY <2>9, FinishRestoreStep
  <2>10. CASE CloseDialog \/ QueueFollowUp \/ QueryFailed \/ Rebuild \/ OfferResume
                \/ QueueIfIdle \/ CancelRestore
    BY <2>10, CloseDialogStep, QueueFollowUpStep, QueryFailedStep, RebuildStep,
       OfferResumeStep, QueueIfIdleStep, CancelRestoreStep
  <2> QED
    BY <1>2, <2>1, <2>2, <2>3, <2>4, <2>5, <2>6, <2>7, <2>8, <2>9, <2>10, Zenon DEF GoalNext
<1> QED
  BY <1>1, <1>2

\* The invariant of the goals holds in every behaviour.
THEOREM GoalInvariant == GoalSpec => []GoalInv
<1>1. GoalInit => GoalInv
  BY GoalStarts
<1>2. GoalInv /\ [GoalNext]_goalVars => GoalInv'
  BY GoalStepKeeps
<1> QED
  BY <1>1, <1>2, PTL DEF GoalSpec

\* The goal in memory is the row of its thread, and each goal was charged for the
\* successful queries that worked for it and for no other (GoalStore, whatever
\* write fails).
THEOREM GoalsAreSound == GoalSpec => []GoalSound
<1>1. GoalInv => GoalSound
  BY DEF GoalInv, LedgerInv
<1> QED
  BY <1>1, GoalInvariant, PTL

\* A query that starts because another succeeded is one toward a goal that is
\* active, or at the end of its budget, and that nobody stopped.
LEMMA GoesOnWanted ==
  ASSUME GoalInv, NEW ok \in BOOLEAN, QuerySucceeded(ok), queries' # queries
  PROVE  /\ query'.why = "automatic" => store'.goal.birth \notin halted
         /\ \/ store'.goal.status = "BudgetLimited"
            \/ store'.goal.status = "Pursuing" /\ ~Exhausted(store'.goal)
         /\ port' = port
<1>1. query # Absent /\ port' = port
  BY DEF QuerySucceeded
<1>2. ok /\ Continues
  <2>1. PICK st \in BOOLEAN : st = (ok /\ Continues)
    OBVIOUS
  <2>2. queries' = IF st THEN queries + 1 ELSE queries
    BY <2>1, Zenon DEF QuerySucceeded
  <2>3. st
    BY <2>2
  <2> QED
    BY <2>1, <2>3, Zenon
<1>3. GoesOn /\ ~store.deferred /\ store.goal # Absent
  BY <1>2 DEF Continues, GoesOn
<1>4. store'.goal = Accounted /\ store'.goal.birth = store.goal.birth
  BY <1>1, <1>2, <1>3, ChargeIs
<1>5. \/ Accounted.status = "BudgetLimited"
      \/ Accounted.status = "Pursuing" /\ ~Exhausted(Accounted)
  BY <1>1, <1>3, AccountedIs
<1>6. store.goal.birth \notin halted
  BY <1>3 DEF GoalInv, HaltInv
<1> QED
  BY <1>1, <1>4, <1>5, <1>6

\* A query that a request starts is one toward the goal the request was made for,
\* which is active, or at the end of its budget, and which the user did not stop
\* since, unless the user asked.
LEMMA ClaimIsWanted ==
  ASSUME GoalInv, NEW ok \in BOOLEAN, ContinueGoal(ok), queries' # queries
  PROVE  /\ query'.why = "automatic" => store'.goal.birth \notin halted
         /\ \/ store'.goal.status = "BudgetLimited"
            \/ store'.goal.status = "Pursuing" /\ ~Exhausted(store'.goal)
         /\ Head(port).ticket.birth = store'.goal.birth
<1>1. GoalTypes /\ port # << >>
  BY DEF GoalInv, ContinueGoal
<1>2. Admitted(ok)
  BY TakenEither DEF Refused
<1>3. PICK c \in Requests : c = Head(port) /\ c \in Holders
  BY <1>1, TailIs
<1>4. /\ Matches(c) /\ Admits(c.mode) /\ ok
      /\ Save(Claimed.goal # store.goal \/ store.deferred, Claimed, store, ok)
      /\ query' = Began(Claimed, c.mode)
  BY <1>2, <1>3 DEF Admitted
<1>5. store.goal # Absent /\ c.ticket.birth = store.goal.birth
  BY <1>3, <1>4 DEF GoalInv, TicketInv
<1>6. store' = Claimed
  BY <1>4 DEF Save
<1>7. PICK g \in GoalRecords :
        g = store'.goal /\ g = BudgetChecked(store.goal) /\ g.birth = store.goal.birth
  BY <1>5, <1>6, ClaimedIs
<1>8. store.goal \in GoalRecords
  BY <1>1, <1>5 DEF GoalTypes, Stores
<1>9. /\ g.status \in {store.goal.status, "BudgetLimited"}
      /\ g.status # "BudgetLimited" => ~Exhausted(g)
  BY <1>7, <1>8, BudgetCheckedIs
<1>10. store.goal.status \in {"Pursuing", "BudgetLimited"}
  BY <1>4 DEF Admits
<1>11. query'.why = c.mode
  BY <1>4, Zenon DEF Began
<1>12. c.mode = "automatic" => store.goal.birth \notin halted
  BY <1>4, <1>5 DEF Admits, GoalInv, HaltInv
<1> QED
  BY <1>3, <1>5, <1>7, <1>9, <1>10, <1>11, <1>12

\* A query toward a goal starts only as the user wants it (continue_goal and
\* claim_continuation), across stale requests, other threads and restarts.
THEOREM ContinuationsAreWanted == GoalSpec => ContinuationsWanted
<1> DEFINE A == queries' # queries /\ query'.why # "user" =>
                  LET g == store'.goal IN
                  /\ query'.why = "automatic" => g.birth \notin halted
                  /\ g.status = "BudgetLimited" \/ (g.status = "Pursuing" /\ ~Exhausted(g))
                  /\ port' # port => Head(port).ticket.birth = g.birth
<1>1. GoalInv /\ [GoalNext]_goalVars => [A]_goalVars
  <2> SUFFICES ASSUME GoalInv, GoalNext, queries' # queries, query'.why # "user"
               PROVE  LET g == store'.goal IN
                      /\ query'.why = "automatic" => g.birth \notin halted
                      /\ g.status = "BudgetLimited" \/ (g.status = "Pursuing" /\ ~Exhausted(g))
                      /\ port' # port => Head(port).ticket.birth = g.birth
    OBVIOUS
  <2>1. \E ok \in BOOLEAN : UserTurn(ok) \/ QuerySucceeded(ok) \/ ContinueGoal(ok)
    BY DEF GoalNext, Pause, Clear, Resume, ConfirmResume, StopQuery, SetGoal, ConfirmReplace,
       CreateGoal, ConfirmEdit, UpdateGoal, OpenDialog, CloseDialog, QueueFollowUp, QueryEnds,
       QueryFailed, Rebuild, OfferResume, QueueIfIdle, RequestRestore, Restart, LoadRow,
       FinishRestore, CancelRestore
  <2>2. ASSUME NEW ok \in BOOLEAN, UserTurn(ok) PROVE FALSE
    <3>1. query' = Began(store, "user")
      BY <2>2 DEF UserTurn
    <3>2. query'.why = "user"
      BY <3>1, Zenon DEF Began
    <3> QED
      BY <3>2
  <2> QED
    BY <2>1, <2>2, GoesOnWanted, ClaimIsWanted
<1> QED
  BY <1>1, GoalInvariant, PTL DEF ContinuationsWanted, GoalSpec
=============================================================================
