-------------------------------- MODULE Goals --------------------------------
(***************************************************************************)
(* The goal of a thread (runtime_goals.rs) and the automatic work toward   *)
(* it.  Three parties change the goal: the tools of the query that runs    *)
(* (tools/goal.rs), the commands and dialogs of the terminal interface     *)
(* (tui/runtime/goals.rs), and the completion of a query, which charges    *)
(* the goal and may continue with another query (continue_goal).  A        *)
(* request to continue travels through the command port as a ticket        *)
(* (tui/goal_resume.rs), so anything may happen before it is admitted.     *)
(*                                                                         *)
(* GoalStore serialises all of this with a lock and writes the row of the  *)
(* thread before it publishes the change.  A ticket, and a query, hold the *)
(* pointer the store had when they began; an address is used again only    *)
(* when nobody holds it.                                                   *)
(*                                                                         *)
(* `id` is what the code tells goals apart by, objective and second of     *)
(* creation; `birth` is history and unique.  A query uses one unit of the  *)
(* budget.                                                                 *)
(***************************************************************************)
EXTENDS Integers, Sequences, FiniteSets, Functions

CONSTANTS
  Threads,
  Absent,       \* no thread, goal, row, ticket, dialog, restore or query
  GoalIds,
  Budgets,      \* token budgets, 0 for none
  MaxGoals,     \* bound: goals ever created
  MaxQueries,   \* bound: queries ever started
  MaxCommands,  \* bound: requests to continue in the port
  MaxEvents     \* bound: dialogs, restores, restarts, queued messages, I/O errors

VARIABLES
  store,    \* GoalState: goal, deferred, admission, membership, bound
  rows,     \* the goals table: [thread -> row]
  query,    \* the running query: why, state, asks, member; birth is history
  tui,      \* pending, offer, dialog, asking, followUp, restore, agent
  port,     \* the ContinueGoal commands on their way to the processor
  halted,   \* history: the goals whose continuation the user stopped
  earned,   \* history: per goal, the successful queries that worked for it
  created,  \* goals created so far
  queries,  \* queries started so far
  events    \* dialogs, restores, restarts, queued messages, I/O errors so far

goalVars == <<store, rows, query, tui, port, halted, earned, created, queries,
              events>>

-----------------------------------------------------------------------------
(* Goals and the store.                                                    *)

Birth == 1..MaxGoals
GoalStatuses == {"Pursuing", "Paused", "Blocked", "BudgetLimited", "Complete"}
GoalRecords ==
  [id : GoalIds, birth : Birth, status : GoalStatuses, used : Nat, budget : Nat]
Rows == [goal : GoalRecords, deferred : BOOLEAN]

ASSUME GoalAssumption ==
  /\ MaxGoals \in Nat /\ Budgets \subseteq Nat
  /\ Absent \notin Threads /\ Absent \notin GoalStatuses
  /\ Absent \notin GoalRecords /\ Absent \notin Rows

NewGoal(id, budget) ==
  [id |-> id, birth |-> created + 1, status |-> "Pursuing", used |-> 0,
   budget |-> budget]
Exhausted(g) == g.budget # 0 /\ g.used >= g.budget
BudgetChecked(g) == IF Exhausted(g) THEN [g EXCEPT !.status = "BudgetLimited"] ELSE g

Row(s) == IF s.goal = Absent THEN Absent ELSE [goal |-> s.goal, deferred |-> s.deferred]

\* Arc::new: a pointer unlike all that are held; whether it differs from the one
\* it replaces, which nobody can tell, is left out.
Fresh(held) == CHOOSE n \in 1..(Cardinality(held) + 1) : n \notin held

\* A request names the admission it was made under, the goal is history.
Ticket(s) == [token |-> s.admission, birth |-> s.goal.birth]
Holders == ({tui.pending, tui.offer, tui.dialog} \ {Absent}) \cup Range(port)
HeldTokens == {h.ticket.token : h \in Holders}
Matches(h) == h.ticket.token = store.admission

Renewed(s) == [s EXCEPT !.admission = Fresh(HeldTokens)]
Detached(s) ==
  [s EXCEPT !.membership =
     Fresh(IF query = Absent THEN {} ELSE {query.member})]

\* Mutant: a goal is the same as long as its objective and second are.
SameObjective(g, n) == g # Absent /\ n # Absent /\ g.id = n.id
\* mutate_for_turn: whether the change leaves the goal what it was.
SameGoal(g, n) ==
  /\ g # Absent /\ n # Absent
  /\ g.id = n.id
  /\ ~(g.status = "Complete" /\ n.status = "Pursuing")

\* mutate_for_turn, after its write.
Mutated(s, n) ==
  LET kept == [Renewed(s) EXCEPT !.goal = n, !.deferred = @ /\ SameGoal(s.goal, n)]
  IN IF n = s.goal THEN s
     ELSE IF SameGoal(s.goal, n) THEN kept ELSE Detached(kept)

Replaced(s, n) ==
  Detached([Renewed(s) EXCEPT !.goal = n, !.deferred = FALSE])

\* Mutant: a restored goal is continued by requests made for the last one.
KeepsRequests(row, t) ==
  [goal |-> IF row = Absent THEN Absent ELSE row.goal,
   deferred |-> row # Absent /\ row.deferred,
   admission |-> store.admission,
   membership |-> Detached(store).membership,
   bound |-> t]
\* prepare_restore: a store with pointers of its own.
FromRow(row, t) ==
  [goal |-> IF row = Absent THEN Absent ELSE row.goal,
   deferred |-> row # Absent /\ row.deferred,
   admission |-> Renewed(store).admission,
   membership |-> Detached(store).membership,
   bound |-> t]
\* disable_after_persistence_failure.
Disabled ==
  [Detached(Renewed(store)) EXCEPT !.goal = Absent, !.bound = Absent]

\* persist: the row is written first, and s published only if that succeeds.
\* An unavailable store refuses; what needs no write succeeds.
Save(writes, s, otherwise, ok) ==
  LET error == writes /\ store.bound # Absent /\ ~ok IN
  /\ ~writes => ok
  /\ writes /\ store.bound = Absent => ~ok
  /\ error => events < MaxEvents
  /\ store' = IF ok THEN s ELSE otherwise
  /\ rows' = IF ok /\ writes THEN [rows EXCEPT ![store.bound] = Row(s)] ELSE rows
  /\ events' = IF error THEN events + 1 ELSE events

-----------------------------------------------------------------------------
(* The interface.                                                          *)

Busy == query # Absent \/ tui.restore # Absent
AgentReady == query = Absent /\ tui.agent

\* idle_for_goal.
IdleForGoal ==
  /\ ~Busy
  /\ ~tui.asking /\ tui.dialog = Absent
  /\ ~tui.followUp

\* arm_after_restore: the interface after the store became s.
Armed(t, s) ==
  LET status == IF s.goal = Absent THEN Absent ELSE s.goal.status IN
  [t EXCEPT
     !.pending = IF status = "Pursuing" /\ ~s.deferred
                 THEN [ticket |-> Ticket(s), enqueued |-> FALSE, mode |-> "automatic"]
                 ELSE Absent,
     !.offer = IF status = "Paused" THEN [ticket |-> Ticket(s)] ELSE Absent]

Continue(s, mode) == [ticket |-> Ticket(s), mode |-> mode]
CanSend == Len(port) < MaxCommands

\* The commands of /goal, which a dialog and a restore keep away.
Commanding == tui.restore = Absent /\ tui.dialog = Absent
UnlessFinished == store.goal # Absent /\ store.goal.status # "Complete"
Wanted(g) == IF g = Absent THEN {} ELSE {g.birth}

\* start_new_goal: a new goal s is continued at once when nothing runs.
StartNewGoal(s, ok) ==
  IF ok /\ AgentReady /\ tui.restore = Absent /\ ~tui.asking
  THEN CanSend /\ port' = Append(port, Continue(s, "requested"))
  ELSE UNCHANGED port

Pause(ok) ==
  /\ Commanding
  /\ store.goal # Absent /\ store.goal.status = "Pursuing"
  /\ LET n == [store.goal EXCEPT !.status = "Paused"]
     IN Save(TRUE, Mutated(store, n), store, ok)
  /\ UNCHANGED <<query, tui, port, halted, earned, created, queries>>

Clear(ok) ==
  /\ Commanding
  /\ tui' = [tui EXCEPT !.pending = Absent]
  /\ store.goal # Absent
  /\ Save(TRUE, Mutated(store, Absent), store, ok)
  /\ UNCHANGED <<query, port, halted, earned, created, queries>>

SetGoal(id, budget, ok) ==
  /\ Commanding
  /\ ~UnlessFinished
  /\ created < MaxGoals
  /\ created' = created + 1
  /\ LET s == Mutated(store, NewGoal(id, budget))
     IN Save(TRUE, s, store, ok) /\ StartNewGoal(s, ok)
  /\ UNCHANGED <<query, tui, halted, earned, queries>>

\* resume_goal_continuation.
CanResume ==
  /\ AgentReady /\ ~Busy
  /\ ~tui.asking
  /\ store.goal # Absent
  /\ store.goal.status \in {"Paused", "Blocked", "Pursuing"}
ResumeGoal(ok) ==
  LET n == BudgetChecked([store.goal EXCEPT !.status = "Pursuing"])
      s == Mutated(store, n)
  IN /\ CanSend
     /\ Save(n # store.goal, s, store, ok)
     /\ port' = IF ok THEN Append(port, Continue(s, "requested")) ELSE port

Resume(ok) ==
  /\ Commanding
  /\ CanResume
  /\ ResumeGoal(ok)
  /\ UNCHANGED <<query, tui, halted, earned, created, queries>>

\* /goal edit and /goal <objective> over an unfinished goal open a dialog that
\* keeps a ticket.
OpenDialog(kind) ==
  /\ Commanding
  /\ store.goal # Absent
  /\ kind = "replace" => UnlessFinished
  /\ events < MaxEvents
  /\ events' = events + 1
  /\ tui' = [tui EXCEPT !.dialog = [kind |-> kind, ticket |-> Ticket(store)]]
  /\ UNCHANGED <<store, rows, query, port, halted, earned, created, queries>>

\* apply_dialog_action: closed without a choice, or with one that has become
\* stale.
CloseDialog ==
  /\ tui.dialog # Absent
  /\ tui' = [tui EXCEPT !.dialog = Absent]
  /\ UNCHANGED <<store, rows, query, port, halted, earned, created, queries,
                 events>>

Confirming(kind) ==
  /\ tui.dialog # Absent /\ tui.dialog.kind = kind
  /\ ~Busy
  /\ Matches(tui.dialog)

ConfirmResume(ok) ==
  /\ Confirming("resume")
  /\ CanResume
  /\ tui' = [tui EXCEPT !.dialog = Absent]
  /\ ResumeGoal(ok)
  /\ UNCHANGED <<query, halted, earned, created, queries>>

ConfirmEdit(id, ok) ==
  /\ Confirming("edit")
  /\ LET s == [Renewed(store) EXCEPT !.goal = [@ EXCEPT !.id = id]]
         closed == [tui EXCEPT !.dialog = Absent]
     IN /\ Save(TRUE, s, store, ok)
        /\ tui' = IF ok /\ tui.pending # Absent THEN Armed(closed, s) ELSE closed
  /\ UNCHANGED <<query, port, halted, earned, created, queries>>

ConfirmReplace(id, budget, ok) ==
  /\ Confirming("replace")
  /\ created < MaxGoals
  /\ created' = created + 1
  /\ tui' = [tui EXCEPT !.dialog = Absent]
  /\ LET s == Replaced(store, NewGoal(id, budget))
     IN Save(TRUE, s, store, ok) /\ StartNewGoal(s, ok)
  /\ UNCHANGED <<query, halted, earned, queries>>

-----------------------------------------------------------------------------
(* Queries.                                                                *)

\* start_input_control_task_with_services: begin_turn takes the membership of
\* a goal that is pursued.
Began(s, why) ==
  LET works == s.goal # Absent /\ s.goal.status = "Pursuing"
  IN [why |-> why, state |-> "running", asks |-> FALSE,
      member |-> IF works THEN s.membership ELSE 0,
      birth |-> IF works THEN s.goal.birth ELSE 0]
CanStart == queries < MaxQueries

\* The user submits a prompt, answers an interaction, or a message queued
\* earlier is sent: record_turn_started ends a deferral.
UserTurn(ok) ==
  /\ AgentReady /\ ~Busy /\ CanStart
  /\ tui.dialog = Absent \/ tui.followUp
  /\ Save(store.deferred, [Renewed(store) EXCEPT !.deferred = FALSE],
          Renewed(store), ok)
  /\ query' = Began(store, "user")
  /\ queries' = queries + 1
  /\ tui' = [tui EXCEPT !.pending = Absent, !.followUp = FALSE,
                        !.asking = FALSE]
  /\ halted' = halted \ Wanted(store.goal)
  /\ UNCHANGED <<port, earned, created>>

\* create_goal and update_goal, called by the query.
Executing == query # Absent /\ query.state \in {"running", "stopping"}

CreateGoal(id, budget, ok) ==
  /\ Executing
  /\ ~UnlessFinished
  /\ created < MaxGoals
  /\ created' = created + 1
  /\ Save(TRUE, Mutated(store, NewGoal(id, budget)), store, ok)
  /\ UNCHANGED <<query, tui, port, halted, earned, queries>>

UpdateGoal(status, ok) ==
  /\ Executing
  /\ store.goal # Absent
  /\ LET n == [store.goal EXCEPT !.status = status]
     IN n # store.goal /\ Save(TRUE, Mutated(store, n), store, ok)
  /\ UNCHANGED <<query, tui, port, halted, earned, created, queries>>

QueueFollowUp ==
  /\ query # Absent
  /\ ~tui.followUp
  /\ events < MaxEvents
  /\ events' = events + 1
  /\ tui' = [tui EXCEPT !.followUp = TRUE]
  /\ UNCHANGED <<store, rows, query, port, halted, earned, created, queries>>

\* publish_finished: a stopped query fails whatever it returned.  A task may
\* also panic.  The agent that comes back may ask the user something.
QueryEnds(state, asks) ==
  /\ Executing
  /\ state = "ok" => query.state = "running"
  /\ asks => state = "ok"
  /\ query' = [query EXCEPT !.state = state, !.asks = asks]
  /\ UNCHANGED <<store, rows, tui, port, halted, earned, created, queries,
                 events>>

\* request_running_task_cancellation and defer_continuation: also a query that
\* has ended, and whose completion is still to be handled, is stopped so.
StopQuery(ok) ==
  /\ query # Absent /\ query.state # "stopping"
  /\ query' = [query EXCEPT !.state = IF @ = "running" THEN "stopping" ELSE @]
  /\ LET writes == store.goal # Absent /\ ~store.deferred
     IN Save(writes, [Renewed(store) EXCEPT !.deferred = @ \/ writes],
             Renewed(store), ok)
  /\ tui' = [tui EXCEPT !.pending = Absent]
  /\ halted' = IF ok THEN halted \cup Wanted(store.goal) ELSE halted
  /\ UNCHANGED <<port, earned, created, queries>>

\* A query that failed gives the agent back; one that panicked loses it.
QueryFailed ==
  /\ query # Absent /\ query.state \in {"failed", "panicked"}
  /\ query' = Absent
  /\ tui' = [tui EXCEPT !.agent = query.state = "failed"]
  /\ UNCHANGED <<store, rows, port, halted, earned, created, queries, events>>

\* continue_goal: the goal after the query was charged, and whether work
\* toward it goes on.
Charged ==
  IF store.goal # Absent /\ query.member = store.membership
  THEN [store.goal EXCEPT !.used = @ + 1] ELSE store.goal
GoesOn ==
  /\ store.goal # Absent /\ store.goal.status = "Pursuing"
  /\ ~query.asks
Accounted == IF GoesOn THEN BudgetChecked(Charged) ELSE Charged
\* Messages of the user go before another continuation, not before the end.
Continues ==
  /\ GoesOn /\ ~store.deferred
  /\ Accounted.status = "BudgetLimited" \/ ~tui.followUp

\* The completion of a successful query: the goal is charged, and the next
\* query starts, or the agent comes back.
QuerySucceeded(ok) ==
  /\ query # Absent /\ query.state = "ok"
  /\ LET s == Mutated(store, Accounted)
         starts == ok /\ Continues
     IN /\ Save(Accounted # store.goal, IF Continues THEN Renewed(s) ELSE s, store, ok)
        /\ starts => CanStart
        /\ query' = IF starts THEN Began(s, "automatic") ELSE Absent
        /\ queries' = IF starts THEN queries + 1 ELSE queries
        /\ tui' = [tui EXCEPT !.asking = query.asks,
                              !.pending = IF starts THEN Absent ELSE @]
        /\ earned' = [b \in Birth |->
             IF ok /\ b = query.birth /\ b \in Wanted(store.goal)
             THEN earned[b] + 1 ELSE earned[b]]
  /\ UNCHANGED <<port, halted, created>>

\* A rebuilt backend brings an agent, and its store inherits this one.
Rebuild ==
  /\ ~tui.agent /\ ~Busy
  /\ tui' = [tui EXCEPT !.agent = TRUE]
  /\ UNCHANGED <<store, rows, query, port, halted, earned, created, queries,
                 events>>

-----------------------------------------------------------------------------
(* Requests to continue.                                                   *)

\* queue_if_idle: a goal that was restored paused is offered, a pending
\* request is sent once; both are dropped when they have become stale.
OfferResume ==
  /\ tui.offer # Absent
  /\ IF ~Matches(tui.offer) THEN tui' = [tui EXCEPT !.offer = Absent]
     ELSE /\ AgentReady /\ ~Busy
          /\ ~tui.asking /\ tui.dialog = Absent
          /\ tui' = [tui EXCEPT !.offer = Absent,
               !.dialog = [kind |-> "resume", ticket |-> tui.offer.ticket]]
  /\ UNCHANGED <<store, rows, query, port, halted, earned, created, queries,
                 events>>

QueueIfIdle ==
  /\ tui.pending # Absent
  /\ IF ~Matches(tui.pending)
     THEN tui' = [tui EXCEPT !.pending = Absent] /\ UNCHANGED port
     ELSE /\ ~tui.pending.enqueued
          /\ AgentReady /\ IdleForGoal
          /\ CanSend
          /\ port' = Append(port, [ticket |-> tui.pending.ticket,
                                   mode |-> tui.pending.mode])
          /\ tui' = [tui EXCEPT !.pending = [@ EXCEPT !.enqueued = TRUE]]
  /\ UNCHANGED <<store, rows, query, halted, earned, created, queries, events>>

\* claim_continuation: whether the request is admitted, and the store then.
Admits(mode) ==
  /\ mode = "requested" \/ ~store.deferred
  /\ store.goal # Absent
  /\ \/ store.goal.status = "Pursuing"
     \/ store.goal.status = "BudgetLimited" /\ mode = "requested"
Claimed == [Renewed(store) EXCEPT !.goal = BudgetChecked(@), !.deferred = FALSE]

\* The processor takes a ContinueGoal from the port.
ContinueGoal(ok) ==
  /\ port # << >>
  /\ port' = Tail(port)
  /\ LET c == Head(port)
         ready == AgentReady /\ IdleForGoal
         starts == Matches(c) /\ ready /\ Admits(c.mode) /\ ok
     IN /\ IF Matches(c) /\ ready /\ Admits(c.mode)
           THEN Save(Claimed.goal # store.goal \/ store.deferred, Claimed, store, ok)
           ELSE ok /\ UNCHANGED <<store, rows, events>>
        /\ starts => CanStart
        /\ query' = IF starts THEN Began(Claimed, c.mode) ELSE query
        /\ queries' = IF starts THEN queries + 1 ELSE queries
        /\ tui' = [tui EXCEPT !.pending =
             IF ~Matches(c) THEN @
             ELSE IF ready THEN Absent
             ELSE [ticket |-> c.ticket, enqueued |-> FALSE, mode |-> c.mode]]
        /\ halted' = IF starts /\ c.mode = "requested"
                     THEN halted \ Wanted(store.goal) ELSE halted
  /\ UNCHANGED <<earned, created>>

-----------------------------------------------------------------------------
(* Threads and restarts.                                                   *)

RequestRestore(t) ==
  /\ Commanding
  /\ ~Busy /\ AgentReady
  /\ events < MaxEvents
  /\ events' = events + 1
  /\ tui' = [tui EXCEPT !.restore = [thread |-> t, state |-> "loading", row |-> Absent]]
  /\ UNCHANGED <<store, rows, query, port, halted, earned, created, queries>>

\* The storage worker reads the row; a row that cannot be read or decoded
\* leaves the rest of the thread.
LoadRow(readable) ==
  /\ tui.restore # Absent /\ tui.restore.state = "loading"
  /\ readable \/ events < MaxEvents
  /\ events' = IF readable THEN events ELSE events + 1
  /\ tui' = [tui EXCEPT !.restore =
       [@ EXCEPT !.state = IF readable THEN "loaded" ELSE "unreadable",
                 !.row = IF readable THEN rows[tui.restore.thread] ELSE Absent]]
  /\ UNCHANGED <<store, rows, query, port, halted, earned, created, queries>>

\* apply_prepared_restore: the store is replaced and continuation armed; the
\* thread may bring an interaction that is open.
FinishRestore(asks) ==
  /\ tui.restore # Absent /\ tui.restore.state # "loading"
  /\ AgentReady
  /\ LET r == tui.restore
         s == IF r.state = "loaded" THEN FromRow(r.row, r.thread) ELSE Disabled
     IN /\ store' = s
        /\ tui' = Armed([tui EXCEPT !.restore = Absent, !.asking = asks], s)
  /\ UNCHANGED <<rows, query, port, halted, earned, created, queries, events>>

CancelRestore ==
  /\ tui.restore # Absent
  /\ tui' = [tui EXCEPT !.restore = Absent]
  /\ UNCHANGED <<store, rows, query, port, halted, earned, created, queries,
                 events>>

NewStore(row, t) ==
  [FromRow(row, t) EXCEPT !.admission = 1, !.membership = 1]
NewTui ==
  [pending |-> Absent, offer |-> Absent, dialog |-> Absent, asking |-> FALSE,
   followUp |-> FALSE, restore |-> Absent, agent |-> TRUE]

\* The process ends anywhere and starts again: the goal of its thread is
\* restored, and nothing is armed until the user resumes a thread.
Restart(t) ==
  /\ events < MaxEvents
  /\ events' = events + 1
  /\ store' = NewStore(rows[t], t)
  /\ query' = Absent
  /\ tui' = NewTui
  /\ port' = << >>
  /\ UNCHANGED <<rows, halted, earned, created, queries>>

GoalInit ==
  /\ \E t \in Threads :
       store = [goal |-> Absent, deferred |-> FALSE, admission |-> 1,
                membership |-> 1, bound |-> t]
  /\ rows = [t \in Threads |-> Absent]
  /\ query = Absent
  /\ tui = NewTui
  /\ port = << >>
  /\ halted = {}
  /\ earned = [b \in Birth |-> 0]
  /\ created = 0 /\ queries = 0 /\ events = 0

GoalNext ==
  \/ \E ok \in BOOLEAN :
       \/ Pause(ok) \/ Clear(ok) \/ Resume(ok) \/ ConfirmResume(ok)
       \/ UserTurn(ok) \/ StopQuery(ok) \/ QuerySucceeded(ok) \/ ContinueGoal(ok)
       \/ \E id \in GoalIds, b \in Budgets :
            SetGoal(id, b, ok) \/ ConfirmReplace(id, b, ok) \/ CreateGoal(id, b, ok)
       \/ \E id \in GoalIds : ConfirmEdit(id, ok)
       \/ \E status \in {"Complete", "Blocked"} : UpdateGoal(status, ok)
  \/ \E kind \in {"edit", "replace"} : OpenDialog(kind)
  \/ CloseDialog
  \/ QueueFollowUp
  \/ \E state \in {"ok", "failed", "panicked"}, asks \in BOOLEAN : QueryEnds(state, asks)
  \/ QueryFailed
  \/ Rebuild
  \/ OfferResume
  \/ QueueIfIdle
  \/ \E t \in Threads : RequestRestore(t) \/ Restart(t)
  \/ \E readable \in BOOLEAN : LoadRow(readable)
  \/ \E asks \in BOOLEAN : FinishRestore(asks)
  \/ CancelRestore

GoalSpec == GoalInit /\ [][GoalNext]_goalVars

-----------------------------------------------------------------------------
(* Properties.                                                             *)

\* What the interface and the tools act on is what a restart would find: the
\* goal in memory and its deferral are the row of the thread, whatever failed,
\* whoever changed it last, and however long a restore took.  And a goal, in
\* memory or in a row, was charged for the successful queries that began while
\* it was pursued and ended while it was still the goal, once each, and for no
\* other: not for those of a goal it replaced under the same name and second.
GoalSound ==
  /\ store.bound # Absent => rows[store.bound] = Row(store)
  /\ store.goal # Absent => store.goal.used = earned[store.goal.birth]
  /\ \A t \in Threads :
       rows[t] # Absent => rows[t].goal.used = earned[rows[t].goal.birth]

\* A query toward a goal starts only for the goal it was asked for, while that
\* goal is active and within its budget or being wrapped up; and after the user
\* stopped a goal, none starts by itself until the user starts one, across
\* requests that were on their way, other threads and restarts.
ContinuationsWanted ==
  [][queries' # queries /\ query'.why # "user" =>
       LET g == store'.goal IN
       /\ query'.why = "automatic" => g.birth \notin halted
       /\ g.status = "BudgetLimited" \/ (g.status = "Pursuing" /\ ~Exhausted(g))
       /\ port' # port => Head(port).ticket.birth = g.birth]_goalVars
=============================================================================
