-------------------------- MODULE Services_proofs --------------------------
(***************************************************************************)
(* The services around the sessions, for any number of callers: the        *)
(* background tasks of the shell tools, the slot of a language server, and *)
(* the registry of the host.                                               *)
(***************************************************************************)
EXTENDS RuntimeHost, LspServer, BackgroundTasks, TLAPS

-----------------------------------------------------------------------------
(* Background tasks.                                                       *)

ShellTypeOK ==
  /\ status \in [Tasks -> Statuses \cup {NoTask}]
  /\ runner \in [Tasks -> {"none", "registering", "copying", "finishing", "done"}]
  /\ process \in [Tasks -> {"none", "up", "down"}]
  /\ stopper \in [Stoppers -> [left : SUBSET Tasks, marked : Tasks \cup {NoTask}]]
  /\ signals \subseteq Tasks /\ sent \subseteq Tasks /\ early \subseteq Tasks

\* Where the stop sender of a task is: in the map until the runner was told, or
\* on its way there when the stop came too early; and who is told was killed.
ShellInv ==
  /\ ShellTypeOK
  /\ \A t \in Tasks :
       /\ runner[t] = "none" => status[t] = NoTask
       /\ runner[t] = "copying" => t \in signals \cup sent
       /\ runner[t] = "registering" /\ status[t] = "Killed" => t \in early
       /\ t \in sent => status[t] = "Killed"
  /\ \A s \in Stoppers : stopper[s].marked # NoTask => status[stopper[s].marked] = "Killed"
  /\ StoppedIsSignalled

\* A record that was marked as killed stays so, whatever its runner reports.
KilledStays ==
  [][\A t \in Tasks : status[t] = "Killed" => status'[t] = "Killed"]_shellVars

\* Starting a task: its record, then its sender.
LEMMA StartTaskStep ==
  ASSUME ShellInv, NEW t \in Tasks, StartRecord(t) \/ RegisterSignal(t)
  PROVE  ShellInv'
<1>1. CASE StartRecord(t)
  <2>1. ShellTypeOK'
    BY <1>1 DEF StartRecord, ShellInv, ShellTypeOK, Statuses
  <2>2. status[t] # "Killed" /\ t \notin sent
    BY <1>1, TaskAssumption DEF StartRecord, ShellInv, ShellTypeOK, Statuses
  <2> QED
    BY <1>1, <2>1, <2>2, TaskAssumption
       DEF StartRecord, ShellInv, ShellTypeOK, StoppedIsSignalled, Statuses
<1>2. CASE RegisterSignal(t)
  BY <1>2 DEF RegisterSignal, ShellInv, ShellTypeOK, StoppedIsSignalled
<1> QED
  BY <1>1, <1>2

\* The child stops or ends; its runner finishes the record, then the sender.
LEMMA FinishTaskStep ==
  ASSUME ShellInv, NEW t \in Tasks,
         \/ RunnerStops(t) \/ CommandEnds(t) \/ DropSignal(t)
         \/ \E verdict \in {"Completed", "Failed"} : FinishRecord(t, verdict)
  PROVE  ShellInv'
<1>1. CASE RunnerStops(t) \/ CommandEnds(t)
  BY <1>1 DEF RunnerStops, CommandEnds, ShellInv, ShellTypeOK, StoppedIsSignalled
<1>2. CASE DropSignal(t)
  BY <1>2 DEF DropSignal, ShellInv, ShellTypeOK, StoppedIsSignalled
<1>3. ASSUME NEW verdict \in {"Completed", "Failed"}, FinishRecord(t, verdict)
      PROVE  ShellInv'
  <2>1. status' = [status EXCEPT ![t] = Outcome(t, verdict)]
        /\ Outcome(t, verdict) \in Statuses
        /\ (status[t] = "Killed" => Outcome(t, verdict) = "Killed")
    BY <1>3 DEF FinishRecord, Outcome, Statuses
  <2>2. ShellTypeOK'
    BY <1>3, <2>1 DEF FinishRecord, ShellInv, ShellTypeOK
  <2> QED
    BY <1>3, <2>1, <2>2 DEF FinishRecord, ShellInv, ShellTypeOK, StoppedIsSignalled
<1> QED
  BY <1>1, <1>2, <1>3

\* A caller of stop takes its targets, marks a record, uses its sender.
LEMMA StopTaskStep ==
  ASSUME ShellInv, NEW s \in Stoppers,
         \/ \E targets \in SUBSET Tasks : Stop(s, targets)
         \/ \E t \in Tasks : MarkKilled(s, t)
         \/ SendStop(s)
  PROVE  ShellInv'
<1>1. ASSUME NEW targets \in SUBSET Tasks, Stop(s, targets) PROVE ShellInv'
  BY <1>1 DEF Stop, ShellInv, ShellTypeOK, StoppedIsSignalled
<1>2. ASSUME NEW t \in Tasks, MarkKilled(s, t) PROVE ShellInv'
  <2> DEFINE m == IF Running(t) THEN t ELSE NoTask
  <2>0. stopper[s] \in [left : SUBSET Tasks, marked : Tasks \cup {NoTask}]
        /\ stopper' = [stopper EXCEPT ![s].left = @ \ {t}, ![s].marked = m]
    BY <1>2 DEF MarkKilled, ShellInv, ShellTypeOK
  <2> HIDE DEF m
  <2>a. /\ stopper'[s] = [left |-> stopper[s].left \ {t}, marked |-> m]
         /\ DOMAIN stopper' = Stoppers
         /\ stopper' = [r \in Stoppers |-> stopper'[r]]
         /\ \A r \in Stoppers \ {s} : stopper'[r] = stopper[r]
    BY <2>0 DEF ShellInv, ShellTypeOK
  <2>b. m \in Tasks \cup {NoTask} /\ (Running(t) => m = t) /\ (~Running(t) => m = NoTask)
    BY DEF m
  <2>1. ShellTypeOK'
    <3>1. stopper' \in [Stoppers -> [left : SUBSET Tasks, marked : Tasks \cup {NoTask}]]
      BY <2>0, <2>a, <2>b DEF ShellInv, ShellTypeOK
    <3> QED
      BY <1>2, <3>1 DEF MarkKilled, ShellInv, ShellTypeOK, Statuses
  <2>2. /\ stopper[s].marked = NoTask
        /\ stopper'[s].marked = m
        /\ \A r \in Stoppers \ {s} : stopper'[r] = stopper[r]
        /\ Running(t) => status' = [status EXCEPT ![t] = "Killed"]
        /\ ~Running(t) => status' = status
        /\ early' = IF Running(t) /\ runner[t] = "registering" THEN early \cup {t} ELSE early
        /\ UNCHANGED <<signals, sent, process, runner>>
    BY <1>2, <2>a DEF MarkKilled
  <2>3. Running(t) => runner[t] # "none" /\ status[t] = "Running"
    BY TaskAssumption DEF Running, ShellInv, Statuses
  <2>4. CASE Running(t)
    <3>1. StoppedIsSignalled'
      BY <2>b, <2>2, <2>3, <2>4, TaskAssumption DEF ShellInv, ShellTypeOK, StoppedIsSignalled
    <3> QED
      BY <2>b, <2>1, <2>2, <2>3, <2>4, <3>1 DEF ShellInv, ShellTypeOK
  <2>5. CASE ~Running(t)
    BY <2>b, <2>1, <2>2, <2>5, TaskAssumption DEF ShellInv, ShellTypeOK, StoppedIsSignalled
  <2> QED
    BY <2>4, <2>5
<1>3. CASE SendStop(s)
  <2> DEFINE t == stopper[s].marked
  <2>1. /\ t # NoTask /\ t \in Tasks /\ status[t] = "Killed"
        /\ signals' = signals \ {t} /\ sent' = IF t \in signals THEN sent \cup {t} ELSE sent
        /\ stopper'[s].marked = NoTask /\ \A r \in Stoppers \ {s} : stopper'[r] = stopper[r]
        /\ UNCHANGED <<status, process, runner, early>>
    BY <1>3 DEF SendStop, ShellInv, ShellTypeOK
  <2>2. ShellTypeOK'
    BY <1>3, <2>1 DEF SendStop, ShellInv, ShellTypeOK
  <2> HIDE DEF t
  <2>3. stopper[s].marked = t
    BY DEF t
  <2>4. StoppedIsSignalled'
    BY <2>1, <2>3 DEF ShellInv, StoppedIsSignalled
  <2> QED
    BY <2>1, <2>2, <2>4 DEF ShellInv
<1> QED
  BY <1>1, <1>2, <1>3

\* Every step of the shell's tasks keeps the invariant.
LEMMA ShellStep == ShellInv /\ [ShellNext]_shellVars => ShellInv'
<1>1. ASSUME ShellInv, ShellNext PROVE ShellInv'
  <2>1. \A t \in Tasks : {t} \cap Known \in SUBSET Tasks
    OBVIOUS
  <2>2. {t \in Tasks : Running(t)} \in SUBSET Tasks
    OBVIOUS
  <2> QED
    BY <1>1, <2>1, <2>2, StartTaskStep, FinishTaskStep, StopTaskStep DEF ShellNext
<1>2. ASSUME ShellInv, UNCHANGED shellVars PROVE ShellInv'
  BY <1>2 DEF shellVars, ShellInv, ShellTypeOK, StoppedIsSignalled
<1> QED
  BY <1>1, <1>2

\* Whatever stops, restarts of callers and ends of commands interleave, the
\* store keeps its maps in step.
THEOREM ShellInvariant == ShellSpec => []ShellInv
<1>1. ShellInit => ShellInv
  BY TaskAssumption
     DEF ShellInit, ShellInv, ShellTypeOK, StoppedIsSignalled, Statuses, Resting
<1> QED
  BY <1>1, ShellStep, PTL DEF ShellSpec

\* A stopped task's runner hears of it, unless the stop came between the two
\* insertions of start_record.
THEOREM StopsAreHeard == ShellSpec => []StoppedIsSignalled
<1>1. ShellInv => StoppedIsSignalled
  BY DEF ShellInv
<1> QED
  BY <1>1, ShellInvariant, PTL

\* Only the runner of a task that is recorded as killed is told to stop it.
THEOREM OnlyKilledAreTold == ShellSpec => [](\A t \in sent : status[t] = "Killed")
<1>1. ShellInv => \A t \in sent : status[t] = "Killed"
  BY DEF ShellInv, ShellTypeOK
<1> QED
  BY <1>1, ShellInvariant, PTL

\* A killed record is never overwritten with what the runner reports.
THEOREM KillsLast == ShellSpec => KilledStays
<1> DEFINE Step == \A t \in Tasks : status[t] = "Killed" => status'[t] = "Killed"
<1>1. ASSUME ShellInv, ShellNext PROVE Step
  <2>1. ASSUME NEW t \in Tasks, StartRecord(t) PROVE Step
    BY <1>1, <2>1, TaskAssumption DEF StartRecord, ShellInv, ShellTypeOK, Statuses
  <2>2. ASSUME NEW t \in Tasks, NEW verdict \in {"Completed", "Failed"}, FinishRecord(t, verdict)
        PROVE  Step
    BY <1>1, <2>2 DEF FinishRecord, Outcome, ShellInv, ShellTypeOK
  <2>3. ASSUME NEW t \in Tasks, NEW s \in Stoppers, MarkKilled(s, t) PROVE Step
    BY <1>1, <2>3 DEF MarkKilled, ShellInv, ShellTypeOK
  <2> QED
    BY <1>1, <2>1, <2>2, <2>3 DEF ShellNext, RegisterSignal, RunnerStops, CommandEnds, DropSignal,
                                  Stop, SendStop
<1>2. ShellInv /\ [ShellNext]_shellVars => [Step]_shellVars
  BY <1>1
<1> QED
  BY <1>2, ShellInvariant, PTL DEF ShellSpec, KilledStays

-----------------------------------------------------------------------------
(* The slot of a language server.                                          *)

Places == {"away", "gate", "spawning", "initializing", "sync", "mark", "send"}
Starting == {"spawning", "initializing"}
Using == {"sync", "mark", "send"}

ServerType ==
  [process : {"none", "up", "down"}, running : BOOLEAN, exit : BOOLEAN, cancelled : BOOLEAN,
   watched : BOOLEAN, document : 0..MaxVersion, received : 0..MaxVersion, due : BOOLEAN]

LspTypeOK ==
  /\ slot \in [phase : {"NotStarted", "Starting", "Ready", "Failed", "Unavailable"},
               generation : Generations \cup {0}, retryable : BOOLEAN]
  /\ attempts \in 0..MaxLaunches
  /\ gate \in Callers \cup {None}
  /\ calls \in [Callers -> [pc : Places, server : Generations \cup {None}, version : 0..MaxVersion]]
  /\ servers \in [Generations -> ServerType]

\* Whoever starts a server holds the gate, and the slot shows that start; whoever
\* uses one got it before the start that is under way.
GateInv ==
  /\ slot.generation = attempts
  /\ \A c \in Callers :
       /\ calls[c].pc \in Starting <=> gate = c
       /\ calls[c].pc \in Starting => calls[c].server = attempts /\ attempts # 0
       /\ calls[c].pc \in Using => /\ calls[c].server \in 1..attempts
                                   /\ gate # None => calls[c].server # attempts
       /\ calls[c].pc \notin Starting \cup Using => calls[c].server = None
  /\ slot.phase = "Starting" <=> gate # None
  /\ slot.phase = "Ready" => attempts # 0

\* A server runs from its spawn to its end, and publishes its exit after that.
ServerInv ==
  \A g \in Generations :
    /\ servers[g].running <=> servers[g].process = "up"
    /\ servers[g].exit => servers[g].process = "down"
    /\ g > attempts => servers[g] = NoServer
    /\ \A c \in Callers : calls[c].pc = "spawning" /\ calls[c].server = g => servers[g] = NoServer
    /\ \A c \in Callers : calls[c].pc = "initializing" /\ calls[c].server = g => ~servers[g].cancelled

LspInv == LspTypeOK /\ GateInv /\ ServerInv /\ SlotSound

\* What a call can be and a server can hold.
LEMMA LspShapes ==
  ASSUME LspInv
  PROVE  /\ \A c \in Callers :
              /\ calls[c].pc \in Starting => calls[c].server \in Generations
              /\ calls[c].pc \in Using => calls[c].server \in Generations
         /\ attempts # 0 => attempts \in Generations
         /\ slot.phase = "Ready" => slot.generation \in Generations
         /\ attempts \in Nat /\ Generations \subseteq Nat /\ MaxLaunches \in Nat
<1>1. attempts \in 0..MaxLaunches /\ MaxLaunches \in Nat
  BY BoundAssumption DEF LspInv, LspTypeOK
<1> QED
  BY <1>1 DEF LspInv, GateInv, Generations

\* A server that is cancelled keeps everything else.
LEMMA Cancelled ==
  ASSUME LspInv, NEW g \in Generations, NEW s, s = [servers EXCEPT ![g].cancelled = TRUE]
  PROVE  /\ s \in [Generations -> ServerType]
         /\ s[g].cancelled
         /\ s[g].process = servers[g].process /\ s[g].running = servers[g].running
         /\ s[g].exit = servers[g].exit /\ s[g].watched = servers[g].watched
         /\ \A h \in Generations : h # g => s[h] = servers[h]
BY ZenonT(40) DEF LspInv, LspTypeOK, ServerType

\* The slot shows server g, and holds a handle to it.
Shown(g) == slot.phase = "Ready" /\ slot.generation = g

\* Dropping a handle cancels the server whose last one it was, or nothing; a
\* server the slot shows as ready is never cancelled so.
LEMMA Dropped ==
  ASSUME LspInv, NEW c \in Callers, NEW g \in Generations \cup {None}, NEW s, s = DropHandle(g, c)
  PROVE  /\ s \in [Generations -> ServerType]
         /\ \A h \in Generations :
              /\ s[h].process = servers[h].process /\ s[h].running = servers[h].running
              /\ s[h].exit = servers[h].exit /\ s[h].watched = servers[h].watched
              /\ s[h].cancelled = servers[h].cancelled
                   \/ (s[h].cancelled /\ h = g /\ ~Shown(g))
              /\ h # g => s[h] = servers[h]
<1>1. servers \in [Generations -> ServerType]
  BY DEF LspInv, LspTypeOK, ServerType
<1>2. CASE ~Released(g, c)
  BY <1>1, <1>2 DEF DropHandle
<1>3. CASE Released(g, c)
  <2>1. g \in Generations /\ s = [servers EXCEPT ![g].cancelled = TRUE]
    BY <1>3 DEF DropHandle, Released
  <2>3. ~Shown(g)
    BY <1>3 DEF Released, Shown
  <2>2. /\ s \in [Generations -> ServerType] /\ s[g].cancelled
        /\ s[g].process = servers[g].process /\ s[g].running = servers[g].running
        /\ s[g].exit = servers[g].exit /\ s[g].watched = servers[g].watched
        /\ \A h \in Generations : h # g => s[h] = servers[h]
    BY <2>1, Cancelled
  <2> QED
    BY <2>1, <2>2, <2>3
<1> QED
  BY <1>2, <1>3

\* Calls that begin, and calls that find a server that runs.
LEMMA EnterStep ==
  ASSUME LspInv, NEW c \in Callers, Call(c) \/ Reuse(c)
  PROVE  LspInv'
<1>1. CASE Call(c)
  <2>1. /\ calls[c] = Away /\ calls' = [calls EXCEPT ![c].pc = "gate"]
        /\ UNCHANGED <<slot, attempts, gate, servers, cache>>
    BY <1>1 DEF Call
  <2>2. /\ calls'[c] = [pc |-> "gate", server |-> None, version |-> 0]
        /\ \A d \in Callers \ {c} : calls'[d] = calls[d]
        /\ calls' \in [Callers -> [pc : Places, server : Generations \cup {None}, version : 0..MaxVersion]]
    BY <2>1 DEF LspInv, LspTypeOK, Away, Places
  <2>3. LspTypeOK'
    BY <2>1, <2>2 DEF LspInv, LspTypeOK
  <2>4. GateInv'
    BY <2>1, <2>2 DEF LspInv, GateInv, Away, Starting, Using
  <2>5. ServerInv'
    BY <2>1, <2>2 DEF LspInv, ServerInv
  <2>6. SlotSound'
    BY <2>1, <2>2, NoneAssumption DEF LspInv, SlotSound, OneServer, SlotHonest, GateInv, Starting, Away
  <2> QED
    BY <2>3, <2>4, <2>5, <2>6 DEF LspInv
<1>2. CASE Reuse(c)
  <2>1. /\ calls[c].pc = "gate" /\ gate = None /\ slot.phase = "Ready"
        /\ calls' = [calls EXCEPT ![c] = [pc |-> "sync", server |-> slot.generation, version |-> 0]]
        /\ UNCHANGED <<slot, attempts, gate, servers, cache>>
    BY <1>2 DEF Reuse, Reusable
  <2>2. slot.generation \in Generations /\ slot.generation \in 1..attempts
    BY <2>1, LspShapes DEF LspInv, GateInv
  <2>3. LspTypeOK'
    BY <2>1, <2>2, BoundAssumption DEF LspInv, LspTypeOK, Places
  <2>4. GateInv'
    BY <2>1, <2>2, NoneAssumption DEF LspInv, LspTypeOK, GateInv, Starting, Using
  <2>5. ServerInv'
    BY <2>1, <2>2 DEF LspInv, LspTypeOK, ServerInv
  <2>6. SlotSound'
    BY <2>1 DEF LspInv, SlotSound, OneServer, SlotHonest
  <2> QED
    BY <2>3, <2>4, <2>5, <2>6 DEF LspInv
<1> QED
  BY <1>1, <1>2

\* A caller that is not starting a server leaves, and drops the handle it had.
LEMMA LeaveStep ==
  ASSUME LspInv, NEW c \in Callers, calls[c].pc \notin Starting,
         NEW g \in Generations \cup {None}, g = calls[c].server,
         calls' = [calls EXCEPT ![c] = Away], UNCHANGED <<slot, attempts, gate>>,
         servers' \in [Generations -> ServerType],
         \A h \in Generations :
           /\ servers'[h].process = servers[h].process /\ servers'[h].running = servers[h].running
           /\ servers'[h].exit = servers[h].exit /\ servers'[h].watched = servers[h].watched
           /\ servers'[h].cancelled = servers[h].cancelled
                \/ (servers'[h].cancelled /\ h = g /\ ~Shown(g))
           /\ h # g => servers'[h] = servers[h]
  PROVE  LspInv'
<1>1. calls'[c] = Away /\ \A d \in Callers \ {c} : calls'[d] = calls[d]
  BY DEF LspInv, LspTypeOK
<1>2. LspTypeOK'
  BY BoundAssumption DEF LspInv, LspTypeOK, ServerType, Away, Places
<1>3. gate # c
  BY DEF LspInv, GateInv
<1>4. GateInv'
  BY <1>1, <1>3 DEF LspInv, GateInv, Away, Starting, Using
<1>5. \A h \in Generations : h = calls[c].server =>
        /\ h \in 1..attempts /\ (gate # None => h # attempts)
  BY NoneAssumption DEF LspInv, GateInv, LspTypeOK
<1>6. ServerInv'
  <2> SUFFICES ASSUME NEW h \in Generations
               PROVE  /\ servers'[h].running <=> servers'[h].process = "up"
                      /\ servers'[h].exit => servers'[h].process = "down"
                      /\ h > attempts => servers'[h] = NoServer
                      /\ \A d \in Callers : calls'[d].pc = "spawning" /\ calls'[d].server = h =>
                           servers'[h] = NoServer
                      /\ \A d \in Callers : calls'[d].pc = "initializing" /\ calls'[d].server = h =>
                           ~servers'[h].cancelled
    BY DEF ServerInv, NoServer
  <2>1. CASE h # calls[c].server
    BY <1>1, <2>1 DEF LspInv, ServerInv, Away
  <2>2. CASE h = calls[c].server
    <3>1. h \in 1..attempts /\ (gate # None => h # attempts) /\ attempts \in Nat
      BY <1>5, <2>2, LspShapes
    <3>2. \A d \in Callers : calls'[d].pc \in Starting => calls'[d].server # h
      BY <1>1, <3>1, NoneAssumption DEF LspInv, GateInv, Away, Starting
    <3> QED
      BY <3>1, <3>2 DEF LspInv, ServerInv, Starting
  <2> QED
    BY <2>1, <2>2
<1>7. OneServer'
  BY DEF LspInv, SlotSound, OneServer
<1>8. SlotHonest'
  <2>1. slot.phase = "Starting" => gate # None /\ calls'[gate].server = slot.generation
    BY <1>1, <1>3 DEF LspInv, SlotSound, SlotHonest, LspTypeOK
  <2>2. slot.phase = "Ready" =>
          /\ slot.generation \in Generations /\ slot.generation = attempts
          /\ servers[slot.generation].watched /\ ~servers[slot.generation].cancelled
          /\ Shown(slot.generation)
    BY LspShapes DEF LspInv, SlotSound, SlotHonest, Shown
  <2> QED
    BY <2>1, <2>2 DEF SlotHonest
<1> QED
  BY <1>2, <1>4, <1>6, <1>7, <1>8 DEF LspInv, SlotSound

\* A caller is refused, cancelled outside a start, or done.
LEMMA ReturnStep ==
  ASSUME LspInv, NEW c \in Callers,
         \/ \E waited \in BOOLEAN : Refuse(c, waited)
         \/ Cancel(c) /\ calls[c].pc # "initializing"
         \/ Send(c)
  PROVE  LspInv'
<1>1. ASSUME NEW waited \in BOOLEAN, Refuse(c, waited) PROVE LspInv'
  <2>1. /\ calls[c].pc \notin Starting /\ slot.phase # "Starting"
        /\ calls' = [calls EXCEPT ![c] = Away] /\ UNCHANGED <<slot, attempts, gate, servers>>
    BY <1>1 DEF Refuse, Return, LspInv, GateInv, Starting
  <2>2. PICK g \in Generations \cup {None} : g = calls[c].server
    BY DEF LspInv, LspTypeOK
  <2>3. servers' \in [Generations -> ServerType]
    BY <2>1 DEF LspInv, LspTypeOK
  <2> QED
    BY <2>1, <2>2, <2>3, LeaveStep
<1>2. CASE Cancel(c) /\ calls[c].pc # "initializing"
  <2>1. /\ calls[c].pc \notin Starting
        /\ calls' = [calls EXCEPT ![c] = Away] /\ UNCHANGED <<slot, attempts, gate>>
        /\ servers' = DropHandle(calls[c].server, c)
    BY <1>2 DEF Cancel, Return, Starting
  <2>2. PICK g \in Generations \cup {None} : g = calls[c].server
    BY DEF LspInv, LspTypeOK
  <2>3. PICK s : s = DropHandle(g, c)
    OBVIOUS
  <2>4. servers' = s
    BY <2>1, <2>2, <2>3 DEF DropHandle, Released
  <2>5. /\ s \in [Generations -> ServerType]
        /\ \A h \in Generations :
              /\ s[h].process = servers[h].process /\ s[h].running = servers[h].running
              /\ s[h].exit = servers[h].exit /\ s[h].watched = servers[h].watched
              /\ s[h].cancelled = servers[h].cancelled
                   \/ (s[h].cancelled /\ h = g /\ ~Shown(g))
              /\ h # g => s[h] = servers[h]
    BY <2>3, Dropped
  <2>6. /\ servers' \in [Generations -> ServerType]
        /\ \A h \in Generations :
              /\ servers'[h].process = servers[h].process /\ servers'[h].running = servers[h].running
              /\ servers'[h].exit = servers[h].exit /\ servers'[h].watched = servers[h].watched
              /\ servers'[h].cancelled = servers[h].cancelled
                   \/ (servers'[h].cancelled /\ h = g /\ ~Shown(g))
              /\ h # g => servers'[h] = servers[h]
    BY <2>4, <2>5
  <2> QED
    BY <2>1, <2>2, <2>6, LeaveStep
<1>3. CASE Send(c)
  <2>1. /\ calls[c].pc = "send" /\ calls[c].pc \notin Starting
        /\ calls' = [calls EXCEPT ![c] = Away] /\ UNCHANGED <<slot, attempts, gate>>
    BY <1>3 DEF Send, Return, Starting
  <2>2. PICK g \in Generations : g = calls[c].server
    BY <2>1, LspShapes DEF Using
  <2>v. PICK v \in 0..MaxVersion : v = calls[c].version
    BY DEF LspInv, LspTypeOK
  <2>3. PICK s : s = DropHandle(g, c)
    OBVIOUS
  <2>4. servers' = IF servers[g].process = "up"
                  THEN [s EXCEPT ![g].received = v, ![g].due = TRUE] ELSE s
    BY <1>3, <2>2, <2>v, <2>3 DEF Send, DropHandle, Released
  <2>5. /\ s \in [Generations -> ServerType]
        /\ \A h \in Generations :
              /\ s[h].process = servers[h].process /\ s[h].running = servers[h].running
              /\ s[h].exit = servers[h].exit /\ s[h].watched = servers[h].watched
              /\ s[h].cancelled = servers[h].cancelled
                   \/ (s[h].cancelled /\ h = g /\ ~Shown(g))
              /\ h # g => s[h] = servers[h]
    BY <2>3, Dropped
  <2>6. PICK q : q = [s EXCEPT ![g].received = v, ![g].due = TRUE]
    OBVIOUS
  <2>s. s \in [Generations -> ServerType]
    BY <2>5
  <2>7. /\ q \in [Generations -> ServerType]
        /\ \A h \in Generations : h # g => q[h] = s[h]
        /\ q[g].process = s[g].process
    BY <2>s, <2>6, ZenonT(40) DEF ServerType
  <2>r. /\ q[g].running <=> s[g].running
        /\ q[g].exit <=> s[g].exit
        /\ q[g].watched <=> s[g].watched
        /\ q[g].cancelled <=> s[g].cancelled
    BY <2>s, <2>6 DEF ServerType
  <2>e. /\ q[g].running = s[g].running /\ q[g].exit = s[g].exit
        /\ q[g].watched = s[g].watched /\ q[g].cancelled = s[g].cancelled
    BY <2>s, <2>7, <2>r DEF ServerType
  <2>8. servers' = s \/ servers' = q
    BY <2>4, <2>6
  <2>9. /\ servers' \in [Generations -> ServerType]
        /\ \A h \in Generations :
              /\ servers'[h].process = servers[h].process /\ servers'[h].running = servers[h].running
              /\ servers'[h].exit = servers[h].exit /\ servers'[h].watched = servers[h].watched
              /\ servers'[h].cancelled = servers[h].cancelled
                   \/ (servers'[h].cancelled /\ h = g /\ ~Shown(g))
              /\ h # g => servers'[h] = servers[h]
    BY <2>5, <2>7, <2>e, <2>8
  <2>10. /\ calls[c].pc \notin Starting /\ g \in Generations \cup {None} /\ g = calls[c].server
         /\ calls' = [calls EXCEPT ![c] = Away] /\ UNCHANGED <<slot, attempts, gate>>
    BY <2>1, <2>2
  <2> QED
    BY <2>9, <2>10, LeaveStep
<1> QED
  BY <1>1, <1>2, <1>3

\* The caller that starts a server is alone with it.
LEMMA StarterIs ==
  ASSUME LspInv, NEW c \in Callers, calls[c].pc \in Starting
  PROVE  /\ gate = c /\ c # None /\ attempts \in Generations
         /\ calls[c].server = attempts /\ slot.generation = attempts /\ slot.phase = "Starting"
         /\ \A d \in Callers \ {c} : /\ calls[d].pc \notin Starting
                                     /\ calls[d].pc \in Using => calls[d].server # attempts
BY LspShapes, NoneAssumption DEF LspInv, GateInv

\* A start begins where no server that could be used is left.
LEMMA BeginStartStep ==
  ASSUME LspInv, NEW c \in Callers, NEW waited \in BOOLEAN, BeginStart(c, waited)
  PROVE  LspInv'
<1>1. /\ calls[c].pc = "gate" /\ gate = None /\ ~Reusable /\ attempts < MaxLaunches
      /\ gate' = c /\ attempts' = attempts + 1
      /\ slot' = [phase |-> "Starting", generation |-> attempts + 1, retryable |-> TRUE]
      /\ calls' = [calls EXCEPT ![c] = [pc |-> "spawning", server |-> attempts + 1, version |-> 0]]
  BY DEF BeginStart
<1>2. PICK g \in Generations : g = attempts + 1
  BY <1>1, BoundAssumption DEF LspInv, LspTypeOK, Generations
<1>3. attempts \in Nat /\ c # None /\ slot.phase # "Starting"
  BY <1>1, LspShapes, NoneAssumption DEF LspInv, GateInv
<1>4. /\ servers' \in [Generations -> ServerType]
      /\ \A h \in Generations :
           /\ servers'[h].process = servers[h].process /\ servers'[h].running = servers[h].running
           /\ servers'[h].exit = servers[h].exit
           /\ h > attempts => servers'[h] = servers[h]
           /\ servers[h].cancelled => servers'[h].cancelled
  <2>1. CASE slot.phase = "Ready" /\ \A d \in Callers : ~Holds(d, slot.generation)
    <3>1. PICK o \in Generations : o = slot.generation
      BY <2>1, LspShapes
    <3>2. servers' = [servers EXCEPT ![o].cancelled = TRUE]
      BY <2>1, <3>1 DEF BeginStart
    <3>3. o = attempts /\ servers \in [Generations -> ServerType]
      BY <3>1 DEF LspInv, GateInv, LspTypeOK
    <3>4. /\ servers' \in [Generations -> ServerType] /\ servers'[o].cancelled
          /\ servers'[o].process = servers[o].process /\ servers'[o].running = servers[o].running
          /\ servers'[o].exit = servers[o].exit
          /\ \A h \in Generations : h # o => servers'[h] = servers[h]
      BY <3>2, <3>3, ZenonT(40) DEF ServerType
    <3> QED
      BY <1>3, <3>3, <3>4
  <2>2. CASE ~(slot.phase = "Ready" /\ \A d \in Callers : ~Holds(d, slot.generation))
    <3>1. servers' = servers
      BY <2>2 DEF BeginStart
    <3> QED
      BY <3>1 DEF LspInv, LspTypeOK
  <2> QED
    BY <2>1, <2>2
<1>5. LspTypeOK'
  BY <1>1, <1>2, <1>4, BoundAssumption DEF LspInv, LspTypeOK, Places, Generations
<1>6. calls'[c] = [pc |-> "spawning", server |-> g, version |-> 0]
      /\ \A d \in Callers \ {c} : calls'[d] = calls[d] /\ calls[d].pc \notin Starting
  BY <1>1, <1>2, NoneAssumption DEF LspInv, LspTypeOK, GateInv
<1>7. \A d \in Callers \ {c} : calls[d].pc \in Using => calls[d].server \in 1..attempts
  BY DEF LspInv, GateInv
<1>8. GateInv'
  <2>1. \A d \in Callers \ {c} :
          /\ calls'[d].pc \notin Starting /\ gate' # d
          /\ calls'[d].pc \in Using => calls'[d].server \in 1..attempts' /\ calls'[d].server # attempts'
          /\ calls'[d].pc \notin Starting \cup Using => calls'[d].server = None
    BY <1>1, <1>3, <1>6, <1>7 DEF LspInv, GateInv
  <2>2. /\ calls'[c].pc \in Starting /\ gate' = c /\ calls'[c].server = attempts' /\ attempts' # 0
        /\ calls'[c].pc \notin Using /\ slot'.generation = attempts' /\ slot'.phase = "Starting"
    BY <1>1, <1>2, <1>3, <1>6 DEF Starting, Using
  <2> QED
    BY <1>3, <2>1, <2>2 DEF GateInv
<1>9. ServerInv'
  <2>1. \A h \in Generations : h > attempts => servers[h] = NoServer
    BY DEF LspInv, ServerInv
  <2>2. \A h \in Generations : h >= g => servers'[h] = NoServer
    BY <1>2, <1>3, <1>4, <2>1, LspShapes
  <2>3. \A d \in Callers : calls'[d].pc \in Starting => d = c /\ calls'[d].server = g
    BY <1>6
  <2>4. calls'[c].pc # "initializing"
    BY <1>6
  <2> SUFFICES ASSUME NEW h \in Generations
               PROVE  /\ servers'[h].running <=> servers'[h].process = "up"
                      /\ servers'[h].exit => servers'[h].process = "down"
                      /\ h > attempts' => servers'[h] = NoServer
                      /\ \A d \in Callers : calls'[d].pc = "spawning" /\ calls'[d].server = h =>
                           servers'[h] = NoServer
                      /\ \A d \in Callers : calls'[d].pc = "initializing" /\ calls'[d].server = h =>
                           ~servers'[h].cancelled
    BY DEF ServerInv, NoServer
  <2>5. /\ servers'[h].running <=> servers'[h].process = "up"
        /\ servers'[h].exit => servers'[h].process = "down"
    BY <1>4 DEF LspInv, ServerInv
  <2> QED
    BY <1>1, <1>2, <1>3, <2>2, <2>3, <2>4, <2>5, LspShapes DEF Starting
<1>10. OneServer'
  <2>1. \A h \in Generations : servers[h].process = "up" /\ ~servers[h].cancelled => FALSE
    <3> SUFFICES ASSUME NEW h \in Generations, servers[h].process = "up", ~servers[h].cancelled
                 PROVE  FALSE
      OBVIOUS
    <3>1. slot.phase = "Ready" /\ slot.generation = h
      BY <1>3 DEF LspInv, SlotSound, OneServer
    <3>2. servers[h].running
      BY DEF LspInv, ServerInv
    <3> QED
      BY <1>1, <3>1, <3>2 DEF Reusable
  <2> QED
    BY <1>4, <2>1 DEF OneServer
<1>11. SlotHonest'
  BY <1>1, <1>2, <1>3, <1>6 DEF SlotHonest
<1> QED
  BY <1>5, <1>8, <1>9, <1>10, <1>11 DEF LspInv, SlotSound

\* A start that fails leaves no server behind that could be used.
LEMMA StartFails ==
  ASSUME LspInv, NEW c \in Callers, calls[c].pc \in Starting,
         calls' = [calls EXCEPT ![c] = Away], gate' = None, attempts' = attempts,
         slot' \in [phase : {"Failed", "Unavailable"}, generation : Generations \cup {0},
                    retryable : BOOLEAN],
         slot'.generation = slot.generation,
         servers' \in [Generations -> ServerType],
         \A h \in Generations :
           /\ servers'[h].process = servers[h].process /\ servers'[h].running = servers[h].running
           /\ servers'[h].exit = servers[h].exit
           /\ h # attempts => servers'[h] = servers[h]
           /\ h = attempts /\ servers[h].process = "up" => servers'[h].cancelled
  PROVE  LspInv'
<1>1. calls'[c] = Away /\ \A d \in Callers \ {c} : calls'[d] = calls[d] /\ calls[d].pc \notin Starting
  BY StarterIs DEF LspInv, LspTypeOK
<1>2. \A d \in Callers : calls'[d].pc \notin Starting
  BY <1>1 DEF Away, Starting
<1>3. attempts \in Generations /\ attempts \in Nat /\ slot.generation = attempts
  BY StarterIs, LspShapes
<1>4. LspTypeOK'
  BY <1>3, BoundAssumption DEF LspInv, LspTypeOK, Away, Places
<1>5. GateInv'
  BY <1>1, <1>2, <1>3, NoneAssumption DEF LspInv, GateInv, Away, Using, Starting
<1>6. ServerInv'
  <2>0. \A h \in Generations : h > attempts => servers[h] = NoServer
    BY DEF LspInv, ServerInv
  <2>p. \A h \in Generations : h > attempts => h # attempts
    BY <1>3, LspShapes
  <2>1. \A h \in Generations : h > attempts => servers'[h] = NoServer
    BY <2>0, <2>p
  <2>2. \A h \in Generations : /\ servers'[h].running <=> servers'[h].process = "up"
                               /\ servers'[h].exit => servers'[h].process = "down"
    BY DEF LspInv, ServerInv
  <2> QED
    BY <1>2, <2>1, <2>2 DEF ServerInv, NoServer, Starting
<1>7. OneServer'
  <2>1. \A h \in Generations : servers[h].process = "up" /\ ~servers[h].cancelled => h = attempts
    BY DEF LspInv, SlotSound, OneServer
  <2>2. \A h \in Generations : ~(servers'[h].process = "up" /\ ~servers'[h].cancelled)
    BY <2>1
  <2> QED
    BY <2>2 DEF OneServer
<1>8. SlotHonest'
  BY DEF SlotHonest
<1> QED
  BY <1>4, <1>5, <1>6, <1>7, <1>8 DEF LspInv, SlotSound

\* The failures of a start: before the process, after it, and by a dropped caller.
LEMMA FailedStartStep ==
  ASSUME LspInv, NEW c \in Callers,
         \/ \E phase \in {"Unavailable", "Failed"}, retryable \in BOOLEAN :
              SpawnFails(c, phase, retryable)
         \/ \E retryable \in BOOLEAN : InitializeFails(c, retryable)
         \/ Cancel(c) /\ calls[c].pc = "initializing"
  PROVE  LspInv'
<1>1. ASSUME NEW phase \in {"Unavailable", "Failed"}, NEW retryable \in BOOLEAN,
             SpawnFails(c, phase, retryable)
      PROVE  LspInv'
  <2>1. /\ calls[c].pc = "spawning" /\ calls' = [calls EXCEPT ![c] = Away] /\ gate' = None
        /\ UNCHANGED <<attempts, servers>>
        /\ slot' = [slot EXCEPT !.phase = phase, !.retryable = retryable]
    BY <1>1 DEF SpawnFails, Return, StoreFailure
  <2>2. calls[c].pc \in Starting
    BY <2>1 DEF Starting
  <2>3. slot' \in [phase : {"Failed", "Unavailable"}, generation : Generations \cup {0}, retryable : BOOLEAN]
        /\ slot'.generation = slot.generation
    BY <2>1 DEF LspInv, LspTypeOK
  <2>4. servers[attempts] = NoServer /\ servers \in [Generations -> ServerType]
    BY <2>1, <2>2, StarterIs DEF LspInv, ServerInv, LspTypeOK
  <2>5. servers[attempts].process # "up"
    BY <2>4 DEF NoServer
  <2> QED
    BY <2>1, <2>2, <2>3, <2>4, <2>5, StartFails
<1>2. ASSUME NEW retryable \in BOOLEAN, InitializeFails(c, retryable) PROVE LspInv'
  <2>1. /\ calls[c].pc = "initializing" /\ calls' = [calls EXCEPT ![c] = Away] /\ gate' = None
        /\ UNCHANGED <<attempts>>
        /\ slot' = [slot EXCEPT !.phase = "Failed", !.retryable = retryable]
        /\ servers' = [servers EXCEPT ![calls[c].server].cancelled = TRUE]
    BY <1>2 DEF InitializeFails, Return, StoreFailure
  <2>2. calls[c].pc \in Starting
    BY <2>1 DEF Starting
  <2>3. slot' \in [phase : {"Failed", "Unavailable"}, generation : Generations \cup {0}, retryable : BOOLEAN]
        /\ slot'.generation = slot.generation
    BY <2>1 DEF LspInv, LspTypeOK
  <2>4. PICK g \in Generations : g = attempts /\ g = calls[c].server
    BY <2>2, StarterIs
  <2>5. servers \in [Generations -> ServerType] /\ servers' = [servers EXCEPT ![g].cancelled = TRUE]
    BY <2>1, <2>4 DEF LspInv, LspTypeOK
  <2>6. /\ servers' \in [Generations -> ServerType] /\ servers'[g].cancelled
        /\ servers'[g].process = servers[g].process /\ servers'[g].running = servers[g].running
        /\ servers'[g].exit = servers[g].exit
        /\ \A h \in Generations : h # g => servers'[h] = servers[h]
    BY <2>5 DEF ServerType
  <2>7. \A h \in Generations :
           /\ servers'[h].process = servers[h].process /\ servers'[h].running = servers[h].running
           /\ servers'[h].exit = servers[h].exit
           /\ h # attempts => servers'[h] = servers[h]
           /\ h = attempts /\ servers[h].process = "up" => servers'[h].cancelled
    BY <2>4, <2>6
  <2> QED
    BY <2>1, <2>2, <2>3, <2>6, <2>7, StartFails
<1>3. CASE Cancel(c) /\ calls[c].pc = "initializing"
  <2>1. /\ calls' = [calls EXCEPT ![c] = Away] /\ gate' = None /\ UNCHANGED <<attempts>>
        /\ slot' = DropGuard(calls[c].server)
        /\ servers' = DropHandle(calls[c].server, c)
    BY <1>3 DEF Cancel, Return
  <2>2. calls[c].pc \in Starting
    BY <1>3 DEF Starting
  <2>4. PICK g \in Generations : g = attempts /\ g = calls[c].server
    BY <2>2, StarterIs
  <2>3. slot' \in [phase : {"Failed", "Unavailable"}, generation : Generations \cup {0}, retryable : BOOLEAN]
        /\ slot'.generation = slot.generation
    <3>1. slot' = [slot EXCEPT !.phase = "Failed", !.retryable = TRUE]
      BY <2>1, <2>2, <2>4, StarterIs DEF DropGuard
    <3> QED
      BY <3>1 DEF LspInv, LspTypeOK
  <2>a. Released(g, c)
    <3>1. \A d \in Callers \ {c} : ~Holds(d, g)
      BY <2>2, <2>4, StarterIs DEF Holds, Starting, Using
    <3> QED
      BY <2>2, <2>4, <3>1, StarterIs, NoneAssumption DEF Released
  <2>5. servers \in [Generations -> ServerType] /\ servers' = [servers EXCEPT ![g].cancelled = TRUE]
    BY <2>1, <2>4, <2>a DEF LspInv, LspTypeOK, DropHandle
  <2>6. /\ servers' \in [Generations -> ServerType] /\ servers'[g].cancelled
        /\ servers'[g].process = servers[g].process /\ servers'[g].running = servers[g].running
        /\ servers'[g].exit = servers[g].exit
        /\ \A h \in Generations : h # g => servers'[h] = servers[h]
    BY <2>5 DEF ServerType
  <2>7. \A h \in Generations :
           /\ servers'[h].process = servers[h].process /\ servers'[h].running = servers[h].running
           /\ servers'[h].exit = servers[h].exit
           /\ h # attempts => servers'[h] = servers[h]
           /\ h = attempts /\ servers[h].process = "up" => servers'[h].cancelled
    BY <2>4, <2>6
  <2> QED
    BY <2>1, <2>2, <2>3, <2>6, <2>7, StartFails
<1> QED
  BY <1>1, <1>2, <1>3

\* What the tasks of the servers and the callers that use one do: no start is
\* under way with the server they change, and the slot only falls from ready
\* with a server that is gone.
LEMMA QuietStep ==
  ASSUME LspInv, UNCHANGED <<attempts, gate>>, LspTypeOK',
         \A d \in Callers :
           /\ calls'[d].server = calls[d].server
           /\ calls'[d].pc = calls[d].pc \/ (calls[d].pc \in Using /\ calls'[d].pc \in Using),
         \/ slot' = slot
         \/ /\ slot.phase = "Ready" /\ slot'.phase = "Failed" /\ slot'.generation = slot.generation
            /\ servers[slot.generation].process # "up",
         \A h \in Generations :
           /\ servers'[h].process = "up" => servers[h].process = "up"
           /\ servers'[h].running <=> servers'[h].process = "up"
           /\ servers'[h].exit => servers'[h].process = "down"
           /\ slot'.phase = "Ready" /\ slot.generation = h /\ servers[h].watched => servers'[h].watched
           /\ servers[h].cancelled => servers'[h].cancelled
           /\ servers'[h].cancelled =>
                servers[h].cancelled \/ (slot.phase = "Ready" /\ slot'.phase # "Ready")
           /\ \/ servers'[h] = servers[h] \/ servers[h] # NoServer
              \/ h \in 1..attempts /\ (gate # None => h # attempts)
  PROVE  LspInv'
<1>1. GateInv'
  <2>1. /\ slot'.generation = slot.generation
        /\ slot'.phase = "Starting" <=> slot.phase = "Starting"
        /\ slot'.phase = "Ready" => slot.phase = "Ready"
    OBVIOUS
  <2>2. \A d \in Callers :
          /\ calls'[d].pc \in Starting <=> calls[d].pc \in Starting
          /\ calls'[d].pc \in Using <=> calls[d].pc \in Using
    BY DEF Starting, Using
  <2> QED
    BY <2>1, <2>2 DEF LspInv, GateInv
<1>2. ServerInv'
  <2> SUFFICES ASSUME NEW h \in Generations
               PROVE  /\ servers'[h].running <=> servers'[h].process = "up"
                      /\ servers'[h].exit => servers'[h].process = "down"
                      /\ h > attempts => servers'[h] = NoServer
                      /\ \A d \in Callers : calls'[d].pc = "spawning" /\ calls'[d].server = h =>
                           servers'[h] = NoServer
                      /\ \A d \in Callers : calls'[d].pc = "initializing" /\ calls'[d].server = h =>
                           ~servers'[h].cancelled
    BY DEF ServerInv, NoServer
  <2>1. /\ servers'[h].running <=> servers'[h].process = "up"
        /\ servers'[h].exit => servers'[h].process = "down"
    OBVIOUS
  <2>2. h > attempts => servers'[h] = NoServer
    <3>1. h > attempts => h \notin 1..attempts
      BY LspShapes
    <3>2. h > attempts => servers[h] = NoServer
      BY DEF LspInv, ServerInv
    <3> QED
      BY <3>1, <3>2
  <2>3. ASSUME NEW d \in Callers, calls'[d].pc \in Starting, calls'[d].server = h
        PROVE  /\ calls[d].pc = calls'[d].pc /\ calls[d].server = h
               /\ gate # None /\ h = attempts /\ slot.phase = "Starting"
    BY <2>3, StarterIs DEF Starting, Using
  <2>4. ASSUME NEW d \in Callers, calls'[d].pc = "spawning", calls'[d].server = h
        PROVE  servers'[h] = NoServer
    <3>1. /\ calls[d].pc = "spawning" /\ calls[d].server = h /\ gate # None /\ h = attempts
      BY <2>3, <2>4 DEF Starting
    <3>2. servers[h] = NoServer
      BY <3>1 DEF LspInv, ServerInv
    <3> QED
      BY <3>1, <3>2
  <2>5. ASSUME NEW d \in Callers, calls'[d].pc = "initializing", calls'[d].server = h
        PROVE  ~servers'[h].cancelled
    <3>1. calls[d].pc = "initializing" /\ calls[d].server = h /\ slot.phase = "Starting"
      BY <2>3, <2>5 DEF Starting
    <3>2. ~servers[h].cancelled
      BY <3>1 DEF LspInv, ServerInv
    <3> QED
      BY <3>1, <3>2
  <2> QED
    BY <2>1, <2>2, <2>4, <2>5
<1>3. OneServer'
  <2> SUFFICES ASSUME NEW h \in Generations, servers'[h].process = "up", ~servers'[h].cancelled
               PROVE  h = attempts /\ slot'.generation = h /\ slot'.phase \in {"Starting", "Ready"}
    BY DEF OneServer
  <2>1. servers[h].process = "up" /\ ~servers[h].cancelled
    OBVIOUS
  <2>2. h = attempts /\ slot.generation = h /\ slot.phase \in {"Starting", "Ready"}
    BY <2>1 DEF LspInv, SlotSound, OneServer
  <2> QED
    BY <2>1, <2>2
<1>4. SlotHonest'
  <2>1. slot'.phase = "Starting" => gate' # None /\ calls'[gate'].server = slot'.generation
    <3>1. slot'.phase = "Starting" => slot' = slot /\ gate \in Callers
      BY DEF LspInv, LspTypeOK, GateInv
    <3> QED
      BY <3>1 DEF LspInv, SlotSound, SlotHonest
  <2>2. ASSUME slot'.phase = "Ready"
        PROVE  /\ slot'.generation = attempts'
               /\ servers'[slot'.generation].watched /\ ~servers'[slot'.generation].cancelled
    <3>1. slot' = slot /\ slot.generation = attempts
      BY <2>2 DEF LspInv, SlotSound, SlotHonest
    <3>2. PICK g \in Generations : g = slot.generation
      BY <2>2, <3>1, LspShapes
    <3>3. servers[g].watched /\ ~servers[g].cancelled
      BY <2>2, <3>1, <3>2 DEF LspInv, SlotSound, SlotHonest
    <3> QED
      BY <2>2, <3>1, <3>2, <3>3
  <2> QED
    BY <2>1, <2>2 DEF SlotHonest
<1> QED
  BY <1>1, <1>2, <1>3, <1>4 DEF LspInv, SlotSound

\* A caller takes a version of the document and marks it as expected.
LEMMA SyncStep ==
  ASSUME LspInv, NEW c \in Callers, TakeVersion(c) \/ MarkExpected(c)
  PROVE  LspInv'
<1>1. CASE TakeVersion(c)
  <2>1. /\ calls[c].pc = "sync" /\ servers[calls[c].server].document < MaxVersion
        /\ servers' = [servers EXCEPT ![calls[c].server].document = @ + 1]
        /\ calls' = [calls EXCEPT ![c].pc = "mark",
                                  ![c].version = servers[calls[c].server].document + 1]
        /\ UNCHANGED <<slot, attempts, gate>>
    BY <1>1 DEF TakeVersion
  <2>2. PICK g \in Generations : g = calls[c].server
    BY <2>1, LspShapes DEF Using
  <2>3. PICK v \in 0..MaxVersion : v = servers[g].document + 1
    BY <2>1, <2>2, BoundAssumption DEF LspInv, LspTypeOK, ServerType
  <2>4. /\ servers \in [Generations -> ServerType]
        /\ calls \in [Callers -> [pc : Places, server : Generations \cup {None}, version : 0..MaxVersion]]
        /\ servers' = [servers EXCEPT ![g].document = v]
        /\ calls' = [calls EXCEPT ![c].pc = "mark", ![c].version = v]
    BY <2>1, <2>2, <2>3 DEF LspInv, LspTypeOK
  <2>5. /\ servers' \in [Generations -> ServerType]
        /\ \A h \in Generations : h # g => servers'[h] = servers[h]
        /\ servers'[g].process = servers[g].process
        /\ servers'[g].running <=> servers[g].running
        /\ servers'[g].exit <=> servers[g].exit
        /\ servers'[g].watched <=> servers[g].watched
        /\ servers'[g].cancelled <=> servers[g].cancelled
    BY <2>4 DEF ServerType
  <2>6. /\ calls' \in [Callers -> [pc : Places, server : Generations \cup {None}, version : 0..MaxVersion]]
        /\ calls'[c].pc = "mark" /\ calls'[c].server = calls[c].server
        /\ \A d \in Callers : d # c => calls'[d] = calls[d]
    BY <2>4 DEF Places
  <2>7. LspTypeOK'
    BY <2>1, <2>5, <2>6 DEF LspInv, LspTypeOK
  <2>8. g \in 1..attempts /\ (gate # None => g # attempts)
    BY <2>1, <2>2 DEF LspInv, GateInv, Using
  <2>9. \A h \in Generations : /\ servers[h].running <=> servers[h].process = "up"
                               /\ servers[h].exit => servers[h].process = "down"
    BY DEF LspInv, ServerInv
  <2>10. \A d \in Callers :
           /\ calls'[d].server = calls[d].server
           /\ calls'[d].pc = calls[d].pc \/ (calls[d].pc \in Using /\ calls'[d].pc \in Using)
    BY <2>1, <2>6 DEF Using
  <2>11. \A h \in Generations :
           /\ servers'[h].process = "up" => servers[h].process = "up"
           /\ servers'[h].running <=> servers'[h].process = "up"
           /\ servers'[h].exit => servers'[h].process = "down"
           /\ slot'.phase = "Ready" /\ slot.generation = h /\ servers[h].watched => servers'[h].watched
           /\ servers[h].cancelled => servers'[h].cancelled
           /\ servers'[h].cancelled =>
                servers[h].cancelled \/ (slot.phase = "Ready" /\ slot'.phase # "Ready")
           /\ \/ servers'[h] = servers[h] \/ servers[h] # NoServer
              \/ h \in 1..attempts /\ (gate # None => h # attempts)
    BY <2>5, <2>8, <2>9
  <2> QED
    BY <2>1, <2>7, <2>10, <2>11, QuietStep
<1>2. CASE MarkExpected(c)
  <2>1. /\ calls[c].pc = "mark" /\ calls' = [calls EXCEPT ![c].pc = "send"]
        /\ UNCHANGED <<slot, attempts, gate, servers>>
    BY <1>2 DEF MarkExpected
  <2>2. /\ calls' \in [Callers -> [pc : Places, server : Generations \cup {None}, version : 0..MaxVersion]]
        /\ calls'[c].pc = "send" /\ calls'[c].server = calls[c].server
        /\ \A d \in Callers : d # c => calls'[d] = calls[d]
    BY <2>1 DEF LspInv, LspTypeOK, Places
  <2>3. LspTypeOK'
    BY <2>1, <2>2 DEF LspInv, LspTypeOK
  <2>4. \A d \in Callers :
           /\ calls'[d].server = calls[d].server
           /\ calls'[d].pc = calls[d].pc \/ (calls[d].pc \in Using /\ calls'[d].pc \in Using)
    BY <2>1, <2>2 DEF Using
  <2>5. \A h \in Generations : /\ servers[h].running <=> servers[h].process = "up"
                               /\ servers[h].exit => servers[h].process = "down"
    BY DEF LspInv, ServerInv
  <2> QED
    BY <2>1, <2>3, <2>4, <2>5, QuietStep
<1> QED
  BY <1>1, <1>2

\* The process of a server ends, its exit is published and watched, and its
\* publications are read.
LEMMA ServerStep ==
  ASSUME LspInv, NEW g \in Generations, ServerNext(g)
  PROVE  LspInv'
<1>0. /\ servers \in [Generations -> ServerType]
      /\ \A h \in Generations : /\ servers[h].running <=> servers[h].process = "up"
                                /\ servers[h].exit => servers[h].process = "down"
  BY DEF LspInv, LspTypeOK, ServerInv
<1>1. CASE ServerEnds(g)
  <2>1. /\ servers[g].process = "up" /\ UNCHANGED <<slot, attempts, gate, calls>>
        /\ servers' = [servers EXCEPT ![g].process = "down", ![g].running = FALSE]
    BY <1>1 DEF ServerEnds
  <2>2. /\ servers' \in [Generations -> ServerType]
        /\ \A h \in Generations : h # g => servers'[h] = servers[h]
        /\ servers'[g].process = "down" /\ ~servers'[g].running
        /\ servers'[g].watched <=> servers[g].watched
        /\ servers'[g].cancelled <=> servers[g].cancelled
    BY <1>0, <2>1 DEF ServerType
  <2>3. LspTypeOK' /\ servers[g] # NoServer
    BY <2>1, <2>2 DEF LspInv, LspTypeOK, NoServer
  <2>4. \A h \in Generations :
           /\ servers'[h].process = "up" => servers[h].process = "up"
           /\ servers'[h].running <=> servers'[h].process = "up"
           /\ servers'[h].exit => servers'[h].process = "down"
           /\ slot'.phase = "Ready" /\ slot.generation = h /\ servers[h].watched => servers'[h].watched
           /\ servers[h].cancelled => servers'[h].cancelled
           /\ servers'[h].cancelled =>
                servers[h].cancelled \/ (slot.phase = "Ready" /\ slot'.phase # "Ready")
           /\ \/ servers'[h] = servers[h] \/ servers[h] # NoServer
              \/ h \in 1..attempts /\ (gate # None => h # attempts)
    BY <1>0, <2>2, <2>3
  <2> QED
    BY <2>1, <2>3, <2>4, QuietStep
<1>2. CASE PublishExit(g)
  <2>1. /\ servers[g].process = "down" /\ UNCHANGED <<slot, attempts, gate, calls>>
        /\ servers' = [servers EXCEPT ![g].exit = TRUE]
    BY <1>2 DEF PublishExit
  <2>2. /\ servers' \in [Generations -> ServerType]
        /\ \A h \in Generations : h # g => servers'[h] = servers[h]
        /\ servers'[g].process = servers[g].process
        /\ servers'[g].running <=> servers[g].running
        /\ servers'[g].watched <=> servers[g].watched
        /\ servers'[g].cancelled <=> servers[g].cancelled
    BY <1>0, <2>1, ZenonT(40) DEF ServerType
  <2>3. LspTypeOK' /\ servers[g] # NoServer
    BY <2>1, <2>2 DEF LspInv, LspTypeOK, NoServer
  <2>4. \A h \in Generations :
           /\ servers'[h].process = "up" => servers[h].process = "up"
           /\ servers'[h].running <=> servers'[h].process = "up"
           /\ servers'[h].exit => servers'[h].process = "down"
           /\ slot'.phase = "Ready" /\ slot.generation = h /\ servers[h].watched => servers'[h].watched
           /\ servers[h].cancelled => servers'[h].cancelled
           /\ servers'[h].cancelled =>
                servers[h].cancelled \/ (slot.phase = "Ready" /\ slot'.phase # "Ready")
           /\ \/ servers'[h] = servers[h] \/ servers[h] # NoServer
              \/ h \in 1..attempts /\ (gate # None => h # attempts)
    BY <1>0, <2>1, <2>2, <2>3
  <2> QED
    BY <2>1, <2>3, <2>4, QuietStep
<1>3. CASE WatchExit(g)
  <2> DEFINE shown == slot.phase = "Ready" /\ slot.generation = g
             drop == shown /\ \A c \in Callers : ~Holds(c, g)
  <2>1. /\ servers[g].watched /\ servers[g].exit /\ UNCHANGED <<attempts, gate, calls>>
        /\ slot' = IF shown THEN [slot EXCEPT !.phase = "Failed", !.retryable = TRUE] ELSE slot
        /\ servers' = [servers EXCEPT ![g].watched = FALSE, ![g].cancelled = @ \/ drop]
    BY <1>3 DEF WatchExit
  <2>2. PICK b \in BOOLEAN : b <=> (servers[g].cancelled \/ drop)
    OBVIOUS
  <2>3. servers' = [servers EXCEPT ![g].watched = FALSE, ![g].cancelled = b]
    <3> HIDE DEF shown, drop
    <3>1. (servers[g].cancelled \/ drop) \in BOOLEAN
      BY Zenon
    <3>2. b = (servers[g].cancelled \/ drop)
      BY <2>2, <3>1, Zenon
    <3> QED
      BY <2>1, <3>2, Zenon
  <2>s. /\ servers \in [Generations -> ServerType]
        /\ servers' = [servers EXCEPT ![g].watched = FALSE, ![g].cancelled = b]
    BY <1>0, <2>3
  <2>t. servers' \in [Generations -> ServerType]
    BY <2>s, ZenonT(40) DEF ServerType
  <2>u. /\ \A h \in Generations : h # g => servers'[h] = servers[h]
        /\ servers'[g].process = servers[g].process
        /\ servers'[g].running <=> servers[g].running
        /\ servers'[g].exit <=> servers[g].exit
    BY <2>s DEF ServerType
  <2>w. servers'[g].cancelled <=> b
    <3>1. CASE b
      <4>1. servers' = [servers EXCEPT ![g].watched = FALSE, ![g].cancelled = TRUE]
        BY <2>s, <3>1, Zenon
      <4> QED
        BY <2>s, <3>1, <4>1 DEF ServerType
    <3>2. CASE ~b
      <4>1. servers' = [servers EXCEPT ![g].watched = FALSE, ![g].cancelled = FALSE]
        <5>1. b = FALSE
          BY <3>2, Zenon
        <5> QED
          BY <2>s, <5>1, Zenon
      <4> QED
        BY <2>s, <3>2, <4>1 DEF ServerType
    <3> QED
      BY <3>1, <3>2
  <2>4. /\ servers' \in [Generations -> ServerType]
        /\ \A h \in Generations : h # g => servers'[h] = servers[h]
        /\ servers'[g].process = servers[g].process
        /\ servers'[g].running <=> servers[g].running
        /\ servers'[g].exit <=> servers[g].exit
        /\ servers'[g].cancelled <=> b
    BY <2>t, <2>u, <2>w
  <2>x. servers[g].watched /\ UNCHANGED <<attempts, gate, calls>>
    BY <2>1, Zenon
  <2>y. servers[g] # NoServer
    BY <2>x DEF NoServer
  <2>z. slot' \in [phase : {"NotStarted", "Starting", "Ready", "Failed", "Unavailable"},
                   generation : Generations \cup {0}, retryable : BOOLEAN]
    <3>1. slot' = slot \/ slot' = [slot EXCEPT !.phase = "Failed", !.retryable = TRUE]
      BY <2>1, Zenon
    <3> QED
      BY <3>1 DEF LspInv, LspTypeOK
  <2>5. LspTypeOK' /\ servers[g] # NoServer
    BY <2>x, <2>y, <2>z, <2>t DEF LspInv, LspTypeOK
  <2>6. /\ servers[g].process = "down"
        /\ shown => slot'.phase = "Failed" /\ slot'.generation = slot.generation
        /\ ~shown => slot' = slot
    BY <1>0, <2>1 DEF LspInv, LspTypeOK
  <2>7. \A h \in Generations :
           /\ servers'[h].process = "up" => servers[h].process = "up"
           /\ servers'[h].running <=> servers'[h].process = "up"
           /\ servers'[h].exit => servers'[h].process = "down"
           /\ slot'.phase = "Ready" /\ slot.generation = h /\ servers[h].watched => servers'[h].watched
           /\ servers[h].cancelled => servers'[h].cancelled
           /\ servers'[h].cancelled =>
                servers[h].cancelled \/ (slot.phase = "Ready" /\ slot'.phase # "Ready")
           /\ \/ servers'[h] = servers[h] \/ servers[h] # NoServer
              \/ h \in 1..attempts /\ (gate # None => h # attempts)
    BY <1>0, <2>2, <2>4, <2>5, <2>6
  <2>8. \/ slot' = slot
        \/ /\ slot.phase = "Ready" /\ slot'.phase = "Failed" /\ slot'.generation = slot.generation
           /\ servers[slot.generation].process # "up"
    BY <2>6
  <2> HIDE DEF shown, drop
  <2> QED
    BY <2>1, <2>5, <2>7, <2>8, QuietStep
<1>4. ASSUME NEW versioned \in BOOLEAN, Publish(g, versioned) PROVE LspInv'
  <2>1. /\ servers[g].due /\ UNCHANGED <<slot, attempts, gate, calls>>
        /\ servers' = [servers EXCEPT ![g].due = FALSE]
    BY <1>4 DEF Publish
  <2>2. /\ servers' \in [Generations -> ServerType]
        /\ \A h \in Generations : h # g => servers'[h] = servers[h]
        /\ servers'[g].process = servers[g].process
        /\ servers'[g].running <=> servers[g].running
        /\ servers'[g].exit <=> servers[g].exit
        /\ servers'[g].watched <=> servers[g].watched
        /\ servers'[g].cancelled <=> servers[g].cancelled
    BY <1>0, <2>1 DEF ServerType
  <2>3. LspTypeOK' /\ servers[g] # NoServer
    BY <2>1, <2>2 DEF LspInv, LspTypeOK, NoServer
  <2>4. \A h \in Generations :
           /\ servers'[h].process = "up" => servers[h].process = "up"
           /\ servers'[h].running <=> servers'[h].process = "up"
           /\ servers'[h].exit => servers'[h].process = "down"
           /\ slot'.phase = "Ready" /\ slot.generation = h /\ servers[h].watched => servers'[h].watched
           /\ servers[h].cancelled => servers'[h].cancelled
           /\ servers'[h].cancelled =>
                servers[h].cancelled \/ (slot.phase = "Ready" /\ slot'.phase # "Ready")
           /\ \/ servers'[h] = servers[h] \/ servers[h] # NoServer
              \/ h \in 1..attempts /\ (gate # None => h # attempts)
    BY <1>0, <2>2, <2>3
  <2> QED
    BY <2>1, <2>3, <2>4, QuietStep
<1> QED
  BY <1>1, <1>2, <1>3, <1>4 DEF ServerNext

\* The holder of the gate spawns its server.
LEMMA SpawnStep ==
  ASSUME LspInv, NEW c \in Callers, Spawn(c)
  PROVE  LspInv'
<1>1. /\ calls[c].pc = "spawning" /\ calls' = [calls EXCEPT ![c].pc = "initializing"]
      /\ servers' = [servers EXCEPT ![calls[c].server].process = "up",
                                    ![calls[c].server].running = TRUE]
      /\ UNCHANGED <<slot, attempts, gate>>
  BY DEF Spawn
<1>2. /\ gate = c /\ c # None /\ calls[c].server = attempts /\ attempts \in Generations
      /\ slot.generation = attempts /\ slot.phase = "Starting"
      /\ \A d \in Callers \ {c} : calls[d].pc \notin Starting
  BY <1>1, StarterIs DEF Starting
<1>3. PICK g \in Generations : g = attempts
  BY <1>2
<1>4. servers[g] = NoServer /\ servers \in [Generations -> ServerType]
  BY <1>1, <1>2, <1>3 DEF LspInv, ServerInv, LspTypeOK
<1>5. servers' = [servers EXCEPT ![g].process = "up", ![g].running = TRUE]
  BY <1>1, <1>2, <1>3
<1>6. /\ servers' \in [Generations -> ServerType]
      /\ \A h \in Generations : h # g => servers'[h] = servers[h]
      /\ servers'[g].process = "up" /\ servers'[g].running
      /\ ~servers'[g].exit /\ ~servers'[g].cancelled
  BY <1>4, <1>5 DEF ServerType, NoServer
<1>7. /\ calls' \in [Callers -> [pc : Places, server : Generations \cup {None}, version : 0..MaxVersion]]
      /\ calls'[c].pc = "initializing" /\ calls'[c].server = calls[c].server
      /\ \A d \in Callers : d # c => calls'[d] = calls[d]
  BY <1>1 DEF LspInv, LspTypeOK, Places
<1>8. LspTypeOK'
  BY <1>1, <1>6, <1>7 DEF LspInv, LspTypeOK
<1>9. GateInv'
  BY <1>1, <1>2, <1>7 DEF LspInv, GateInv, Starting, Using
<1>10. ServerInv'
  <2>1. \A h \in Generations : h # g =>
          /\ servers'[h].running <=> servers'[h].process = "up"
          /\ servers'[h].exit => servers'[h].process = "down"
          /\ h > attempts => servers'[h] = NoServer
    BY <1>6 DEF LspInv, ServerInv
  <2>2. \A d \in Callers : /\ calls'[d].pc # "spawning"
                           /\ calls'[d].pc = "initializing" => calls'[d].server = g
    BY <1>2, <1>3, <1>7 DEF Starting
  <2>3. attempts' = attempts /\ ~(g > attempts) /\ ~servers'[g].cancelled
    BY <1>1, <1>3, <1>6, LspShapes
  <2>4. \A h \in Generations :
          /\ servers'[h].running <=> servers'[h].process = "up"
          /\ servers'[h].exit => servers'[h].process = "down"
          /\ h > attempts' => servers'[h] = NoServer
    BY <1>6, <2>1, <2>3
  <2> QED
    BY <2>2, <2>3, <2>4 DEF ServerInv
<1>11. OneServer'
  BY <1>1, <1>2, <1>3, <1>6 DEF LspInv, SlotSound, OneServer
<1>12. SlotHonest'
  BY <1>1, <1>2, <1>7 DEF SlotHonest
<1> QED
  BY <1>8, <1>9, <1>10, <1>11, <1>12 DEF LspInv, SlotSound

\* The server that answered becomes the one the slot shows, and is watched.
LEMMA InitializeStep ==
  ASSUME LspInv, NEW c \in Callers, Initialize(c)
  PROVE  LspInv'
<1>1. /\ calls[c].pc = "initializing" /\ calls' = [calls EXCEPT ![c].pc = "sync"]
      /\ servers' = [servers EXCEPT ![calls[c].server].watched = TRUE]
      /\ slot' = [phase |-> "Ready", generation |-> calls[c].server, retryable |-> TRUE]
      /\ gate' = None /\ UNCHANGED <<attempts>>
  BY DEF Initialize
<1>2. /\ gate = c /\ c # None /\ calls[c].server = attempts /\ attempts \in Generations
      /\ slot.generation = attempts /\ slot.phase = "Starting"
      /\ \A d \in Callers \ {c} : calls[d].pc \notin Starting
  BY <1>1, StarterIs DEF Starting
<1>3. PICK g \in Generations : g = attempts
  BY <1>2
<1>4. servers \in [Generations -> ServerType] /\ ~servers[g].cancelled
  BY <1>1, <1>2, <1>3 DEF LspInv, ServerInv, LspTypeOK
<1>5. servers' = [servers EXCEPT ![g].watched = TRUE]
  BY <1>1, <1>2, <1>3
<1>6. /\ servers' \in [Generations -> ServerType]
      /\ \A h \in Generations : h # g => servers'[h] = servers[h]
      /\ servers'[g].watched /\ servers'[g].process = servers[g].process
      /\ servers'[g].running <=> servers[g].running
      /\ servers'[g].exit <=> servers[g].exit
      /\ ~servers'[g].cancelled
  BY <1>4, <1>5 DEF ServerType
<1>7. /\ calls' \in [Callers -> [pc : Places, server : Generations \cup {None}, version : 0..MaxVersion]]
      /\ calls'[c].pc = "sync" /\ calls'[c].server = calls[c].server
      /\ \A d \in Callers : d # c => calls'[d] = calls[d]
  BY <1>1 DEF LspInv, LspTypeOK, Places
<1>8. LspTypeOK'
  BY <1>1, <1>2, <1>6, <1>7 DEF LspInv, LspTypeOK
<1>9. GateInv'
  <2>1. \A d \in Callers : calls'[d].pc \notin Starting
    BY <1>2, <1>7 DEF Starting
  <2>2. \A d \in Callers : /\ calls'[d].pc \in Using => calls'[d].server \in 1..attempts
                           /\ calls'[d].pc \notin Using => calls'[d].server = None
    <3>1. attempts \in 1..attempts
      BY <1>2, LspShapes DEF Generations
    <3>2. \A d \in Callers \ {c} : /\ calls[d].pc \in Using => calls[d].server \in 1..attempts
                                   /\ calls[d].pc \notin Using => calls[d].server = None
      BY <1>2 DEF LspInv, GateInv
    <3> QED
      BY <1>2, <1>7, <3>1, <3>2 DEF Using
  <2>3. attempts # 0
    BY <1>2, LspShapes DEF Generations
  <2> QED
    BY <1>1, <1>2, <2>1, <2>2, <2>3, NoneAssumption DEF GateInv
<1>10. ServerInv'
  <2>1. \A h \in Generations :
          /\ servers[h].running <=> servers[h].process = "up"
          /\ servers[h].exit => servers[h].process = "down"
          /\ h > attempts => servers[h] = NoServer
    BY DEF LspInv, ServerInv
  <2>2. \A d \in Callers : calls'[d].pc \notin Starting
    BY <1>2, <1>7 DEF Starting
  <2> QED
    BY <1>1, <1>3, <1>6, <2>1, <2>2, LspShapes DEF ServerInv, Starting
<1>11. OneServer'
  BY <1>1, <1>2, <1>3, <1>4, <1>6 DEF LspInv, SlotSound, OneServer
<1>12. SlotHonest'
  BY <1>1, <1>2, <1>3, <1>6 DEF SlotHonest
<1> QED
  BY <1>8, <1>9, <1>10, <1>11, <1>12 DEF LspInv, SlotSound

\* Every step of the slot's system keeps the invariant.
LEMMA LspStep == LspInv /\ [LspNext]_lspVars => LspInv'
<1> SUFFICES ASSUME LspInv, [LspNext]_lspVars PROVE LspInv'
  OBVIOUS
<1>1. ASSUME NEW c \in Callers, CallerNext(c) PROVE LspInv'
  BY <1>1, EnterStep, ReturnStep, BeginStartStep, FailedStartStep, SpawnStep, InitializeStep,
     SyncStep, Zenon DEF CallerNext
<1>2. ASSUME NEW g \in Generations, ServerNext(g) PROVE LspInv'
  BY <1>2, ServerStep
<1>3. CASE UNCHANGED lspVars
  BY <1>3 DEF lspVars, LspInv, LspTypeOK, GateInv, ServerInv, SlotSound, OneServer, SlotHonest
<1> QED
  BY <1>1, <1>2, <1>3 DEF LspNext

\* The inductive invariant of the slot: who holds the gate, which start it is,
\* and what its server is doing.
THEOREM LspInvariant == LspSpec => []LspInv
<1>1. LspInit => LspInv
  <2> SUFFICES ASSUME LspInit PROVE LspInv
    OBVIOUS
  <2>1. LspTypeOK
    BY BoundAssumption DEF LspInit, LspTypeOK, NoServer, ServerType, Away, Places
  <2>2. GateInv
    BY NoneAssumption DEF LspInit, GateInv, Away, Starting, Using
  <2>3. ServerInv
    BY DEF LspInit, ServerInv, NoServer, Away
  <2>4. SlotSound
    BY DEF LspInit, SlotSound, OneServer, SlotHonest, NoServer
  <2> QED
    BY <2>1, <2>2, <2>3, <2>4 DEF LspInv
<1> QED
  BY <1>1, LspStep, PTL DEF LspSpec

\* SlotSound, for any number of callers, attempts and starts: whatever callers
\* are dropped and servers die, one server at most is up and not being stopped,
\* the one the slot shows, and the slot never shows a start nobody works for.
THEOREM SlotIsSound == LspSpec => []SlotSound
<1>1. LspInv => SlotSound
  BY DEF LspInv
<1> QED
  BY <1>1, LspInvariant, PTL

-----------------------------------------------------------------------------
(* The host registry.  A receipt speaks for the registry because nobody is *)
(* admitted while its generation is pending, and because whoever left in   *)
(* the meantime left cleanly.                                              *)

\* Every session is registered under its own identity.
Keyed == \A i \in Ids : sessions[i] # NoActor => IdOf[sessions[i]] = i

\* Generations not started have no outcome yet; of the started ones only the
\* generation of the receipt can be pending.
OnePending ==
  \A g \in Generation : /\ g > generations => outcome[g] = "pending"
                        /\ g <= generations /\ outcome[g] = "pending" => g = shutdown

\* While it is pending, what is registered is being cleaned, and what is being
\* cleaned is registered or already down.
PendingInv ==
  (shutdown # 0 /\ outcome[shutdown] = "pending") =>
     /\ \A i \in Ids : sessions[i] # NoActor => sessions[i] \in cleaning[shutdown]
     /\ \A a \in cleaning[shutdown] : sessions[IdOf[a]] = a \/ actor[a] = "complete"

\* A complete generation found all its sessions down.
CleanInv ==
  \A g \in Generation : outcome[g] = "complete" => \A a \in cleaning[g] : actor[a] = "complete"

\* A waiting shutdown call was made with nothing registered that its generation
\* does not clean, unless the generation failed.
CallerInv ==
  \A c \in Closers : closer[c] # 0 =>
     /\ closer[c] <= generations
     /\ registered[c] \subseteq cleaning[closer[c]] \/ outcome[closer[c]] = "failed"

HostInv ==
  /\ TypeOK /\ Keyed /\ OnePending /\ PendingInv /\ CleanInv /\ CallerInv
  /\ CompleteLeavesNothing /\ FailedIsRetained /\ SuccessMeansDown

\* The initial state of RuntimeHost::new satisfies the invariant.
LEMMA HostInit == Init => HostInv
BY HostAssumption DEF Init, HostInv, TypeOK, Keyed, OnePending, PendingInv, CleanInv, CallerInv,
         CompleteLeavesNothing, FailedIsRetained, SuccessMeansDown, Generation, Outcomes

\* The steps that touch only the bookkeeping of a caller of remove or shutdown.
LEMMA CallerStep ==
  ASSUME HostInv,
         \/ \E r \in Removers, i \in Ids : RemoveStarts(r, i)
         \/ \E r \in Removers : RemoveGivesUp(r)
         \/ \E c \in Closers : ShutdownCancelled(c)
         \/ UNCHANGED vars
  PROVE  HostInv'
<1>1. CASE UNCHANGED vars
  BY <1>1 DEF HostInv, vars, TypeOK, Keyed, OnePending, PendingInv, CleanInv, CallerInv,
         CompleteLeavesNothing, FailedIsRetained, SuccessMeansDown
<1>2. CASE \E r \in Removers, i \in Ids : RemoveStarts(r, i)
  BY <1>2, HostAssumption DEF HostInv, RemoveStarts, TypeOK, Keyed, OnePending, PendingInv, CleanInv, CallerInv,
         CompleteLeavesNothing, FailedIsRetained, SuccessMeansDown
<1>3. CASE \E r \in Removers : RemoveGivesUp(r)
  BY <1>3, HostAssumption DEF HostInv, RemoveGivesUp, TypeOK, Keyed, OnePending, PendingInv, CleanInv, CallerInv,
         CompleteLeavesNothing, FailedIsRetained, SuccessMeansDown
<1>4. CASE \E c \in Closers : ShutdownCancelled(c)
  BY <1>4, HostAssumption DEF HostInv, ShutdownCancelled, TypeOK, Keyed, OnePending, PendingInv, CleanInv, CallerInv,
         CompleteLeavesNothing, FailedIsRetained, SuccessMeansDown, Generation
<1> QED
  BY <1>1, <1>2, <1>3, <1>4

\* A session's outcome is retained: it is set once, so "complete" is stable.
LEMMA ActorStep ==
  ASSUME HostInv, NEW a \in Actors, ActorShutsDown(a)
  PROVE  HostInv'
<1> USE DEF HostInv, ActorShutsDown, TypeOK, callers
<1>1. TypeOK' /\ Keyed' /\ OnePending' /\ CallerInv' /\ CompleteLeavesNothing'
  BY DEF Keyed, OnePending, CallerInv, CompleteLeavesNothing, Outcomes
<1>2. PendingInv' /\ CleanInv'
  BY DEF PendingInv, CleanInv, Generation
<1>3. FailedIsRetained' /\ SuccessMeansDown'
  BY DEF FailedIsRetained, SuccessMeansDown
<1> QED
  BY <1>1, <1>2, <1>3

\* An admission begins a new host generation: the old receipt is gone, and it
\* was not pending.
LEMMA InsertStep ==
  ASSUME HostInv, NEW a \in Actors, Insert(a)
  PROVE  HostInv'
<1> USE HostAssumption DEF HostInv, Insert, TypeOK, callers
<1>1. TypeOK' /\ Keyed'
  BY DEF Keyed
<1>2. OnePending'
  BY DEF OnePending, Generation
<1>3. PendingInv' /\ CompleteLeavesNothing' /\ FailedIsRetained'
  BY DEF PendingInv, CompleteLeavesNothing, FailedIsRetained
<1>4. CleanInv' /\ CallerInv' /\ SuccessMeansDown'
  BY DEF CleanInv, CallerInv, SuccessMeansDown
<1> QED
  BY <1>1, <1>2, <1>3, <1>4

\* A removal releases an identity only for the clean session that holds it.
LEMMA RemoveStep ==
  ASSUME HostInv, NEW r \in Removers, RemoveEnds(r)
  PROVE  HostInv'
<1> USE HostAssumption DEF HostInv, RemoveEnds, TypeOK
<1>1. TypeOK' /\ Keyed' /\ OnePending'
  BY DEF Keyed, OnePending
<1>2. PendingInv'
  BY DEF PendingInv
<1>3. CompleteLeavesNothing' /\ FailedIsRetained'
  BY DEF CompleteLeavesNothing, FailedIsRetained, Keyed
<1>4. CleanInv' /\ CallerInv' /\ SuccessMeansDown'
  BY DEF CleanInv, CallerInv, SuccessMeansDown
<1> QED
  BY <1>1, <1>2, <1>3, <1>4

\* A call joins the receipt, which speaks for what is registered now, or starts
\* the generation that cleans exactly that.
LEMMA ShutdownStep ==
  ASSUME HostInv, NEW c \in Closers, ShutdownStarts(c)
  PROVE  HostInv'
<1> USE HostAssumption DEF HostInv, ShutdownStarts, TypeOK
<1>1. CASE shutdown # 0
  <2>0. TypeOK'
    <3>1. registered' \in [Closers -> SUBSET Actors]
      BY DEF Registered
    <3>2. closer' \in [Closers -> 0..MaxGenerations] /\ receipt' \in [Closers -> Outcomes]
      BY <1>1 DEF Outcomes
    <3> QED
      BY <1>1, <3>1, <3>2
  <2>1. Keyed' /\ OnePending' /\ PendingInv' /\ CleanInv'
    BY <1>1 DEF Keyed, OnePending, PendingInv, CleanInv
  <2>2. CompleteLeavesNothing' /\ FailedIsRetained' /\ SuccessMeansDown'
    BY <1>1 DEF CompleteLeavesNothing, FailedIsRetained, SuccessMeansDown
  <2>3. CallerInv'
    BY <1>1 DEF CallerInv, PendingInv, CompleteLeavesNothing, Registered, Generation, Outcomes
  <2> QED
    BY <2>0, <2>1, <2>2, <2>3
<1>2. CASE shutdown = 0
  <2>1. generations + 1 \in Generation /\ outcome[generations + 1] = "pending"
    BY <1>2 DEF Generation, OnePending
  <2>2. TypeOK'
    <3>1. generations' \in 0..MaxGenerations /\ shutdown' \in {0, generations'}
      BY <1>2, <2>1 DEF Generation
    <3>2. cleaning' \in [Generation -> SUBSET Actors] /\ registered' \in [Closers -> SUBSET Actors]
      BY <1>2, <2>1 DEF Registered
    <3>3. closer' \in [Closers -> 0..MaxGenerations] /\ receipt' \in [Closers -> Outcomes]
      BY <1>2, <2>1 DEF Generation, Outcomes
    <3> QED
      BY <1>2, <3>1, <3>2, <3>3
  <2>3. Keyed' /\ OnePending' /\ CleanInv'
    BY <1>2, <2>1 DEF Keyed, OnePending, CleanInv, Generation
  <2>4. PendingInv'
    BY <1>2, <2>1 DEF PendingInv, Keyed, Registered, Generation
  <2>5. CompleteLeavesNothing' /\ FailedIsRetained' /\ SuccessMeansDown'
    BY <1>2, <2>1 DEF CompleteLeavesNothing, FailedIsRetained, SuccessMeansDown
  <2>6. CallerInv'
    BY <1>2, <2>1 DEF CallerInv, Generation
  <2> QED
    BY <2>2, <2>3, <2>4, <2>5, <2>6
<1> QED
  BY <1>1, <1>2

\* The outcome of a generation is that of the sessions it cleaned: a complete
\* one empties the registry, a failed one leaves the failed session behind.
LEMMA CleanupStep ==
  ASSUME HostInv, NEW g \in Generation, CleanupEnds(g)
  PROVE  HostInv'
<1> USE HostAssumption DEF HostInv, CleanupEnds, TypeOK, callers
<1>1. g = shutdown /\ g # 0
  BY DEF OnePending, Generation
<1>2. TypeOK' /\ Keyed' /\ OnePending' /\ CleanInv'
  BY DEF Keyed, OnePending, CleanInv, Generation, Outcomes
<1>3. PendingInv' /\ CompleteLeavesNothing'
  BY <1>1 DEF PendingInv, CompleteLeavesNothing
<1>4. FailedIsRetained'
  <2>1. SUFFICES ASSUME outcome'[g] = "failed"
                 PROVE  \E i \in Ids : sessions'[i] # NoActor /\ actor'[sessions'[i]] = "failed"
    BY <1>1 DEF FailedIsRetained
  <2>2. PICK a \in cleaning[g] : actor[a] # "complete"
    BY <2>1
  <2>3. a \in Actors /\ IdOf[a] \in Ids /\ actor[a] = "failed"
    BY <2>2 DEF Outcomes
  <2>4. sessions[IdOf[a]] = a
    BY <1>1, <2>2 DEF PendingInv
  <2>5. sessions'[IdOf[a]] = a
    BY <2>2, <2>3, <2>4
  <2> QED
    BY <2>3, <2>5
<1>5. CallerInv' /\ SuccessMeansDown'
  BY DEF CallerInv, SuccessMeansDown, Generation
<1> QED
  BY <1>2, <1>3, <1>4, <1>5

\* A call returns the outcome of its generation.
LEMMA AnswerStep ==
  ASSUME HostInv, NEW c \in Closers, ShutdownReturns(c)
  PROVE  HostInv'
<1> USE HostAssumption DEF HostInv, ShutdownReturns, TypeOK
<1>0. TypeOK'
  <2>1. closer[c] \in Generation
    BY DEF Generation
  <2>2. receipt' \in [Closers -> Outcomes] /\ closer' \in [Closers -> 0..MaxGenerations]
    BY <2>1
  <2> QED
    BY <2>2
<1>1. Keyed' /\ OnePending' /\ PendingInv' /\ CleanInv'
  BY DEF Keyed, OnePending, PendingInv, CleanInv
<1>2. CompleteLeavesNothing' /\ FailedIsRetained' /\ CallerInv'
  BY DEF CompleteLeavesNothing, FailedIsRetained, CallerInv
<1>3. SuccessMeansDown'
  <2>1. ASSUME outcome[closer[c]] = "complete"
        PROVE  \A a \in registered[c] : actor[a] = "complete"
    <3>1. closer[c] \in Generation
      BY DEF Generation
    <3>2. registered[c] \subseteq cleaning[closer[c]]
      BY <2>1 DEF CallerInv
    <3> QED
      BY <2>1, <3>1, <3>2 DEF CleanInv
  <2> QED
    BY <2>1 DEF SuccessMeansDown
<1> QED
  BY <1>0, <1>1, <1>2, <1>3

\* The invariant holds in every state of the registry.
THEOREM HostInvariant == Spec => []HostInv
<1>1. HostInv /\ [Next]_vars => HostInv'
  BY CallerStep, ActorStep, InsertStep, RemoveStep, ShutdownStep, CleanupStep, AnswerStep
  DEF Next
<1> QED
  BY HostInit, <1>1, PTL DEF Spec

\* The receipt of a shutdown means what it says: a successful call found every
\* session that was registered when it was made cleanly down, a complete receipt
\* stands over an empty registry, and a failed one over a failed session.
THEOREM ReceiptsTheorem == Spec => []ReceiptsHonest
BY HostInvariant, PTL DEF HostInv, ReceiptsHonest

\* An identity is released only by the clean end of the session that holds it.
THEOREM ReleaseTheorem == Spec => ReleasedOnlyClean
<1> DEFINE Leaves ==
      \A i \in Ids : sessions'[i] # sessions[i] /\ sessions[i] # NoActor
                       => actor[sessions[i]] = "complete"
<1>1. HostInv /\ [Next]_vars => [Leaves]_vars
  <2> SUFFICES ASSUME HostInv, Next PROVE Leaves
    OBVIOUS
  <2> USE HostAssumption DEF HostInv, TypeOK
  <2>1. CASE \E a \in Actors : Insert(a)
    BY <2>1 DEF Insert
  <2>2. CASE \E r \in Removers : RemoveEnds(r)
    BY <2>2 DEF RemoveEnds
  <2>3. CASE \E g \in Generation : CleanupEnds(g)
    BY <2>3 DEF CleanupEnds
  <2>4. CASE UNCHANGED sessions
    BY <2>4
  <2> QED
    BY <2>1, <2>2, <2>3, <2>4
    DEF Next, ActorShutsDown, RemoveStarts, RemoveGivesUp, ShutdownStarts, ShutdownReturns,
        ShutdownCancelled
<1> QED
  BY HostInvariant, <1>1, PTL DEF Spec, ReleasedOnlyClean
=============================================================================
