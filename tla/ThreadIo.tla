------------------------------ MODULE ThreadIo ------------------------------
(***************************************************************************)
(* How the terminal interface stores a conversation.  Three parts meet:    *)
(*                                                                         *)
(*   - the transcript of the interface (tui/state/transcript.rs,           *)
(*     tui/state/persistence.rs): entries of the active turn, and the      *)
(*     commands that save, load, start and leave a thread;                 *)
(*   - the storage worker (thread_io/worker.rs), a thread that takes       *)
(*     requests from a channel, joins writes and retries failed ones;      *)
(*   - the files of each thread (thread_turn_log.rs, state_db.rs): the     *)
(*     canonical turn log, its index in the database, the live log that    *)
(*     holds the turn in progress, and the runtime checkpoint.             *)
(*                                                                         *)
(* An I/O error may leave any part of one write behind, and the process    *)
(* may be killed at any step and started again; files survive both.        *)
(* Entries are numbers in the order they were shown, so that order and     *)
(* loss can be told from the files alone.  Time is left out: the timed     *)
(* flush may happen whenever the worker waits for a request.               *)
(***************************************************************************)
EXTENDS Integers, Sequences, FiniteSets, SequencesExt, FiniteSetsExt

CONSTANTS
  Sessions,        \* identities of threads
  NoSession,       \* the reply of a request that loads no thread
  MaxEntries,      \* bound: entries ever shown
  MaxBacklog,      \* bound: requests in the channel when another is made
  MaxRequests,     \* bound: barrier requests (reads, commands, shutdowns)
  MaxCheckpoints,  \* bound: checkpoints no request made
  MaxFaults,       \* bound: I/O errors
  MaxStarts        \* bound: starts of the process

ASSUME StorageAssumption ==
  /\ NoSession \notin Sessions
  /\ {MaxEntries, MaxBacklog, MaxRequests, MaxCheckpoints, MaxFaults, MaxStarts} \subseteq Nat

VARIABLES
  ui,       \* TuiApp: session, active turn, committed turns, ordinal, phase
  receivers, \* the receivers the interface holds: restore, command, exit
  channel,  \* the worker's channel
  worker,   \* the locals of run(): pending, can_merge, status.error, its place
  disk,     \* the files of each thread
  shown,    \* entries shown so far
  owed,     \* history: per thread, the entries its files or writes must hold
  saved,    \* history: per thread, the last checkpoint accepted
  requests, \* requests made so far
  faults,   \* I/O errors so far
  starts    \* starts of the process so far

storageVars == <<ui, receivers, channel, worker, disk, shown, owed, saved,
                 requests, faults, starts>>
counters == <<shown, requests, faults, starts>>

-----------------------------------------------------------------------------
(* Write operations (records.rs) and the files they change.                *)

Runtime(s, v) == [op |-> "Runtime", session |-> s, version |-> v]
AppendLive(s, es) == [op |-> "AppendLive", session |-> s, entries |-> es]
\* Mutant: rewriting the live log adds to it.
RewriteAppends(s, es) == AppendLive(s, es)
ReplaceLive(s, es) == [op |-> "ReplaceLive", session |-> s, entries |-> es]
CommitTurn(s, o, es) ==
  [op |-> "CommitTurn", session |-> s, ordinal |-> o, entries |-> es]
ClearLive(s) == [op |-> "ClearLive", session |-> s]

IsWrite(r) ==
  r.op \in {"Runtime", "AppendLive", "ReplaceLive", "CommitTurn", "ClearLive"}
EntriesOf(w) ==
  IF w.op \in {"AppendLive", "ReplaceLive", "CommitTurn"} THEN Range(w.entries)
  ELSE {}

\* The parts of a checkpoint, in the order execute() writes them.
Parts == <<"state", "plan", "interactions", "rollout">>

NoFiles ==
  [exists |-> FALSE, turns |-> << >>, index |-> {}, live |-> << >>,
   checkpoint |-> [p \in Range(Parts) |-> 0]]

\* Two adjacent writes become one: the later checkpoint, or one longer append.
CanMerge(previous, next) ==
  /\ previous.op = next.op
  /\ previous.op \in {"Runtime", "AppendLive"}
  /\ previous.session = next.session
\* Mutant: of two appends the later one is kept.
MergeKeepsLater(previous, next) == next
Merge(previous, next) ==
  IF next.op = "Runtime" THEN next
  ELSE AppendLive(next.session, previous.entries \o next.entries)

\* append_turn_record: one more line of the log; load_turn_records keeps the
\* last line of each ordinal.
PutTurn(f, o, es) ==
  [f EXCEPT !.turns = [i \in DOMAIN f.turns \cup {o} |->
                         IF i = o THEN es ELSE f.turns[i]]]
PutParts(f, n, v) ==
  [f EXCEPT !.exists = @ \/ n > 0,
            !.checkpoint = [p \in DOMAIN @ |->
                              IF \E i \in 1..n : Parts[i] = p THEN v ELSE @[p]]]

\* StateDb::persist_turn: the index; its failure is only logged.
IndexTurn(f, o, indexed) ==
  IF indexed THEN [f EXCEPT !.index = @ \cup {o}] ELSE f

\* What a completed write leaves in the files of its thread.
Execute(w, f, indexed) ==
  CASE w.op = "Runtime" -> PutParts(f, Len(Parts), w.version)
    [] w.op = "AppendLive" -> [f EXCEPT !.live = @ \o w.entries]
    [] w.op = "ReplaceLive" -> [f EXCEPT !.live = w.entries]
    [] w.op = "CommitTurn" ->
         [IndexTurn(PutTurn(f, w.ordinal, w.entries), w.ordinal, indexed)
            EXCEPT !.live = << >>]
    [] w.op = "ClearLive" -> [f EXCEPT !.live = << >>]

\* What a write that failed may have left: some parts of a checkpoint, some
\* lines of an append, or a turn whose live log could not be cleared.
PartialWrites(w, f) ==
  CASE w.op = "Runtime" ->
         {PutParts(f, n, w.version) : n \in 0..(Len(Parts) - 1)}
    [] w.op = "AppendLive" ->
         {[f EXCEPT !.live = @ \o SubSeq(w.entries, 1, n)] :
             n \in 0..Len(w.entries)}
    [] w.op = "CommitTurn" ->
         {f} \cup {IndexTurn(PutTurn(f, w.ordinal, w.entries), w.ordinal, b) :
                     b \in BOOLEAN}
    [] w.op \in {"ReplaceLive", "ClearLive"} -> {f}

-----------------------------------------------------------------------------
(* Submitting requests (worker.rs, the handle).                            *)

NoReceipt == [id |-> 0, reply |-> "none", session |-> NoSession, files |-> NoFiles]
Waiting(id, s) == [NoReceipt EXCEPT !.id = id, !.session = s]

Read(id, s) == [op |-> "Read", id |-> id, session |-> s]
Command(id, s) == [op |-> "Execute", id |-> id, session |-> s]
StopWorker(id) == [op |-> "Shutdown", id |-> id, session |-> NoSession]

NewId == requests + 1
CanRequest == requests < MaxRequests
Running == ui.phase = "running" /\ Len(channel) <= MaxBacklog
Busy == receivers.restore # NoReceipt \/ receivers.command # NoReceipt

\* commit_active_turn: the write and the interface it leaves.
Ordinal == IF ui.ordinal > ui.committed THEN ui.ordinal ELSE ui.committed
\* Mutant: a restore in progress suspends commits, too.
CommitWritesUnlessRestoring ==
  IF ui.active = << >> \/ receivers.restore # NoReceipt THEN << >>
  ELSE <<CommitTurn(ui.session, Ordinal, ui.active)>>
CommitWrites ==
  IF ui.active = << >> THEN << >>
  ELSE <<CommitTurn(ui.session, Ordinal, ui.active)>>
Committed ==
  IF ui.active = << >> THEN ui
  ELSE [ui EXCEPT !.active = << >>, !.committed = @ + 1, !.ordinal = Ordinal + 1]

\* persist_runtime_state: a restore in progress suspends checkpoints.
CheckpointWrites ==
  IF receivers.restore # NoReceipt THEN << >>
  ELSE <<Runtime(ui.session, saved[ui.session] + 1)>>
CanCheckpoint == FoldFunction(+, 0, saved) < MaxCheckpoints
Saved ==
  IF receivers.restore # NoReceipt THEN saved
  ELSE [saved EXCEPT ![ui.session] = @ + 1]

-----------------------------------------------------------------------------
(* The interface.  Its notices are entries too: push_notice records them,  *)
(* push_unpersisted_notice only shows them.                                *)

Entry == shown + 1
CanShow == shown < MaxEntries
Showing(u) == [u EXCEPT !.active = Append(@, Entry)]
LiveWrite(s) == <<AppendLive(s, <<Entry>>)>>
Owing(s) == [owed EXCEPT ![s] = @ \cup {Entry}]

\* push_entry: an entry is shown and recorded in the live log; a message of
\* the user first commits the turn before it.
PushEntry(user) ==
  /\ Running /\ CanShow
  /\ user => ~Busy
  /\ ui' = Showing(IF user THEN Committed ELSE ui)
  /\ channel' = channel \o (IF user THEN CommitWrites ELSE << >>)
                \o LiveWrite(ui.session)
  /\ owed' = Owing(ui.session)
  /\ shown' = Entry
  /\ UNCHANGED <<receivers, worker, disk, saved, requests, faults, starts>>

\* finalize_agent_stream: the finished text takes the place of the entry that
\* was streamed, and the live log is rewritten from the active turn.
ReplaceEntry ==
  /\ Running /\ CanShow
  /\ ui.active # << >>
  /\ LET active == Append(Front(ui.active), Entry)
     IN /\ ui' = [ui EXCEPT !.active = active]
        /\ channel' = Append(channel, ReplaceLive(ui.session, active))
        /\ owed' = [owed EXCEPT ![ui.session] =
                      (@ \ {Last(ui.active)}) \cup Range(active)]
  /\ shown' = Entry
  /\ UNCHANGED <<receivers, worker, disk, saved, requests, faults, starts>>

\* persist_runtime_state, from the many places that call it.
PersistRuntimeState ==
  /\ Running /\ CanCheckpoint
  /\ channel' = channel \o CheckpointWrites
  /\ saved' = Saved
  /\ UNCHANGED <<ui, receivers, worker, disk, owed, counters>>

\* reset_transcript: the view is cleared, the thread is kept.
ResetTranscript ==
  /\ Running /\ CanShow
  /\ ui' = Showing([Committed EXCEPT !.committed = 0])
  /\ channel' = channel \o CommitWrites \o <<ClearLive(ui.session)>>
                \o LiveWrite(ui.session)
  /\ owed' = Owing(ui.session)
  /\ shown' = Entry
  /\ UNCHANGED <<receivers, worker, disk, saved, requests, faults, starts>>

\* request_restore and start_new: the current turn is committed, the
\* checkpoint saved, and the request follows both; a notice follows it.
Ask(r, receipt) ==
  /\ Running /\ ~Busy
  /\ CanRequest /\ CanShow
  /\ ui' = Showing(Committed)
  /\ channel' = channel \o CommitWrites \o CheckpointWrites \o <<r>>
                \o LiveWrite(ui.session)
  /\ saved' = Saved
  /\ owed' = Owing(ui.session)
  /\ receivers' = receipt
  /\ requests' = NewId
  /\ shown' = Entry
  /\ UNCHANGED <<worker, disk, faults, starts>>

\* The picker offers the other threads that are stored.
RequestRestore(s) ==
  /\ s # ui.session /\ disk[s].exists
  /\ Ask(Read(NewId, s), [receivers EXCEPT !.restore = Waiting(NewId, s)])

\* A thread identity nothing has used: Uuid::new_v4.
Unused(s) ==
  /\ disk[s] = NoFiles /\ saved[s] = 0 /\ owed[s] = {}
  /\ s # ui.session /\ s # receivers.command.session

StartNew(s) ==
  /\ Unused(s)
  /\ Ask(Command(NewId, s), [receivers EXCEPT !.command = Waiting(NewId, s)])

\* finish_restore and finish: the interface goes on in thread u, or stays.
Continue(u, dropped) ==
  /\ Running /\ CanShow
  /\ ui' = Showing(u)
  /\ channel' = channel \o LiveWrite(u.session)
  /\ owed' = Owing(u.session)
  /\ shown' = Entry
  /\ receivers' = dropped
  /\ UNCHANGED <<worker, disk, saved, requests, faults, starts>>

\* The ordinal after the last stored turn.
NextOrdinal(f) == IF f.turns = << >> THEN 0 ELSE Max(DOMAIN f.turns) + 1

FinishRestore ==
  LET r == receivers.restore
      loaded == [session |-> r.session, active |-> r.files.live,
                 committed |-> Cardinality(DOMAIN r.files.turns),
                 ordinal |-> NextOrdinal(r.files), phase |-> "running"]
  IN /\ r.reply \in {"ok", "failed"}
     /\ Continue(IF r.reply = "ok" THEN loaded ELSE ui,
                 [receivers EXCEPT !.restore = NoReceipt])

FinishNew ==
  LET r == receivers.command
      created == [session |-> r.session, active |-> << >>, committed |-> 0,
                  ordinal |-> 0, phase |-> "running"]
  IN /\ r.reply \in {"ok", "failed"}
     /\ Continue(IF r.reply = "ok" THEN created ELSE ui,
                 [receivers EXCEPT !.command = NoReceipt])

CancelRestore ==
  /\ Running
  /\ receivers.restore # NoReceipt
  /\ receivers' = [receivers EXCEPT !.restore = NoReceipt]
  /\ UNCHANGED <<ui, channel, worker, disk, owed, saved, counters>>

\* Leaving: a restore is dropped, the turn committed, the checkpoint saved.
\* A key asks for a flush first and may still stay; the end of the input goes
\* straight to shutdown_storage, which flushes too.
Leave(phase) ==
  /\ Running
  /\ CanRequest
  /\ phase = "saving" => CanShow
  /\ ui' = [(IF phase = "saving" THEN Showing(Committed) ELSE Committed)
              EXCEPT !.phase = phase]
  /\ shown' = IF phase = "saving" THEN Entry ELSE shown
  /\ channel' = channel \o CommitWrites
                \o <<Runtime(ui.session, saved[ui.session] + 1),
                     Read(NewId, NoSession)>>
  /\ saved' = [saved EXCEPT ![ui.session] = @ + 1]
  /\ receivers' = [receivers EXCEPT !.restore = NoReceipt,
                                  !.exit = Waiting(NewId, NoSession)]
  /\ requests' = NewId
  /\ UNCHANGED <<worker, disk, owed, faults, starts>>

\* Esc while the session is saved: pending writes remain queued.
StayInstead ==
  /\ ui.phase = "saving" /\ CanShow
  /\ ui' = Showing([ui EXCEPT !.phase = "running"])
  /\ channel' = channel \o LiveWrite(ui.session)
  /\ owed' = Owing(ui.session)
  /\ shown' = Entry
  /\ receivers' = [receivers EXCEPT !.exit = NoReceipt]
  /\ UNCHANGED <<worker, disk, saved, requests, faults, starts>>

\* The answers that lead out: the flush of the event loop, then the flush and
\* the shutdown of shutdown_storage.  A failed flush returns to the thread,
\* unless the input ended meanwhile (closed); a failed shutdown ends the
\* process with an error and drops the handle.
AfterAnswer(ok, closed) ==
  CASE ui.phase = "saving" /\ (ok \/ closed) -> "flushing"
    [] ui.phase = "saving" /\ ~ok /\ ~closed -> "running"
    [] ui.phase = "flushing" /\ ok -> "stopping"
    [] ui.phase = "stopping" /\ ok -> "exited"
    [] OTHER -> "failed"

ExitAnswered(closed) ==
  LET ok == receivers.exit.reply = "ok"
      next == AfterAnswer(ok, closed)
      ask == next \in {"flushing", "stopping"}
      told == next = "running"
  IN /\ receivers.exit.reply \in {"ok", "failed"}
     /\ closed => ui.phase = "saving" /\ ~ok
     /\ ask => CanRequest
     /\ told => CanShow
     /\ ui' = [(IF told THEN Showing(ui) ELSE ui) EXCEPT !.phase = next]
     /\ shown' = IF told THEN Entry ELSE shown
     /\ requests' = IF ask THEN NewId ELSE requests
     /\ channel' = CASE next = "flushing" -> Append(channel, Read(NewId, NoSession))
                   [] next = "stopping" -> Append(channel, StopWorker(NewId))
                   [] OTHER -> channel
     /\ receivers' = [receivers EXCEPT
          !.exit = IF ask THEN Waiting(NewId, NoSession) ELSE NoReceipt,
          !.command = IF next \in {"exited", "failed"} THEN NoReceipt ELSE @]
     /\ UNCHANGED <<worker, disk, owed, saved, faults, starts>>

-----------------------------------------------------------------------------
(* The worker (worker.rs, run).                                            *)

Resting == [op |-> "none"]
Timer == [op |-> "timer"]
Dropped == [op |-> "disconnected"]
NewWorker ==
  [alive |-> TRUE, pending |-> << >>, canMerge |-> FALSE, doing |-> Resting,
   error |-> FALSE]

\* recv_timeout returned a write: it joins the last pending one or follows it.
TakeWrite ==
  /\ worker.alive /\ worker.doing = Resting
  /\ channel # << >> /\ IsWrite(Head(channel))
  /\ LET next == Head(channel)
         pending == worker.pending
         merges == worker.canMerge /\ pending # << >> /\ CanMerge(Last(pending), next)
     IN worker' = [worker EXCEPT
          !.canMerge = TRUE,
          !.pending = IF merges THEN Append(Front(@), Merge(Last(@), next))
                      ELSE Append(@, next)]
  /\ channel' = Tail(channel)
  /\ UNCHANGED <<ui, receivers, disk, owed, saved, counters>>

\* recv_timeout returned a read, a command or a shutdown: a barrier.
TakeBarrier ==
  /\ worker.alive /\ worker.doing = Resting
  /\ channel # << >> /\ ~IsWrite(Head(channel))
  /\ worker' = [worker EXCEPT !.canMerge = FALSE, !.doing = Head(channel)]
  /\ channel' = Tail(channel)
  /\ UNCHANGED <<ui, receivers, disk, owed, saved, counters>>

\* Mutant: a failed flush is not tried again by itself.
StartFlushUnlessFailed ==
  /\ worker.alive /\ worker.doing = Resting
  /\ worker.pending # << >> /\ ~worker.error
  /\ worker' = [worker EXCEPT !.doing = Timer]
  /\ UNCHANGED <<ui, receivers, channel, disk, owed, saved, counters>>
\* The deadline passed, or every sender is gone and the channel is empty.
StartFlush ==
  /\ worker.alive /\ worker.doing = Resting
  /\ \/ /\ worker.pending # << >>
        /\ worker' = [worker EXCEPT !.doing = Timer]
     \/ /\ ui.phase = "failed" /\ channel = << >>
        /\ worker' = [worker EXCEPT !.doing = Dropped]
  /\ UNCHANGED <<ui, receivers, channel, disk, owed, saved, counters>>

\* flush_pending, one operation: written and dropped from the queue.  The
\* index of a committed turn may fail without failing the write.
StoreWrite(indexed) ==
  /\ worker.alive /\ worker.doing # Resting
  /\ worker.pending # << >>
  /\ LET w == Head(worker.pending) IN
     /\ disk' = [disk EXCEPT ![w.session] = Execute(w, @, indexed)]
     /\ ~indexed => w.op = "CommitTurn"
  /\ worker' = [worker EXCEPT !.pending = Tail(@), !.error = FALSE]
  /\ ~indexed => faults < MaxFaults
  /\ faults' = IF indexed THEN faults ELSE faults + 1
  /\ UNCHANGED <<ui, receivers, channel, shown, owed, saved, requests, starts>>

\* What the request that made the worker flush is answered.  A read whose
\* receiver was dropped is skipped; a command runs in any case.
Held(r) ==
  \E k \in DOMAIN receivers : receivers[k].id = r.id
Reply(r, reply, files) ==
  receivers' = [k \in DOMAIN receivers |->
                 IF receivers[k].id = r.id
                 THEN [receivers[k] EXCEPT !.reply = reply, !.files = files]
                 ELSE receivers[k]]

\* flush_pending stopped at an error: the operation stays first in line, and
\* whoever asked for the flush is told.
StoreFails ==
  /\ worker.alive /\ worker.doing # Resting
  /\ worker.pending # << >>
  /\ faults < MaxFaults
  /\ faults' = faults + 1
  /\ LET w == Head(worker.pending) IN
     \E f \in PartialWrites(w, disk[w.session]) :
        disk' = [disk EXCEPT ![w.session] = f]
  /\ LET r == worker.doing IN
     /\ worker' = [worker EXCEPT !.doing = Resting, !.alive = r # Dropped,
                                 !.error = TRUE]
     /\ IF r.op \in {"Read", "Execute", "Shutdown"} /\ Held(r)
        THEN Reply(r, "failed", NoFiles) ELSE UNCHANGED receivers
  /\ UNCHANGED <<ui, channel, shown, owed, saved, requests, starts>>

\* Everything pending is written: the closure of a read or a command runs,
\* and may fail by itself (fault); a shutdown ends the worker.
FlushDone(fault) ==
  /\ worker.alive /\ worker.doing # Resting
  /\ worker.pending = << >>
  /\ LET r == worker.doing
         runs == \/ r.op = "Read" /\ r.session # NoSession /\ Held(r)
                 \/ r.op = "Execute"
     IN /\ fault => runs /\ faults < MaxFaults
        /\ worker' = [worker EXCEPT !.doing = Resting,
                                    !.alive = r # Dropped /\ r.op # "Shutdown"]
        /\ disk' = IF r.op = "Execute" /\ ~fault
                   THEN [disk EXCEPT ![r.session].exists = TRUE] ELSE disk
        /\ IF r.op \in {"Read", "Execute", "Shutdown"} /\ Held(r)
           THEN Reply(r, IF fault THEN "failed" ELSE "ok",
                       IF r.op = "Read" /\ r.session # NoSession
                       THEN disk[r.session] ELSE NoFiles)
           ELSE UNCHANGED receivers
  /\ faults' = IF fault THEN faults + 1 ELSE faults
  /\ UNCHANGED <<ui, channel, shown, owed, saved, requests, starts>>

-----------------------------------------------------------------------------
(* The process.                                                            *)

Recoverable(s) ==
  Range(disk[s].live) \cup UNION {Range(disk[s].turns[o]) : o \in DOMAIN disk[s].turns}
Unwritten(s) ==
  UNION {EntriesOf(w) : w \in {r \in Range(worker.pending) \cup Range(channel) :
                                IsWrite(r) /\ r.session = s}}

NoReceipts == [restore |-> NoReceipt, command |-> NoReceipt, exit |-> NoReceipt]

\* The process is killed: only files survive, and they are all the history
\* still owes.
Crash ==
  /\ ui.phase \notin {"down", "exited"}
  /\ starts < MaxStarts
  /\ ui' = [ui EXCEPT !.phase = "down", !.active = << >>]
  /\ owed' = [s \in Sessions |-> Recoverable(s)]
  /\ saved' = [s \in Sessions |-> disk[s].checkpoint["state"]]
  /\ receivers' = NoReceipts
  /\ channel' = << >>
  /\ worker' = [NewWorker EXCEPT !.alive = FALSE]
  /\ UNCHANGED <<disk, counters>>

\* A new process starts in a thread of its own and may resume an old one.
Start(s) ==
  /\ ui.phase \in {"down", "exited"}
  /\ starts < MaxStarts
  /\ Unused(s)
  /\ ui' = [session |-> s, active |-> << >>, committed |-> 0, ordinal |-> 0,
            phase |-> "running"]
  /\ worker' = NewWorker
  /\ starts' = starts + 1
  /\ UNCHANGED <<receivers, channel, disk, owed, saved, shown, requests, faults>>

StorageInit ==
  /\ \E s \in Sessions :
       ui = [session |-> s, active |-> << >>, committed |-> 0, ordinal |-> 0,
             phase |-> "running"]
  /\ receivers = NoReceipts
  /\ channel = << >>
  /\ worker = NewWorker
  /\ disk = [s \in Sessions |-> NoFiles]
  /\ owed = [s \in Sessions |-> {}]
  /\ saved = [s \in Sessions |-> 0]
  /\ shown = 0 /\ requests = 0 /\ faults = 0 /\ starts = 1

UiNext ==
  \/ \E user \in BOOLEAN : PushEntry(user)
  \/ ReplaceEntry
  \/ PersistRuntimeState
  \/ ResetTranscript
  \/ \E s \in Sessions : RequestRestore(s) \/ StartNew(s)
  \/ FinishRestore
  \/ CancelRestore
  \/ FinishNew
  \/ \E phase \in {"saving", "flushing"} : Leave(phase)
  \/ StayInstead
  \/ \E closed \in BOOLEAN : ExitAnswered(closed)

WorkerNext ==
  \/ TakeWrite
  \/ TakeBarrier
  \/ StartFlush
  \/ \E indexed \in BOOLEAN : StoreWrite(indexed)
  \/ StoreFails
  \/ \E fault \in BOOLEAN : FlushDone(fault)

StorageNext ==
  \/ UiNext
  \/ WorkerNext
  \/ Crash
  \/ \E s \in Sessions : Start(s)

StorageSpec == StorageInit /\ [][StorageNext]_storageVars

\* The worker's thread runs; nothing else has to happen.
FairStorageSpec == StorageSpec /\ WF_storageVars(WorkerNext)

-----------------------------------------------------------------------------
(* Properties.                                                             *)

\* An entry that was accepted is never without a copy: it is in the files of
\* its thread, or in a write the worker still holds.  Merging, retrying,
\* committing, clearing, changing threads and crashing all move copies.
NothingLost == \A s \in Sessions : owed[s] \subseteq Recoverable(s) \cup Unwritten(s)

\* The conversation a restore would show: the turns by ordinal, then the live
\* log.
TurnAt(f, o) == IF o \in DOMAIN f.turns THEN f.turns[o] ELSE << >>
TurnEntries(f) == FlattenSeq([i \in 1..NextOrdinal(f) |-> TurnAt(f, i - 1)])
Transcript(f) == TurnEntries(f) \o f.live

\* Entries are in the order they were shown, but for repetitions: an entry out
\* of place was there before.
InOrder(t) ==
  \A i, j \in DOMAIN t :
    i < j /\ t[i] > t[j] => \E k \in 1..(i - 1) : t[k] = t[j]

\* A retried append or a crash between the two files of a commit may repeat
\* entries, but never reorders them.
TranscriptInOrder == \A s \in Sessions : InOrder(Transcript(disk[s]))

\* Once the writes of the current thread are done, the live log holds the
\* active turn and nothing else; a notice that was only shown is not in it.
LiveFollowsActive ==
  LET s == ui.session
      written == ~\E i \in DOMAIN (worker.pending \o channel) :
                    /\ IsWrite((worker.pending \o channel)[i])
                    /\ (worker.pending \o channel)[i].session = s
  IN ui.phase = "running" /\ written =>
       Range(disk[s].live) = Range(ui.active) \cap owed[s]

\* A restore shows what was on the screen: the stored conversation is in its
\* order, and ends with the turn that was active.
RestoreFaithful == TranscriptInOrder /\ LiveFollowsActive

\* A clean exit means that everything shown in the thread is in its canonical
\* turns, that its checkpoint is whole and the last one, and that no write is
\* left behind.
CleanExit ==
  ui.phase = "exited" =>
    /\ worker.pending = << >> /\ channel = << >>
    /\ owed[ui.session] \subseteq
         UNION {Range(disk[ui.session].turns[o]) : o \in DOMAIN disk[ui.session].turns}
    /\ \A p \in Range(Parts) : disk[ui.session].checkpoint[p] = saved[ui.session]

\* Every entry reaches the files of its thread, through retries and merges,
\* and everyone who waits for the worker gets an answer, unless the process is
\* killed or leaves after a failed shutdown.
Settled ==
  /\ \A s \in Sessions : owed[s] \subseteq Recoverable(s)
  /\ \A k \in DOMAIN receivers : receivers[k].id > 0 => receivers[k].reply # "none"
EventuallySettled == <>[](ui.phase \in {"failed", "down"} \/ Settled)

=============================================================================
