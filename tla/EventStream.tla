---------------------------- MODULE EventStream ----------------------------
(***************************************************************************)
(* The ordered event domain of one runtime session and its observers.      *)
(*                                                                         *)
(* rara-runtime's EventLog assigns each event a sequence number, retains    *)
(* it in a bounded replay window and broadcasts it, all under one mutex.    *)
(* An EventStream reads first its replayed events, then the live broadcast  *)
(* channel, recovers from lag through the replay window, and ends with a    *)
(* typed boundary: ResyncRequired, Closed or ActorStopped.                  *)
(*                                                                         *)
(* An event is its sequence number: nothing here depends on its payload.    *)
(* The two VecDeques of events (the replay window and a stream's replay     *)
(* queue) are filled in sequence order and emptied from the front, so they  *)
(* are sets of sequence numbers whose front is the minimum.                 *)
(***************************************************************************)
EXTENDS Integers, FiniteSets, FiniteSetsExt

CONSTANTS
    Observers,      \* the event streams
    Capacity,       \* EventLog.capacity: how many events the window retains
    LiveCapacity,   \* slots of the broadcast ring
    MaxSequence,    \* bound: how many events are published
    MaxVersion      \* bound: how many lifecycle snapshots are published

ASSUME CapacityAssumption == Capacity \in Nat \ {0} /\ LiveCapacity \in Nat \ {0}
ASSUME BoundAssumption == MaxSequence \in Nat /\ MaxVersion \in Nat

VARIABLES
    sequence,   \* Publication.sequence: the latest number assigned
    replay,     \* Publication.replay: the retained events
    phase,      \* the phase in the lifecycle snapshot: "open" or "closed"
    version,    \* the version of the snapshot's watch channel
    lastSeq,    \* the snapshot's last_sequence
    actor,      \* "running" while the actor holds the watch channel's sender
    pc,         \* where each observer is, see Locations
    live,       \* next sequence number each broadcast receiver will read
    queue,      \* EventStream.replay
    cursor,     \* EventStream.cursor
    seen,       \* the snapshot version each stream has marked as seen
    polled,     \* history: the latest sequence at a stream's last empty poll
    closedAt    \* history: the latest sequence when the phase became Closed

logVars == <<sequence, replay>>
lifecycleVars == <<phase, version, lastSeq, actor, closedAt>>
streamVars == <<pc, live, queue, cursor, seen, polled>>
vars == <<logVars, lifecycleVars, streamVars>>

(***************************************************************************)
(* "detached": no stream.  "subscribed", "replaying": inside the           *)
(* subscription calls.  "loop": at the head of recv's loop, or between two  *)
(* calls of recv.  "lagged": recv was told it lagged and is about to read   *)
(* the replay window.  "check": the live channel was empty, the phase is    *)
(* read next.  "select": awaiting an event or a snapshot.  The rest are the *)
(* errors recv or the subscription returned.                                *)
(***************************************************************************)
Boundaries == {"resync", "closed", "stopped"}
Attached == {"loop", "lagged", "check", "select"}
Locations == {"detached", "subscribed", "replaying"} \cup Attached \cup Boundaries

TypeOK ==
    /\ sequence \in 0..MaxSequence
    /\ replay \subseteq 1..MaxSequence
    /\ phase \in {"open", "closed"}
    /\ version \in 0..MaxVersion
    /\ lastSeq \in 0..MaxSequence
    /\ actor \in {"running", "ended"}
    /\ pc \in [Observers -> Locations]
    /\ live \in [Observers -> 1..(MaxSequence + 1)]
    /\ queue \in [Observers -> SUBSET (1..MaxSequence)]
    /\ cursor \in [Observers -> 0..MaxSequence]
    /\ seen \in [Observers -> 0..MaxVersion]
    /\ polled \in [Observers -> 0..MaxSequence]
    /\ closedAt \in 0..MaxSequence

Init ==
    /\ sequence = 0
    /\ replay = {}
    /\ phase = "open"
    /\ version = 0
    /\ lastSeq = 0
    /\ actor = "running"
    /\ pc = [o \in Observers |-> "detached"]
    /\ live = [o \in Observers |-> 1]
    /\ queue = [o \in Observers |-> {}]
    /\ cursor = [o \in Observers |-> 0]
    /\ seen = [o \in Observers |-> 0]
    /\ polled = [o \in Observers |-> 0]
    /\ closedAt = 0

-----------------------------------------------------------------------------
(* The event log *)

\* The loop that pops the front of the window until it fits its capacity:
\* the window grows by one event at a time, so one pop is enough.
Trim(events) ==
    IF Cardinality(events) > Capacity THEN events \ {Min(events)} ELSE events

\* Numbering, retention and broadcast share one critical section, so that no
\* producer's event can be seen between the steps of another one's publish.
Publish ==
    /\ sequence < MaxSequence
    /\ sequence' = sequence + 1
    /\ replay' = Trim(replay \cup {sequence + 1})
    /\ UNCHANGED <<lifecycleVars, streamVars>>

OldestAvailable == IF replay = {} THEN sequence + 1 ELSE Min(replay)

\* Mutant of ReplayGap: tolerates a cursor one event before the window.
ReplayGapLax(n) ==
    /\ n # sequence
    /\ n > sequence \/ n + 2 < OldestAvailable

\* replay_after(n) fails for a cursor from the future or before the window.
ReplayGap(n) ==
    /\ n # sequence
    /\ n > sequence \/ n + 1 < OldestAvailable

ReplayAfter(n) == {e \in replay : e > n}

-----------------------------------------------------------------------------
(* The lifecycle snapshot *)

\* The actor reads current_sequence and then replaces the snapshot.  Other
\* tasks publish in between, so any number reached since the last snapshot
\* can be the one it carries.
PublishSnapshot(p) ==
    /\ actor = "running"
    /\ phase = "open"
    /\ version < MaxVersion
    /\ \E s \in lastSeq..sequence : lastSeq' = s
    /\ version' = version + 1
    /\ phase' = p
    /\ closedAt' = IF p = "closed" THEN sequence ELSE closedAt
    /\ UNCHANGED <<actor, logVars, streamVars>>

\* The actor's task ends: it returned after the Closed snapshot, or panicked.
ActorEnds ==
    /\ actor = "running"
    /\ actor' = "ended"
    /\ UNCHANGED <<phase, version, lastSeq, closedAt, logVars, streamVars>>

-----------------------------------------------------------------------------
(* Subscribing *)

\* subscribe_control: the broadcast receiver starts after the latest event.
Subscribe(o) ==
    /\ pc[o] \in {"detached", "resync"}
    /\ live' = [live EXCEPT ![o] = sequence + 1]
    /\ pc' = [pc EXCEPT ![o] = "subscribed"]
    /\ UNCHANGED <<logVars, lifecycleVars, queue, cursor, seen, polled>>

\* subscribe_from_snapshot starts after the snapshot's last_sequence,
\* subscribe_after after a number its caller kept, from whatever session.
ChooseCursor(o) ==
    /\ pc[o] = "subscribed"
    /\ \E n \in {lastSeq} \cup 0..MaxSequence : cursor' = [cursor EXCEPT ![o] = n]
    /\ pc' = [pc EXCEPT ![o] = "replaying"]
    /\ UNCHANGED <<logVars, lifecycleVars, live, queue, seen, polled>>

\* Mutant of OpenStream: the stream relies on the live channel alone.
OpenStreamLiveOnly(o) ==
    /\ pc[o] = "replaying"
    /\ seen' = [seen EXCEPT ![o] = 0]
    /\ pc' = [pc EXCEPT ![o] = IF ReplayGap(cursor[o]) THEN "resync" ELSE "loop"]
    /\ UNCHANGED <<logVars, lifecycleVars, live, queue, cursor, polled>>

\* The events retained since the cursor become the stream's replay queue.
\* `seen` starts at the version of the handle's receiver, never advanced.
OpenStream(o) ==
    /\ pc[o] = "replaying"
    /\ seen' = [seen EXCEPT ![o] = 0]
    /\ IF ReplayGap(cursor[o])
         THEN /\ pc' = [pc EXCEPT ![o] = "resync"]
              /\ UNCHANGED queue
         ELSE /\ pc' = [pc EXCEPT ![o] = "loop"]
              /\ queue' = [queue EXCEPT ![o] = ReplayAfter(cursor[o])]
    /\ UNCHANGED <<logVars, lifecycleVars, live, cursor, polled>>

\* A stream is dropped by its owner.
Drop(o) ==
    /\ pc[o] \in Attached \cup {"stopped", "closed"}
    /\ pc' = [pc EXCEPT ![o] = "detached"]
    /\ queue' = [queue EXCEPT ![o] = {}]
    /\ UNCHANGED <<logVars, lifecycleVars, live, cursor, seen, polled>>

-----------------------------------------------------------------------------
(* The broadcast channel (tokio): a ring of the LiveCapacity newest events.  *)

LiveEmpty(o) == live[o] > sequence
LiveLagged(o) == live[o] + LiveCapacity <= sequence

\* Read one event from the ring: deliver it if it is news, else drop it.
ReadLive(o) ==
    /\ ~LiveEmpty(o) /\ ~LiveLagged(o)
    /\ live' = [live EXCEPT ![o] = @ + 1]
    /\ cursor' = [cursor EXCEPT ![o] = IF live[o] > @ THEN live[o] ELSE @]
    /\ pc' = [pc EXCEPT ![o] = "loop"]
    /\ UNCHANGED <<queue, seen, polled>>

\* The receiver lags: the channel moves it to the oldest event of the ring.
FallBehind(o) ==
    /\ LiveLagged(o)
    /\ live' = [live EXCEPT ![o] = sequence - LiveCapacity + 1]
    /\ pc' = [pc EXCEPT ![o] = "lagged"]
    /\ UNCHANGED <<queue, cursor, seen, polled>>

-----------------------------------------------------------------------------
(* EventStream::recv *)

PopReplay(o) ==
    /\ pc[o] = "loop"
    /\ queue[o] # {}
    /\ LET event == Min(queue[o])
       IN  /\ queue' = [queue EXCEPT ![o] = @ \ {event}]
           /\ cursor' = [cursor EXCEPT ![o] = IF event > @ THEN event ELSE @]
    /\ UNCHANGED <<logVars, lifecycleVars, pc, live, seen, polled>>

\* live.try_recv(): an event, lag, or nothing yet.
TryRecv(o) ==
    /\ pc[o] = "loop"
    /\ queue[o] = {}
    /\ \/ ReadLive(o)
       \/ FallBehind(o)
       \/ /\ LiveEmpty(o)
          /\ pc' = [pc EXCEPT ![o] = "check"]
          /\ polled' = [polled EXCEPT ![o] = sequence]
          /\ UNCHANGED <<live, queue, cursor, seen>>
    /\ UNCHANGED <<logVars, lifecycleVars>>

\* Lag is recovered from the replay window, or reported as ResyncRequired.
Recover(o) ==
    /\ pc[o] = "lagged"
    /\ IF ReplayGap(cursor[o])
         THEN /\ pc' = [pc EXCEPT ![o] = "resync"]
              /\ UNCHANGED queue
         ELSE /\ pc' = [pc EXCEPT ![o] = "loop"]
              /\ queue' = [queue EXCEPT ![o] = ReplayAfter(cursor[o])]
    /\ UNCHANGED <<logVars, lifecycleVars, live, cursor, seen, polled>>

\* The phase is read after the empty poll, in another step.
CheckClosed(o) ==
    /\ pc[o] = "check"
    /\ pc' = [pc EXCEPT ![o] = IF phase = "closed" THEN "closed" ELSE "select"]
    /\ UNCHANGED <<logVars, lifecycleVars, live, queue, cursor, seen, polled>>

\* Mutant of SelectLive: the await is only for events after shutdown.
SelectLiveWhenClosed(o) ==
    /\ pc[o] = "select" /\ phase = "closed"
    /\ ReadLive(o) \/ FallBehind(o)
    /\ UNCHANGED <<logVars, lifecycleVars>>

\* The select polls the live channel, then the snapshot's watch channel.
SelectLive(o) ==
    /\ pc[o] = "select"
    /\ ReadLive(o) \/ FallBehind(o)
    /\ UNCHANGED <<logVars, lifecycleVars>>

\* Mutant of SelectChanged: a dropped sender hides the last snapshot.
SelectStopped(o) ==
    /\ pc[o] = "select"
    /\ seen[o] # version \/ actor = "ended"
    /\ pc' = [pc EXCEPT ![o] = IF actor = "ended" THEN "stopped" ELSE "loop"]
    /\ seen' = [seen EXCEPT ![o] = version]
    /\ UNCHANGED <<logVars, lifecycleVars, live, queue, cursor, polled>>

SelectChanged(o) ==
    /\ pc[o] = "select"
    /\ seen[o] # version \/ actor = "ended"
    /\ pc' = [pc EXCEPT ![o] = IF seen[o] # version THEN "loop" ELSE "stopped"]
    /\ seen' = [seen EXCEPT ![o] = version]
    /\ UNCHANGED <<logVars, lifecycleVars, live, queue, cursor, polled>>

Recv(o) ==
    PopReplay(o) \/ TryRecv(o) \/ Recover(o) \/ CheckClosed(o) \/ SelectLive(o)
        \/ SelectChanged(o)

-----------------------------------------------------------------------------
Open(o) == Subscribe(o) \/ ChooseCursor(o) \/ OpenStream(o)

Next ==
    \/ Publish
    \/ PublishSnapshot("open")
    \/ PublishSnapshot("closed")
    \/ ActorEnds
    \/ \E o \in Observers : Open(o) \/ Drop(o) \/ Recv(o)

Spec == Init /\ [][Next]_vars

\* An observer's task keeps calling recv until it returns an error.  Nothing
\* makes a producer publish or an observer subscribe.
FairSpec == Spec /\ \A o \in Observers : WF_vars(Recv(o))

-----------------------------------------------------------------------------
(* Properties *)

\* A stream never skips and never repeats an event: whatever mixture of
\* replay queue, live channel and lag recovery recv reads from, each event it
\* returns is the successor of the previous one (of the subscription's cursor
\* for the first).  Loss shows only as the ResyncRequired boundary.
InOrder ==
    [][\A o \in Observers :
          pc[o] \in Attached /\ cursor'[o] # cursor[o]
              => cursor'[o] = cursor[o] + 1]_vars

\* Why a stream is gapless.  The window holds the newest Capacity events; an
\* attached stream's queue continues its cursor; and whatever lies between the
\* cursor and the live receiver is in that queue, unless the receiver just
\* lagged, when the queue is about to be reloaded.
WindowInv == replay = {n \in 1..sequence : n > sequence - Capacity}

QueueInv(o) ==
    /\ cursor[o] <= sequence
    /\ \A e \in queue[o] : cursor[o] < e /\ e <= sequence
    /\ \A e \in queue[o] : \A d \in (cursor[o] + 1)..e : d \in queue[o]
    /\ pc[o] = "lagged" \/ \A n \in (cursor[o] + 1)..(live[o] - 1) : n \in queue[o]
    /\ pc[o] # "loop" => queue[o] = {}

ObserverInv(o) ==
    /\ live[o] <= sequence + 1
    /\ seen[o] <= version
    /\ pc[o] \in Attached => QueueInv(o)
    /\ pc[o] \in {"check", "closed"} => cursor[o] = polled[o]
    /\ pc[o] = "select" /\ phase = "closed" => seen[o] # version
    /\ pc[o] = "stopped" => actor = "ended" /\ phase # "closed"

StreamInv == WindowInv /\ \A o \in Observers : ObserverInv(o)

\* What recv's Closed does promise: every event published before the last poll
\* that found the live channel empty has been returned.
ClosedAfterEmptyPoll ==
    \A o \in Observers :
        pc[o] \in {"check", "closed"} => cursor[o] = polled[o]

\* What the documentation promises of Closed: every event published before the
\* session closed has been returned.  recv reads the phase after the poll that
\* found the channel empty, and the last events can be published in between.
ClosedAfterDrain ==
    \A o \in Observers : pc[o] = "closed" => cursor[o] >= closedAt

\* An orderly shutdown is never mistaken for a crashed actor: the watch
\* channel's sender is dropped right after the Closed snapshot, and a stream
\* that was waiting still sees the snapshot first.
ShutdownIsTyped ==
    \A o \in Observers : pc[o] = "stopped" => phase # "closed"

\* A stream that is read gets every event, or reports a boundary: no published
\* event is left behind with recv waiting.
EventuallyDelivered ==
    \A o \in Observers, n \in 1..MaxSequence :
        (pc[o] \in Attached /\ n <= sequence)
            ~> (cursor[o] >= n \/ pc[o] \notin Attached)

\* The Closed snapshot wakes every waiting stream.
EventuallyClosed ==
    \A o \in Observers :
        (phase = "closed" /\ pc[o] \in Attached) ~> pc[o] \notin Attached

\* A stream that is read makes progress to the end: recv never sleeps through
\* an event it has not returned, nor through the Closed snapshot.
StreamsProgress == EventuallyDelivered /\ EventuallyClosed
=============================================================================
