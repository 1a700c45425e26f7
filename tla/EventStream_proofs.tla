------------------------- MODULE EventStream_proofs -------------------------
(***************************************************************************)
(* Proofs about EventStream, for every set of observers, every window and   *)
(* ring capacity and every bound.  StreamInv, with the types, is inductive; *)
(* the properties follow from it.                                           *)
(***************************************************************************)
EXTENDS EventStream, FiniteSetTheorems, TLAPS

IInv == TypeOK /\ StreamInv

(* A least element is the one the CHOOSE in Min picks. *)
LEMMA MinIs ==
    ASSUME NEW S \in SUBSET Int, NEW m \in S, \A n \in S : m <= n
    PROVE  Min(S) = m
<1>1. \E x \in S : \A y \in S : x <= y
  OBVIOUS
<1>2. Min(S) \in S /\ \A y \in S : Min(S) <= y
  BY <1>1, Zenon DEF Min
<1>3. \A x \in S : (\A y \in S : x <= y) => x = m
  OBVIOUS
<1> QED
  BY <1>2, <1>3, Zenon

(* Pushing one event on a window of the newest Capacity ones, and trimming,   *)
(* leaves the newest Capacity events: EventLog::publish keeps its window.     *)
LEMMA TrimWindow ==
    ASSUME NEW s \in Nat
    PROVE  LET window(k) == {n \in 1..k : n > k - Capacity}
           IN  Trim(window(s) \cup {s + 1}) = window(s + 1)
<1> DEFINE window(k) == {n \in 1..k : n > k - Capacity}
           lo == IF s < Capacity THEN 1 ELSE s - Capacity + 1
           grown == window(s) \cup {s + 1}
<1>0. Capacity \in Nat /\ Capacity >= 1
  BY CapacityAssumption
<1>1. grown = lo..(s + 1)
  BY <1>0
<1>2. lo \in Int /\ lo <= s + 1
  BY <1>0
<1>3. Cardinality(grown) = s + 2 - lo
  <2> HIDE DEF lo, grown
  <2>1. lo \in Int /\ s + 1 \in Int
    BY <1>2
  <2>2. Cardinality(lo..(s + 1)) = IF lo > s + 1 THEN 0 ELSE (s + 1) - lo + 1
    BY <2>1, FS_Interval, Zenon
  <2>3. Cardinality(lo..(s + 1)) = s + 2 - lo
    BY <1>2, <2>2
  <2> QED
    BY <1>1, <2>3
<1>4. Min(grown) = lo
  <2>1. grown \in SUBSET Int /\ lo \in grown /\ \A n \in grown : lo <= n
    BY <1>1, <1>2
  <2> QED
    BY <2>1, MinIs
<1>5. CASE s < Capacity
  BY <1>0, <1>1, <1>3, <1>5 DEF Trim
<1>6. CASE s >= Capacity
  <2>1. Cardinality(grown) > Capacity
    BY <1>0, <1>3, <1>6
  <2>2. Trim(grown) = grown \ {lo}
    BY <1>4, <2>1 DEF Trim
  <2>3. grown \ {lo} = window(s + 1)
    BY <1>0, <1>1, <1>6
  <2> QED
    BY <2>2, <2>3
<1> QED
  BY <1>0, <1>5, <1>6

(* When replay_after(n) does not report a gap, n is a number of this log and  *)
(* what it returns is exactly the events after n.                             *)
LEMMA ReplayIsSuffix ==
    ASSUME TypeOK, WindowInv, NEW n \in 0..MaxSequence, ~ReplayGap(n)
    PROVE  n <= sequence /\ ReplayAfter(n) = (n + 1)..sequence
<1> DEFINE lo == IF sequence < Capacity THEN 1 ELSE sequence - Capacity + 1
<1>0. /\ Capacity \in Nat /\ Capacity >= 1
      /\ sequence \in Nat /\ n \in Nat
  BY CapacityAssumption, BoundAssumption DEF TypeOK
<1>1. replay = lo..sequence
  BY <1>0 DEF WindowInv
<1>2. CASE n = sequence
  BY <1>0, <1>1, <1>2 DEF ReplayAfter
<1>3. CASE n # sequence
  <2>1. n < sequence /\ n + 1 >= OldestAvailable
    <3>1. OldestAvailable \in Int
      <4>1. CASE replay = {}
        BY <1>0, <4>1 DEF OldestAvailable
      <4>2. CASE replay # {}
        <5>1. lo \in replay /\ replay \in SUBSET Int /\ \A k \in replay : lo <= k
          BY <1>0, <1>1, <4>2
        <5> QED
          BY <1>0, <4>2, <5>1, MinIs DEF OldestAvailable
      <4> QED
        BY <4>1, <4>2
    <3> QED
      BY <1>0, <1>3, <3>1 DEF ReplayGap
  <2>2. lo \in replay /\ replay \in SUBSET Int /\ \A k \in replay : lo <= k
    BY <1>0, <1>1, <2>1
  <2>3. OldestAvailable = lo
    BY <2>2, MinIs DEF OldestAvailable
  <2> QED
    BY <1>0, <1>1, <2>1, <2>3 DEF ReplayAfter
<1> QED
  BY <1>2, <1>3

(* The front of a stream's queue is the successor of its cursor.              *)
LEMMA QueueFront ==
    ASSUME TypeOK, NEW o \in Observers, QueueInv(o), queue[o] # {}
    PROVE  Min(queue[o]) = cursor[o] + 1 /\ cursor[o] + 1 \in queue[o]
<1>1. /\ queue[o] \in SUBSET Int /\ cursor[o] \in Int
      /\ \A e \in queue[o] : cursor[o] + 1 <= e
  BY BoundAssumption DEF TypeOK, QueueInv
<1>2. cursor[o] + 1 \in queue[o]
  BY <1>1 DEF QueueInv
<1> QED
  BY <1>1, <1>2, MinIs

(* Every step keeps the variables in their types.                             *)
LEMMA TypePreserved == IInv /\ [Next]_vars => TypeOK'
<1> SUFFICES ASSUME IInv, [Next]_vars PROVE TypeOK'
  OBVIOUS
<1> USE CapacityAssumption, BoundAssumption
<1>0. TypeOK
  BY DEF IInv
<1>1. CASE Publish
  <2>1. replay' \subseteq replay \cup {sequence + 1}
    BY <1>1 DEF Publish, Trim
  <2>2. sequence' \in 1..MaxSequence /\ sequence' = sequence + 1
    BY <1>0, <1>1 DEF Publish, TypeOK
  <2>3. replay' \subseteq 1..MaxSequence
    BY <1>0, <2>1, <2>2 DEF TypeOK
  <2>4. UNCHANGED <<lifecycleVars, streamVars>>
    BY <1>1 DEF Publish
  <2> QED
    BY <1>0, <2>2, <2>3, <2>4 DEF TypeOK, lifecycleVars, streamVars
<1>2. ASSUME NEW p \in {"open", "closed"}, PublishSnapshot(p) PROVE TypeOK'
  BY <1>0, <1>2 DEF TypeOK, PublishSnapshot, logVars, streamVars
<1>3. CASE ActorEnds
  BY <1>0, <1>3 DEF TypeOK, ActorEnds, logVars, streamVars
<1>4. ASSUME NEW o \in Observers, Open(o) \/ Drop(o) PROVE TypeOK'
  <2> USE DEF Locations, Attached, Boundaries
  <2>1. CASE Subscribe(o)
    BY <1>0, <2>1 DEF TypeOK, Subscribe, logVars, lifecycleVars
  <2>2. CASE ChooseCursor(o)
    BY <1>0, <2>2 DEF TypeOK, ChooseCursor, logVars, lifecycleVars
  <2>3. CASE OpenStream(o)
    <3>1. ReplayAfter(cursor[o]) \in SUBSET (1..MaxSequence)
      BY <1>0 DEF ReplayAfter, TypeOK
    <3>2. queue' \in [Observers -> SUBSET (1..MaxSequence)]
      BY <1>0, <2>3, <3>1 DEF OpenStream, TypeOK
    <3>3. /\ pc' \in [Observers -> Locations]
          /\ seen' \in [Observers -> 0..MaxVersion]
          /\ UNCHANGED <<logVars, lifecycleVars, live, cursor, polled>>
      BY <1>0, <2>3 DEF OpenStream, TypeOK
    <3> QED
      BY <1>0, <3>2, <3>3 DEF TypeOK, logVars, lifecycleVars
  <2>4. CASE Drop(o)
    BY <1>0, <2>4 DEF TypeOK, Drop, logVars, lifecycleVars
  <2> QED
    BY <1>4, <2>1, <2>2, <2>3, <2>4 DEF Open
<1>5. ASSUME NEW o \in Observers, Recv(o) PROVE TypeOK'
  <2> USE DEF logVars, lifecycleVars, Locations, Attached, Boundaries
  <2>1. ASSUME ReadLive(o), UNCHANGED <<logVars, lifecycleVars>> PROVE TypeOK'
    BY <1>0, <2>1 DEF TypeOK, ReadLive, LiveEmpty, LiveLagged
  <2>2. ASSUME FallBehind(o), UNCHANGED <<logVars, lifecycleVars>> PROVE TypeOK'
    BY <1>0, <2>2 DEF TypeOK, FallBehind, LiveLagged
  <2>3. CASE PopReplay(o)
    <3> DEFINE event == Min(queue[o])
    <3>1. event \in 1..MaxSequence
      BY <1>0, <2>3, QueueFront DEF PopReplay, TypeOK, IInv, StreamInv, ObserverInv
    <3> HIDE DEF event
    <3>2. /\ queue' = [queue EXCEPT ![o] = @ \ {event}]
          /\ cursor' = [cursor EXCEPT ![o] = IF event > @ THEN event ELSE @]
          /\ UNCHANGED <<logVars, lifecycleVars, pc, live, seen, polled>>
      BY <2>3 DEF PopReplay, event
    <3> QED
      BY <1>0, <3>1, <3>2 DEF TypeOK
  <2>4. CASE TryRecv(o)
    <3>1. CASE LiveEmpty(o) /\ pc' = [pc EXCEPT ![o] = "check"]
               /\ polled' = [polled EXCEPT ![o] = sequence]
               /\ UNCHANGED <<live, queue, cursor, seen>>
      BY <1>0, <2>4, <3>1 DEF TypeOK, TryRecv
    <3> QED
      BY <2>1, <2>2, <2>4, <3>1 DEF TryRecv
  <2>5. CASE Recover(o)
    <3>1. ReplayAfter(cursor[o]) \in SUBSET (1..MaxSequence)
      BY <1>0 DEF ReplayAfter, TypeOK
    <3>2. queue' \in [Observers -> SUBSET (1..MaxSequence)]
      BY <1>0, <2>5, <3>1 DEF Recover, TypeOK
    <3> QED
      BY <1>0, <2>5, <3>2 DEF TypeOK, Recover
  <2>6. CASE CheckClosed(o)
    BY <1>0, <2>6 DEF TypeOK, CheckClosed
  <2>7. CASE SelectLive(o)
    BY <2>1, <2>2, <2>7 DEF SelectLive
  <2>8. CASE SelectChanged(o)
    BY <1>0, <2>8 DEF TypeOK, SelectChanged
  <2> QED
    BY <1>5, <2>3, <2>4, <2>5, <2>6, <2>7, <2>8 DEF Recv
<1>6. CASE UNCHANGED vars
  BY <1>0, <1>6 DEF TypeOK, vars, logVars, lifecycleVars, streamVars
<1> QED
  BY <1>1, <1>2, <1>3, <1>4, <1>5, <1>6 DEF Next

(* A step that leaves the log and the lifecycle alone and touches one         *)
(* observer's stream only has to re-establish that observer's invariant.      *)
LEMMA OneObserver ==
    ASSUME IInv, NEW o \in Observers, UNCHANGED <<logVars, lifecycleVars>>,
           \A q \in Observers \ {o} :
              /\ pc'[q] = pc[q] /\ live'[q] = live[q] /\ queue'[q] = queue[q]
              /\ cursor'[q] = cursor[q] /\ seen'[q] = seen[q]
              /\ polled'[q] = polled[q],
           ObserverInv(o)'
    PROVE  StreamInv'
<1>1. WindowInv'
  BY DEF IInv, StreamInv, WindowInv, logVars
<1>2. ASSUME NEW q \in Observers \ {o} PROVE ObserverInv(q)'
  <2>1. ObserverInv(q)
    BY DEF IInv, StreamInv
  <2> QED
    BY <1>2, <2>1 DEF ObserverInv, QueueInv, logVars, lifecycleVars
<1> QED
  BY <1>1, <1>2 DEF StreamInv

(* Reading from the live channel keeps the invariant: with the queue empty,   *)
(* the receiver is at most one past the cursor, so an event it returns is the *)
(* cursor's successor or an old one.                                          *)
LEMMA ReadLiveInv ==
    ASSUME IInv, NEW o \in Observers, pc[o] \in {"loop", "select"}, queue[o] = {},
           ReadLive(o), UNCHANGED <<logVars, lifecycleVars>>
    PROVE  StreamInv' /\ cursor'[o] \in {cursor[o], cursor[o] + 1}
<1> USE CapacityAssumption, BoundAssumption
<1>0. TypeOK /\ ObserverInv(o) /\ QueueInv(o)
  BY DEF IInv, StreamInv, ObserverInv, Attached
<1>1. /\ sequence \in Nat /\ live[o] \in Nat /\ cursor[o] \in Nat
      /\ live[o] <= sequence /\ cursor[o] <= sequence
  BY <1>0 DEF TypeOK, ReadLive, LiveEmpty, QueueInv
<1>2. live[o] <= cursor[o] + 1
  <2>1. \A n \in (cursor[o] + 1)..(live[o] - 1) : FALSE
    BY <1>0 DEF QueueInv
  <2>2. cursor[o] + 1 \in Int /\ live[o] - 1 \in Int
    BY <1>1
  <2>3. ~(cursor[o] + 1 <= live[o] - 1)
    BY <2>1, <2>2
  <2> QED
    BY <1>1, <2>3
<1>3. /\ pc'[o] = "loop" /\ live'[o] = live[o] + 1 /\ queue'[o] = {}
      /\ cursor'[o] = IF live[o] > cursor[o] THEN live[o] ELSE cursor[o]
      /\ seen'[o] = seen[o] /\ sequence' = sequence /\ version' = version
  BY <1>0 DEF ReadLive, TypeOK, logVars, lifecycleVars
<1>4. ObserverInv(o)'
  BY <1>0, <1>1, <1>2, <1>3 DEF ObserverInv, QueueInv, Attached
<1>5. \A q \in Observers \ {o} :
              /\ pc'[q] = pc[q] /\ live'[q] = live[q] /\ queue'[q] = queue[q]
              /\ cursor'[q] = cursor[q] /\ seen'[q] = seen[q]
              /\ polled'[q] = polled[q]
  BY <1>0 DEF ReadLive, TypeOK
<1> QED
  BY <1>1, <1>2, <1>3, <1>4, <1>5, OneObserver

(* A lagging receiver keeps the invariant: its queue is empty and is reloaded *)
(* before anything is read again.                                             *)
LEMMA FallBehindInv ==
    ASSUME IInv, NEW o \in Observers, pc[o] \in {"loop", "select"}, queue[o] = {},
           FallBehind(o), UNCHANGED <<logVars, lifecycleVars>>
    PROVE  StreamInv'
<1> USE CapacityAssumption, BoundAssumption
<1>0. TypeOK /\ ObserverInv(o) /\ QueueInv(o)
  BY DEF IInv, StreamInv, ObserverInv, Attached
<1>1. /\ pc'[o] = "lagged" /\ queue'[o] = {} /\ cursor'[o] = cursor[o]
      /\ live'[o] = sequence - LiveCapacity + 1
      /\ seen'[o] = seen[o] /\ sequence' = sequence /\ version' = version
  BY <1>0 DEF FallBehind, TypeOK, logVars, lifecycleVars
<1>2. ObserverInv(o)'
  BY <1>0, <1>1 DEF ObserverInv, QueueInv, Attached, TypeOK
<1>3. \A q \in Observers \ {o} :
              /\ pc'[q] = pc[q] /\ live'[q] = live[q] /\ queue'[q] = queue[q]
              /\ cursor'[q] = cursor[q] /\ seen'[q] = seen[q]
              /\ polled'[q] = polled[q]
  BY <1>0 DEF FallBehind, TypeOK
<1> QED
  BY <1>2, <1>3, OneObserver

(* Loading the queue from the replay window, when there is no gap, gives a    *)
(* queue that continues the cursor and reaches the latest event.              *)
LEMMA ReloadInv ==
    ASSUME IInv, NEW o \in Observers, ~ReplayGap(cursor[o]),
           UNCHANGED <<logVars, lifecycleVars, live, cursor, polled>>,
           pc' = [pc EXCEPT ![o] = "loop"],
           queue' = [queue EXCEPT ![o] = ReplayAfter(cursor[o])],
           seen' \in {seen, [seen EXCEPT ![o] = 0]}
    PROVE  StreamInv'
<1> USE CapacityAssumption, BoundAssumption
<1>0. TypeOK /\ ObserverInv(o) /\ WindowInv
  BY DEF IInv, StreamInv
<1>1. cursor[o] <= sequence /\ ReplayAfter(cursor[o]) = (cursor[o] + 1)..sequence
  BY <1>0, ReplayIsSuffix DEF TypeOK
<1>2. /\ pc'[o] = "loop" /\ queue'[o] = (cursor[o] + 1)..sequence
      /\ cursor'[o] = cursor[o] /\ live'[o] = live[o]
      /\ seen'[o] \in {seen[o], 0} /\ sequence' = sequence /\ version' = version
  BY <1>0, <1>1 DEF TypeOK, logVars, lifecycleVars
<1>3. ObserverInv(o)'
  BY <1>0, <1>1, <1>2, SMTT(30) DEF ObserverInv, QueueInv, Attached, TypeOK
<1>4. \A q \in Observers \ {o} :
              /\ pc'[q] = pc[q] /\ live'[q] = live[q] /\ queue'[q] = queue[q]
              /\ cursor'[q] = cursor[q] /\ seen'[q] = seen[q]
              /\ polled'[q] = polled[q]
  BY <1>0 DEF TypeOK
<1> QED
  BY <1>3, <1>4, OneObserver

(* Every step of the log, the lifecycle and the streams keeps StreamInv.      *)
LEMMA StreamPreserved == IInv /\ [Next]_vars => StreamInv'
<1> SUFFICES ASSUME IInv, [Next]_vars PROVE StreamInv'
  OBVIOUS
<1> USE CapacityAssumption, BoundAssumption
<1>0. TypeOK /\ WindowInv /\ \A o \in Observers : ObserverInv(o)
  BY DEF IInv, StreamInv
<1>1. CASE Publish
  <2>1. sequence \in Nat /\ sequence' = sequence + 1
    BY <1>0, <1>1 DEF Publish, TypeOK
  <2>2. WindowInv'
    BY <1>0, <1>1, <2>1, TrimWindow DEF Publish, WindowInv
  <2>3. UNCHANGED <<lifecycleVars, streamVars>>
    BY <1>1 DEF Publish
  <2>4. ASSUME NEW o \in Observers PROVE ObserverInv(o)'
    BY <1>0, <2>1, <2>3 DEF ObserverInv, QueueInv, TypeOK, lifecycleVars, streamVars
  <2> QED
    BY <2>2, <2>4 DEF StreamInv
<1>2. ASSUME NEW p \in {"open", "closed"}, PublishSnapshot(p) PROVE StreamInv'
  <2>1. WindowInv'
    BY <1>0, <1>2 DEF PublishSnapshot, WindowInv, logVars
  <2>2. ASSUME NEW o \in Observers PROVE ObserverInv(o)'
    BY <1>0, <1>2 DEF ObserverInv, QueueInv, TypeOK, PublishSnapshot, logVars,
                      streamVars
  <2> QED
    BY <2>1, <2>2 DEF StreamInv
<1>3. CASE ActorEnds
  BY <1>0, <1>3 DEF StreamInv, WindowInv, ObserverInv, QueueInv, ActorEnds, logVars,
                    streamVars
<1>4. ASSUME NEW o \in Observers, Open(o) \/ Drop(o) PROVE StreamInv'
  <2>0. ObserverInv(o)
    BY <1>0
  <2>1. CASE Subscribe(o)
    <3>1. ObserverInv(o)'
      BY <1>0, <2>0, <2>1 DEF ObserverInv, Subscribe, TypeOK, logVars, lifecycleVars,
                        Attached
    <3> QED
      BY <1>0, <2>1, <3>1, OneObserver DEF Subscribe, TypeOK
  <2>2. CASE ChooseCursor(o)
    <3>1. ObserverInv(o)'
      BY <1>0, <2>0, <2>2 DEF ObserverInv, ChooseCursor, TypeOK, logVars,
                        lifecycleVars, Attached
    <3> QED
      BY <1>0, <2>2, <3>1, OneObserver DEF ChooseCursor, TypeOK
  <2>3. CASE OpenStream(o)
    <3>1. CASE ReplayGap(cursor[o])
      <4>1. ObserverInv(o)'
        BY <1>0, <2>0, <2>3, <3>1 DEF ObserverInv, OpenStream, TypeOK, logVars,
                          lifecycleVars, Attached
      <4> QED
        BY <1>0, <2>3, <3>1, <4>1, OneObserver DEF OpenStream, TypeOK
    <3>2. CASE ~ReplayGap(cursor[o])
      BY <2>3, <3>2, ReloadInv DEF OpenStream
    <3> QED
      BY <3>1, <3>2
  <2>4. CASE Drop(o)
    <3>1. ObserverInv(o)'
      BY <1>0, <2>0, <2>4 DEF ObserverInv, Drop, TypeOK, logVars, lifecycleVars, Attached
    <3> QED
      BY <1>0, <2>4, <3>1, OneObserver DEF Drop, TypeOK
  <2> QED
    BY <1>4, <2>1, <2>2, <2>3, <2>4 DEF Open
<1>5. ASSUME NEW o \in Observers, Recv(o) PROVE StreamInv'
  <2>0. ObserverInv(o)
    BY <1>0
  <2>3. CASE PopReplay(o)
    <3>1. QueueInv(o) /\ queue[o] # {}
      BY <2>0, <2>3 DEF ObserverInv, PopReplay, Attached
    <3>2. Min(queue[o]) = cursor[o] + 1 /\ cursor[o] + 1 \in queue[o]
      BY <1>0, <3>1, QueueFront
    <3>3. cursor[o] \in Nat
      BY <1>0 DEF TypeOK
    <3>4. /\ queue'[o] = queue[o] \ {cursor[o] + 1}
          /\ cursor'[o] = cursor[o] + 1
          /\ pc'[o] = "loop" /\ live'[o] = live[o] /\ seen'[o] = seen[o]
          /\ UNCHANGED <<logVars, lifecycleVars>>
      BY <1>0, <2>3, <3>2, <3>3 DEF PopReplay, TypeOK
    <3>5. ObserverInv(o)'
      <4>1. /\ sequence \in Nat /\ live[o] \in Nat
            /\ \A e \in queue[o] : e \in Nat
        BY <1>0 DEF TypeOK
      <4>2. /\ cursor[o] + 1 <= sequence
            /\ \A e \in queue'[o] : cursor[o] + 1 < e /\ e <= sequence
        BY <3>1, <3>2, <3>3, <3>4, <4>1 DEF QueueInv
      <4>3. \A e \in queue'[o] : \A d \in (cursor[o] + 1 + 1)..e : d \in queue'[o]
        <5> SUFFICES ASSUME NEW e \in queue'[o], NEW d \in (cursor[o] + 1 + 1)..e
                     PROVE  d \in queue'[o]
          OBVIOUS
        <5>1. e \in queue[o]
          BY <3>4
        <5>2. d \in (cursor[o] + 1)..e /\ d # cursor[o] + 1
          BY <3>3, <4>1, <5>1
        <5> QED
          BY <3>1, <3>4, <5>1, <5>2 DEF QueueInv
      <4>4. \A n \in (cursor[o] + 1 + 1)..(live[o] - 1) : n \in queue'[o]
        <5> SUFFICES ASSUME NEW n \in (cursor[o] + 1 + 1)..(live[o] - 1)
                     PROVE  n \in queue'[o]
          OBVIOUS
        <5>1. n \in (cursor[o] + 1)..(live[o] - 1) /\ n # cursor[o] + 1
          BY <3>3, <4>1
        <5>2. pc[o] # "lagged"
          BY <2>3 DEF PopReplay
        <5> QED
          BY <3>1, <3>4, <5>1, <5>2 DEF QueueInv
      <4>5. QueueInv(o)'
        BY <3>4, <4>2, <4>3, <4>4 DEF QueueInv, logVars
      <4> QED
        BY <2>0, <3>4, <4>5 DEF ObserverInv, logVars, lifecycleVars, Attached
    <3>6. \A q \in Observers \ {o} :
              /\ pc'[q] = pc[q] /\ live'[q] = live[q] /\ queue'[q] = queue[q]
              /\ cursor'[q] = cursor[q] /\ seen'[q] = seen[q]
              /\ polled'[q] = polled[q]
      BY <1>0, <2>3 DEF PopReplay, TypeOK
    <3> QED
      BY <3>4, <3>5, <3>6, OneObserver
  <2>4. CASE TryRecv(o)
    <3>0. pc[o] = "loop" /\ queue[o] = {} /\ UNCHANGED <<logVars, lifecycleVars>>
      BY <2>4 DEF TryRecv
    <3>1. CASE LiveEmpty(o) /\ pc' = [pc EXCEPT ![o] = "check"]
               /\ polled' = [polled EXCEPT ![o] = sequence]
               /\ UNCHANGED <<live, queue, cursor, seen>>
      <4>1. /\ QueueInv(o) /\ live[o] = sequence + 1
            /\ sequence \in Nat /\ cursor[o] \in Nat
        BY <1>0, <2>0, <3>0, <3>1 DEF ObserverInv, TypeOK, LiveEmpty, Attached
      <4>2. \A n \in (cursor[o] + 1)..(live[o] - 1) : FALSE
        BY <3>0, <4>1 DEF QueueInv
      <4>3. cursor[o] = sequence
        <5>1. cursor[o] + 1 \in Int /\ live[o] - 1 \in Int
          BY <4>1
        <5>2. ~(cursor[o] + 1 <= live[o] - 1)
          BY <4>2, <5>1
        <5>3. cursor[o] <= sequence
          BY <4>1 DEF QueueInv
        <5> QED
          BY <4>1, <5>2, <5>3
      <4>4. /\ pc'[o] = "check" /\ polled'[o] = sequence /\ live'[o] = live[o]
            /\ queue'[o] = queue[o] /\ cursor'[o] = cursor[o] /\ seen'[o] = seen[o]
        BY <1>0, <3>1 DEF TypeOK
      <4>5. ObserverInv(o)'
        BY <2>0, <3>0, <4>1, <4>3, <4>4
           DEF ObserverInv, QueueInv, logVars, lifecycleVars, Attached
      <4> QED
        BY <1>0, <3>0, <3>1, <4>5, OneObserver DEF TypeOK
    <3> QED
      BY <2>4, <3>0, <3>1, ReadLiveInv, FallBehindInv DEF TryRecv
  <2>5. CASE Recover(o)
    <3>1. CASE ReplayGap(cursor[o])
      <4>1. ObserverInv(o)'
        BY <1>0, <2>0, <2>5, <3>1 DEF ObserverInv, Recover, TypeOK, logVars,
                          lifecycleVars, Attached
      <4> QED
        BY <1>0, <2>5, <3>1, <4>1, OneObserver DEF Recover, TypeOK
    <3>2. CASE ~ReplayGap(cursor[o])
      BY <2>5, <3>2, ReloadInv DEF Recover
    <3> QED
      BY <3>1, <3>2
  <2>6. CASE CheckClosed(o)
    <3>1. ObserverInv(o)'
      BY <1>0, <2>0, <2>6 DEF ObserverInv, QueueInv, CheckClosed, TypeOK, logVars,
                        lifecycleVars, Attached
    <3> QED
      BY <1>0, <2>6, <3>1, OneObserver DEF CheckClosed, TypeOK
  <2>7. CASE SelectLive(o)
    <3>1. pc[o] = "select" /\ queue[o] = {} /\ UNCHANGED <<logVars, lifecycleVars>>
      BY <2>0, <2>7 DEF SelectLive, ObserverInv, QueueInv, Attached
    <3> QED
      BY <2>7, <3>1, ReadLiveInv, FallBehindInv DEF SelectLive
  <2>8. CASE SelectChanged(o)
    <3>1. ObserverInv(o)'
      BY <1>0, <2>0, <2>8 DEF ObserverInv, QueueInv, SelectChanged, TypeOK, logVars,
                        lifecycleVars, Attached
    <3> QED
      BY <1>0, <2>8, <3>1, OneObserver DEF SelectChanged, TypeOK
  <2> QED
    BY <1>5, <2>3, <2>4, <2>5, <2>6, <2>7, <2>8 DEF Recv
<1>6. CASE UNCHANGED vars
  BY <1>0, <1>6 DEF StreamInv, WindowInv, ObserverInv, QueueInv, vars, logVars,
                    lifecycleVars, streamVars
<1> QED
  BY <1>1, <1>2, <1>3, <1>4, <1>5, <1>6 DEF Next

(* The initial state satisfies the invariant.                                 *)
LEMMA InitInv == Init => IInv
<1> SUFFICES ASSUME Init PROVE IInv
  OBVIOUS
<1> USE CapacityAssumption, BoundAssumption
<1>1. TypeOK
  BY DEF Init, TypeOK, Locations
<1>2. WindowInv
  BY DEF Init, WindowInv
<1>3. ASSUME NEW o \in Observers PROVE ObserverInv(o)
  BY DEF Init, ObserverInv, Attached
<1> QED
  BY <1>1, <1>2, <1>3 DEF IInv, StreamInv

(* Every reachable state of the log and its streams is well typed, and every  *)
(* stream's queue and live position continue its cursor without a gap.        *)
THEOREM StreamInvariant == Spec => [](TypeOK /\ StreamInv)
<1>1. IInv /\ [Next]_vars => IInv'
  BY TypePreserved, StreamPreserved DEF IInv
<1> QED
  BY <1>1, InitInv, PTL DEF Spec, IInv

(* Closed is only ever returned by recv when every event published before its *)
(* last empty poll was returned.                                              *)
THEOREM ClosedTheorem == Spec => []ClosedAfterEmptyPoll
<1>1. TypeOK /\ StreamInv => ClosedAfterEmptyPoll
  BY DEF StreamInv, ObserverInv, ClosedAfterEmptyPoll
<1> QED
  BY <1>1, StreamInvariant, PTL

(* recv never answers an orderly shutdown with ActorStopped.                  *)
THEOREM ShutdownTypedTheorem == Spec => []ShutdownIsTyped
<1>1. TypeOK /\ StreamInv => ShutdownIsTyped
  BY DEF StreamInv, ObserverInv, ShutdownIsTyped
<1> QED
  BY <1>1, StreamInvariant, PTL

(* recv returns every event after the subscription's cursor, once and in      *)
(* order, until it reports a boundary.                                        *)
THEOREM InOrderTheorem == Spec => InOrder
<1> DEFINE Step == \A o \in Observers :
                      pc[o] \in Attached /\ cursor'[o] # cursor[o]
                          => cursor'[o] = cursor[o] + 1
<1>1. IInv /\ [Next]_vars => [Step]_vars
  <2> SUFFICES ASSUME IInv, Next, NEW o \in Observers, pc[o] \in Attached,
                      cursor'[o] # cursor[o]
               PROVE  cursor'[o] = cursor[o] + 1
    BY DEF Step
  <2>0. TypeOK /\ \A q \in Observers : ObserverInv(q)
    BY DEF IInv, StreamInv
  <2>1. PICK q \in Observers : Open(q) \/ Drop(q) \/ Recv(q)
    BY DEF Next, Publish, PublishSnapshot, ActorEnds, streamVars
  <2>2. q = o
    BY <2>0, <2>1 DEF TypeOK, Open, Drop, Recv, Subscribe, ChooseCursor, OpenStream,
         PopReplay, TryRecv, Recover, CheckClosed, SelectLive, SelectChanged,
         ReadLive, FallBehind
  <2>3. ~Open(o) /\ ~Drop(o)
    BY DEF Open, Drop, Subscribe, ChooseCursor, OpenStream, Attached
  <2>4. CASE PopReplay(o)
    <3>1. QueueInv(o) /\ queue[o] # {}
      BY <2>0, <2>4 DEF ObserverInv, PopReplay
    <3>2. Min(queue[o]) = cursor[o] + 1
      BY <2>0, <3>1, QueueFront
    <3> QED
      BY <2>0, <2>4, <3>2, BoundAssumption DEF PopReplay, TypeOK
  <2>5. CASE TryRecv(o)
    <3>1. ReadLive(o) /\ UNCHANGED <<logVars, lifecycleVars>>
      BY <2>0, <2>5 DEF TryRecv, FallBehind, TypeOK
    <3> QED
      BY <2>5, <3>1, ReadLiveInv DEF TryRecv
  <2>6. CASE SelectLive(o)
    <3>1. ReadLive(o) /\ UNCHANGED <<logVars, lifecycleVars>>
      BY <2>0, <2>6 DEF SelectLive, FallBehind, TypeOK
    <3>2. queue[o] = {}
      BY <2>0, <2>6 DEF SelectLive, ObserverInv, QueueInv
    <3> QED
      BY <2>6, <3>1, <3>2, ReadLiveInv DEF SelectLive
  <2>7. ~Recover(o) /\ ~CheckClosed(o) /\ ~SelectChanged(o)
    BY DEF Recover, CheckClosed, SelectChanged
  <2> QED
    BY <2>1, <2>2, <2>3, <2>4, <2>5, <2>6, <2>7 DEF Recv
<1>2. Spec => []IInv
  BY StreamInvariant, PTL DEF IInv
<1> QED
  BY <1>1, <1>2, PTL DEF Spec, InOrder
=============================================================================
