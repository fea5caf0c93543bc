------------------------- MODULE HostPlaybackProofs --------------------------
(***************************************************************************)
(* Proofs about HostPlayback for every number of devices, entries, sources *)
(* and streams and every bound: types, then the reservations and the       *)
(* published boundary, the mirrored source, the retired streams, and last  *)
(* what a step may do to the audible track and to the position.            *)
(***************************************************************************)
EXTENDS HostPlayback, HostSessionProofs

-----------------------------------------------------------------------------
(* Sequences *)

\* The tail of a sequence shifts every later element down by one.
LEMMA TailElements ==
    ASSUME NEW S, NEW q \in Seq(S), q # <<>>
    PROVE  /\ Tail(q) \in Seq(S)
           /\ Len(Tail(q)) = Len(q) - 1
           /\ \A i \in DOMAIN Tail(q) : i + 1 \in DOMAIN q /\ Tail(q)[i] = q[i + 1]
OBVIOUS

\* The source of the current entry is a source.
LEMMA CurrentSourceType ==
    ASSUME NEW q \in Seq(EntryIds)
    PROVE  CurrentSource(q) \in Sources \cup {NoSource}
BY HostPlaybackAssumption DEF CurrentSource

-----------------------------------------------------------------------------
(* Types *)

\* The active stream is added to the retired ones.
LEMMA RetiredType ==
    ASSUME TypeOK
    PROVE  RetiredWithActive \in Seq(Streams)
<1>1. CASE stream = NoStream \/ \E i \in DOMAIN retired : retired[i] = stream
  BY <1>1 DEF TypeOK, RetiredWithActive
<1>2. CASE ~(stream = NoStream \/ \E i \in DOMAIN retired : retired[i] = stream)
  <2>1. stream \in Streams /\ retired \in Seq(Streams)
    BY <1>2 DEF TypeOK
  <2>2. (IF Len(retired) = MaxRetired THEN Tail(retired) ELSE retired) \in Seq(Streams)
    BY <2>1, TailElements, HostPlaybackAssumption
  <2>3. QED
    BY <1>2, <2>1, <2>2 DEF RetiredWithActive
<1>3. QED
  BY <1>1, <1>2

\* Reservations that are kept or cleared have their type.
LEMMA BoundaryType ==
    ASSUME TypeOK, UNCHANGED boundaryVars \/ ClearReservations
    PROVE  boundaries' \in Seq(Boundaries) /\ nextBoundary' \in Boundaries \cup {NoBoundary}
<1>1. boundaries \in Seq(Boundaries) /\ nextBoundary \in Boundaries \cup {NoBoundary}
  BY Zenon DEF TypeOK
<1>2. CASE UNCHANGED boundaryVars
  BY <1>1, <1>2, Zenon DEF boundaryVars
<1>3. CASE ClearReservations
  BY <1>3 DEF ClearReservations
<1>4. QED
  BY <1>2, <1>3

\* What a handler of the session does here is what it does in HostSession.
LEMMA SessionStepRefines ==
    ASSUME SessionStep
    PROVE  SessionNext
BY DEF SessionStep, SessionNext

\* The handlers of the session keep the session's variables in their types.
LEMMA SessionPartType ==
    ASSUME TypeOK, SessionStep
    PROVE  TypeOK'
<1>1. SessionTypeOK'
  BY SessionStepRefines, SessionStepType DEF TypeOK
<1>2. QED
  BY <1>1 DEF SessionStep, TypeOK, playbackVars

\* The handlers of queue edits keep the types.
LEMMA QueueStepType ==
    ASSUME TypeOK, QueueStep
    PROVE  TypeOK'
<1>1. ASSUME NEW q \in Seq(EntryIds), ReplaceQueue(q),
             UNCHANGED boundaryVars \/ ClearReservations
      PROVE  TypeOK'
  <2>1. CurrentSource(q) \in Sources \cup {NoSource}
    BY CurrentSourceType
  <2>2. SessionTypeOK'
    BY <1>1 DEF TypeOK, SessionTypeOK, ReplaceQueue, ClearFailure
  <2>3. boundaries' \in Seq(Boundaries) /\ nextBoundary' \in Boundaries \cup {NoBoundary}
    BY <1>1, BoundaryType
  <2>4. QED
    BY <1>1, <2>1, <2>2, <2>3 DEF TypeOK, ReplaceQueue, streamVars
<1>2. ASSUME NEW q \in Seq(EntryIds), EditQueue(q)
      PROVE  TypeOK'
  BY <1>1, <1>2 DEF EditQueue, ClearStaleBoundary
<1>3. ASSUME NEW n \in 0..MaxQueue, NEW entries \in [1..n -> EntryIds], AppendHostQueue(entries)
      PROVE  TypeOK'
  <2>1. queue \o entries \in Seq(EntryIds)
    BY HostPlaybackAssumption DEF TypeOK
  <2>2. QED
    BY <1>2, <1>3, <2>1 DEF AppendHostQueue
<1>4. ASSUME NEW p, ReorderHostQueue(p)
      PROVE  TypeOK'
  <2>1. [i \in DOMAIN queue |-> queue[p[i]]] \in Seq(EntryIds)
    <3>1. queue \in Seq(EntryIds) /\ p \in [DOMAIN queue -> DOMAIN queue]
      BY <1>4, Zenon DEF ReorderHostQueue, TypeOK
    <3>2. QED
      BY <3>1
  <2>2. QED
    BY <1>2, <1>4, <2>1 DEF ReorderHostQueue
<1>5. ASSUME NEW i \in DOMAIN queue, RemoveHostQueueEntry(i)
      PROVE  TypeOK'
  <2>1. Without(queue, i) \in Seq(EntryIds)
    BY WithoutType DEF TypeOK
  <2>2. QED
    BY <1>2, <1>5, <2>1 DEF RemoveHostQueueEntry
<1>6. CASE ClearHostQueue
  <2>1. (IF CurrentLocked /\ queue # <<>> THEN <<queue[1]>> ELSE <<>>) \in Seq(EntryIds)
    BY DEF TypeOK
  <2>2. QED
    BY <1>1, <1>6, <2>1 DEF ClearHostQueue
<1>7. ASSUME NEW s \in Sources \cup {NoSource}, UpdateHostDraft(s)
      PROVE  TypeOK'
  <2>1. (IF s = NoSource THEN <<>> ELSE <<s>>) \in Seq(EntryIds)
    BY HostPlaybackAssumption
  <2>2. QED
    BY <1>2, <1>7, <2>1 DEF UpdateHostDraft
<1>8. CASE PatchHostDraft
  BY <1>8 DEF TypeOK, SessionTypeOK, PatchHostDraft, ClearFailure, playbackVars
<1>9. QED
  BY <1>3, <1>4, <1>5, <1>6, <1>7, <1>8 DEF QueueStep

\* The handlers of audio events keep the types.
LEMMA AudioStepType ==
    ASSUME TypeOK, AudioStep
    PROVE  TypeOK'
<1> USE DEF sessionVars, queueVars, streamVars, boundaryVars
<1>0. RetiredWithActive \in Seq(Streams)
  BY RetiredType
<1>1. RestingLifecycle \in Lifecycles
  BY DEF RestingLifecycle, Lifecycles
<1>2. ASSUME NEW s \in PlaybackStates, PlaybackStateChanged(s)
      PROVE  TypeOK'
  <2>1. stream' \in Streams \cup {NoStream} /\ retired' \in Seq(Streams)
    BY <1>0, <1>2 DEF TypeOK, PlaybackStateChanged, RetireActiveStream
  <2>2. boundaries' \in Seq(Boundaries) /\ nextBoundary' \in Boundaries \cup {NoBoundary}
    <3>1. UNCHANGED boundaryVars \/ ClearReservations
      BY <1>2, Zenon DEF PlaybackStateChanged, RetireActiveStream
    <3>2. QED
      BY <3>1, BoundaryType
  <2>3. lifecycle' \in Lifecycles
    BY <1>1, <1>2 DEF TypeOK, SessionTypeOK, PlaybackStateChanged, LifecycleAfter, Lifecycles
  <2>4. recoverable' \in {"None", "Retry", "ReselectAudioSource"}
    BY <1>2 DEF TypeOK, SessionTypeOK, PlaybackStateChanged
  <2>5. lastError' \in Failures \cup {"None"} /\ position' \in 0..MaxPosition
    BY <1>2, HostPlaybackAssumption DEF TypeOK, SessionTypeOK, PlaybackStateChanged
  <2>6. endedNaturally' \in BOOLEAN
    BY <1>2, Zenon DEF PlaybackStateChanged
  <2>7. QED
    BY <1>2, <2>1, <2>2, <2>3, <2>4, <2>5, <2>6
       DEF TypeOK, SessionTypeOK, PlaybackStateChanged
<1>3. CASE Underrun
  BY <1>3 DEF TypeOK, SessionTypeOK, Underrun, ClearReservations, PlaybackStates
<1>4. ASSUME NEW retryable \in BOOLEAN, AudioFailed(retryable)
      PROVE  TypeOK'
  <2>1. SessionTypeOK'
    BY <1>1, <1>4 DEF TypeOK, SessionTypeOK, AudioFailed, Lifecycles, Failures
  <2>2. QED
    BY <1>0, <1>4, <2>1 DEF TypeOK, AudioFailed, RetireActiveStream, ClearReservations,
                            PlaybackStates
<1>5. ASSUME NEW s \in Streams, BufferedStart(s)
      PROVE  TypeOK'
  <2>1. SessionTypeOK'
    BY <1>5 DEF TypeOK, SessionTypeOK, BufferedStart, Lifecycles
  <2>2. boundaries' \in Seq(Boundaries) /\ nextBoundary' \in Boundaries \cup {NoBoundary}
    BY <1>5 DEF BufferedStart, ClearReservations
  <2>3. playback' \in PlaybackStates /\ position' \in 0..MaxPosition
    BY <1>5, HostPlaybackAssumption DEF BufferedStart, PlaybackStates
  <2>4. QED
    BY <1>0, <1>5, <2>1, <2>2, <2>3 DEF TypeOK, BufferedStart
<1>6. ASSUME NEW s \in Streams, NEW p \in 0..MaxPosition, PositionAdvanced(s, p)
      PROVE  TypeOK'
  BY <1>6 DEF TypeOK, SessionTypeOK, PositionAdvanced
<1>7. ASSUME NEW s \in Streams, EndOfStream(s)
      PROVE  TypeOK'
  <2>1. SessionTypeOK'
    BY <1>1, <1>7 DEF TypeOK, SessionTypeOK, EndOfStream
  <2>2. /\ queue' \in Seq(EntryIds) /\ source' \in Sources \cup {NoSource}
        /\ position' \in 0..MaxPosition /\ endedNaturally' \in BOOLEAN
    <3>1. \/ /\ queue' = queue /\ source' = source /\ position' = 0
             /\ endedNaturally' = FALSE
          \/ /\ queue' = <<>> /\ source' = NoSource /\ position' = position
             /\ endedNaturally' = TRUE
      BY <1>7, Zenon DEF EndOfStream
    <3>2. 0 \in 0..MaxPosition /\ <<>> \in Seq(EntryIds)
      BY HostPlaybackAssumption
    <3>3. QED
      BY <3>1, <3>2, Zenon DEF TypeOK
  <2>3. QED
    BY <1>0, <1>7, <2>1, <2>2 DEF TypeOK, EndOfStream, RetireActiveStream, ClearReservations,
                                  PlaybackStates
<1>8. ASSUME NEW e \in EntryIds, NEW i \in 0..MaxSample, TrackBoundaryScheduled(e, i)
      PROVE  TypeOK'
  <2>1. Append(boundaries, [entry |-> e, sample |-> i]) \in Seq(Boundaries)
    BY <1>8, HostPlaybackAssumption DEF TypeOK, TrackBoundaryScheduled, Boundaries
  <2>2. QED
    BY <1>8, <2>1 DEF TypeOK, SessionTypeOK, TrackBoundaryScheduled, Earliest
<1>9. ASSUME NEW e \in EntryIds, NEW i \in 0..MaxSample, TrackBoundaryApplied(e, i)
      PROVE  TypeOK'
  <2>1. Tail(queue) \in Seq(EntryIds) /\ Tail(boundaries) \in Seq(Boundaries)
    BY <1>9, TailElements DEF TypeOK, TrackBoundaryApplied
  <2>2. CurrentSource(Tail(queue)) \in Sources \cup {NoSource}
    BY <2>1, CurrentSourceType
  <2>3. Earliest(Tail(boundaries)) \in Boundaries \cup {NoBoundary}
    BY <2>1 DEF Earliest
  <2>4. QED
    BY <1>9, <2>1, <2>2, <2>3 DEF TypeOK, SessionTypeOK, TrackBoundaryApplied
<1>10. QED
  BY <1>2, <1>3, <1>4, <1>5, <1>6, <1>7, <1>8, <1>9 DEF AudioStep, ReserveTrackBoundary

\* The reset that ends a session keeps the types.
LEMMA SessionResetType ==
    ASSUME TypeOK, NEW i \in DOMAIN platformOps, SessionReset(i)
    PROVE  TypeOK'
<1>1. Without(platformOps, i) \in Seq(PlatformOps)
  BY WithoutType DEF TypeOK, SessionTypeOK
<1>2. SessionTypeOK'
  BY <1>1, HostSessionAssumption
     DEF TypeOK, SessionTypeOK, SessionReset, AdvertisingStopped, ClearFailure, NoSession, Lifecycles
<1>3. boundaries' \in Seq(Boundaries) /\ nextBoundary' \in Boundaries \cup {NoBoundary}
  BY BoundaryType DEF SessionReset, RetireActiveStream
<1>4. RetiredWithActive \in Seq(Streams)
  BY RetiredType
<1>5. position' \in 0..MaxPosition /\ queue' \in Seq(EntryIds) /\ playback' \in PlaybackStates
  BY HostPlaybackAssumption DEF SessionReset, PlaybackStates
<1>6. QED
  BY <1>2, <1>3, <1>4, <1>5 DEF TypeOK, SessionReset, RetireActiveStream

\* Every step of the actor keeps the types.
LEMMA TypeStep ==
    ASSUME TypeOK, [Next]_vars
    PROVE  TypeOK'
<1>1. CASE Next
  BY <1>1, SessionPartType, QueueStepType, AudioStepType, SessionResetType DEF Next
<1>2. CASE UNCHANGED vars
  BY <1>2, Zenon DEF vars, sessionVars, playbackVars, TypeOK, SessionTypeOK
<1>3. QED
  BY <1>1, <1>2

\* Every variable of the reducer keeps its type, for all constants.
THEOREM PlaybackTypeCorrect == Spec => []TypeOK
<1>1. Init => TypeOK
  <2>1. SessionInit => SessionTypeOK
    BY HostSessionAssumption DEF SessionInit, SessionTypeOK, NoSession, Lifecycles
  <2>2. /\ 0 \in 0..MaxPosition
        /\ "Stopped" \in PlaybackStates
        /\ <<>> \in Seq(EntryIds) /\ <<>> \in Seq(Streams) /\ <<>> \in Seq(Boundaries)
    BY HostPlaybackAssumption DEF PlaybackStates
  <2>3. QED
    BY <2>1, <2>2, Zenon DEF Init, TypeOK
<1>2. TypeOK /\ [Next]_vars => TypeOK'
  BY TypeStep
<1>3. QED
  BY <1>1, <1>2, PTL DEF Spec

-----------------------------------------------------------------------------
(* Reservations and the published boundary *)

ReservationInv == ReservationsFollowQueue /\ PublishedBoundaryIsEarliest

\* With no reservation left there is nothing to be wrong about.
LEMMA ClearedReservations ==
    ASSUME ClearReservations
    PROVE  ReservationInv'
BY DEF ClearReservations, ReservationInv, ReservationsFollowQueue, ReservedPrefix,
       PublishedBoundaryIsEarliest, Earliest

\* Reservations and queue that are both left alone stay consistent.
LEMMA KeptReservations ==
    ASSUME ReservationInv, UNCHANGED <<queue, boundaries, nextBoundary>>
    PROVE  ReservationInv'
BY DEF ReservationInv, ReservationsFollowQueue, ReservedPrefix, PublishedBoundaryIsEarliest, Earliest

\* An edit keeps the reservations only if they still head the upcoming entries.
LEMMA EditedReservations ==
    ASSUME ReservationInv, ClearStaleBoundary
    PROVE  ReservationInv'
<1>1. CASE ~ReservedPrefix(queue')
  BY <1>1, ClearedReservations DEF ClearStaleBoundary
<1>2. CASE ReservedPrefix(queue')
  BY <1>2 DEF ClearStaleBoundary, ReservationInv, ReservationsFollowQueue, ReservedPrefix,
              PublishedBoundaryIsEarliest, Earliest, boundaryVars
<1>3. QED
  BY <1>1, <1>2

\* A new reservation is behind the last one in the queue and in the stream.
LEMMA ScheduledReservation ==
    ASSUME TypeOK, ReservationInv, NEW e \in EntryIds, NEW i \in 0..MaxSample,
           TrackBoundaryScheduled(e, i)
    PROVE  ReservationInv'
<1>1. /\ queue' = queue
      /\ boundaries' = Append(boundaries, [entry |-> e, sample |-> i])
      /\ nextBoundary' = Earliest(boundaries')
  BY DEF TrackBoundaryScheduled, queueVars
<1>2. boundaries \in Seq(Boundaries) /\ queue \in Seq(EntryIds)
  BY DEF TypeOK
<1>3. /\ Len(boundaries') = Len(boundaries) + 1
      /\ DOMAIN boundaries' = 1..(Len(boundaries) + 1)
      /\ \A j \in 1..Len(boundaries) : boundaries'[j] = boundaries[j]
      /\ boundaries'[Len(boundaries) + 1] = [entry |-> e, sample |-> i]
  BY <1>1, <1>2
<1>4. ReservedPrefix(queue)'
  BY <1>1, <1>2, <1>3
     DEF TrackBoundaryScheduled, ReservationInv, ReservationsFollowQueue, ReservedPrefix
<1>5. ASSUME NEW j \in DOMAIN boundaries, NEW k \in DOMAIN boundaries, j <= k
      PROVE  /\ boundaries[j].sample \in Nat
             /\ boundaries[j].sample <= boundaries[k].sample
  <2>1. boundaries[j].sample \in Nat /\ boundaries[k].sample \in Nat
    <3>1. boundaries[j] \in Boundaries /\ boundaries[k] \in Boundaries
      BY <1>2
    <3>2. QED
      BY <3>1, HostPlaybackAssumption DEF Boundaries
  <2>2. QED
    BY <1>2, <1>5, <2>1 DEF ReservationInv, ReservationsFollowQueue
<1>6. ASSUME NEW j \in DOMAIN boundaries', NEW k \in DOMAIN boundaries', j < k
      PROVE  boundaries'[j].sample < boundaries'[k].sample
  <2>1. CASE k = Len(boundaries) + 1
    <3>1. j \in DOMAIN boundaries /\ Len(boundaries) \in DOMAIN boundaries /\ boundaries # <<>>
      BY <1>2, <1>3, <1>6, <2>1
    <3>2. boundaries[Len(boundaries)].sample < i
      BY <3>1 DEF TrackBoundaryScheduled
    <3>3. boundaries[j].sample <= boundaries[Len(boundaries)].sample
      BY <1>2, <1>5, <3>1
    <3>4. boundaries[j].sample \in Nat /\ boundaries[Len(boundaries)].sample \in Nat /\ i \in Nat
      BY <1>5, <3>1, HostPlaybackAssumption
    <3>5. QED
      BY <1>2, <1>3, <2>1, <3>1, <3>2, <3>3, <3>4
  <2>2. CASE k # Len(boundaries) + 1
    <3>1. j \in 1..Len(boundaries) /\ k \in 1..Len(boundaries) /\ j < k
      BY <1>2, <1>3, <1>6, <2>2
    <3>2. boundaries'[j] = boundaries[j] /\ boundaries'[k] = boundaries[k]
      BY <1>3, <3>1
    <3>3. boundaries[j].sample < boundaries[k].sample
      BY <1>2, <3>1 DEF ReservationInv, ReservationsFollowQueue
    <3>4. QED
      BY <3>2, <3>3
  <2>3. QED
    BY <2>1, <2>2
<1>7. QED
  BY <1>1, <1>4, <1>6 DEF ReservationInv, ReservationsFollowQueue, PublishedBoundaryIsEarliest,
                          Earliest, ReservedPrefix

\* Applying the first reservation shifts the queue and the reservations together.
LEMMA AppliedReservation ==
    ASSUME TypeOK, ReservationInv, NEW e \in EntryIds, NEW i \in 0..MaxSample,
           TrackBoundaryApplied(e, i)
    PROVE  ReservationInv'
<1>1. /\ queue' = Tail(queue)
      /\ boundaries' = Tail(boundaries)
      /\ nextBoundary' = Earliest(boundaries')
      /\ boundaries # <<>> /\ queue # <<>>
      /\ boundaries \in Seq(Boundaries) /\ queue \in Seq(EntryIds)
  BY DEF TrackBoundaryApplied, TypeOK
<1>2. /\ \A j \in DOMAIN boundaries' : j + 1 \in DOMAIN boundaries /\ boundaries'[j] = boundaries[j + 1]
      /\ DOMAIN boundaries' \subseteq Nat
  BY <1>1, TailElements
<1>3. ReservedPrefix(queue)'
  BY <1>1, <1>2 DEF ReservationInv, ReservationsFollowQueue, ReservedPrefix
<1>4. \A j, k \in DOMAIN boundaries' : j < k => boundaries'[j].sample < boundaries'[k].sample
  BY <1>2 DEF ReservationInv, ReservationsFollowQueue
<1>5. QED
  BY <1>1, <1>3, <1>4 DEF ReservationInv, ReservationsFollowQueue, PublishedBoundaryIsEarliest,
                          Earliest, ReservedPrefix

\* Every step keeps the reservations in line with the queue.
LEMMA ReservationStep ==
    ASSUME TypeOK, ReservationInv, [Next]_vars
    PROVE  ReservationInv'
<1>1. CASE SessionStep \/ UNCHANGED vars
  BY <1>1, KeptReservations DEF SessionStep, playbackVars, vars
<1>2. CASE QueueStep
  <2>1. ClearStaleBoundary \/ ClearReservations \/ UNCHANGED <<queue, boundaries, nextBoundary>>
    BY <1>2, Zenon DEF QueueStep, AppendHostQueue, ReorderHostQueue, RemoveHostQueueEntry,
       ClearHostQueue, UpdateHostDraft, PatchHostDraft, EditQueue, playbackVars
  <2>2. QED
    BY <2>1, EditedReservations, ClearedReservations, KeptReservations
<1>3. CASE AudioStep
  <2>1. ASSUME NEW e \in EntryIds, NEW i \in 0..MaxSample,
               TrackBoundaryScheduled(e, i) \/ TrackBoundaryApplied(e, i)
        PROVE  ReservationInv'
    BY <2>1, ScheduledReservation, AppliedReservation
  <2>2. ASSUME NEW s \in PlaybackStates, PlaybackStateChanged(s)
        PROVE  ReservationInv'
    BY <2>2, ClearedReservations, KeptReservations
       DEF PlaybackStateChanged, RetireActiveStream, queueVars, boundaryVars
  <2>3. ASSUME NEW s \in Streams, BufferedStart(s) \/ EndOfStream(s)
        PROVE  ReservationInv'
    BY <2>3, ClearedReservations DEF BufferedStart, EndOfStream, RetireActiveStream
  <2>4. ASSUME NEW s \in Streams, NEW p \in 0..MaxPosition, PositionAdvanced(s, p)
        PROVE  ReservationInv'
    BY <2>4, KeptReservations DEF PositionAdvanced, queueVars, boundaryVars
  <2>5. ASSUME Underrun \/ \E retryable \in BOOLEAN : AudioFailed(retryable)
        PROVE  ReservationInv'
    BY <2>5, ClearedReservations DEF Underrun, AudioFailed, RetireActiveStream
  <2>6. QED
    BY <1>3, <2>1, <2>2, <2>3, <2>4, <2>5 DEF AudioStep, ReserveTrackBoundary
<1>4. ASSUME NEW i \in DOMAIN platformOps, SessionReset(i)
      PROVE  ReservationInv'
  BY <1>4, ClearedReservations DEF SessionReset, RetireActiveStream
<1>5. QED
  BY <1>1, <1>2, <1>3, <1>4 DEF Next

\* The reservations and the published boundary are consistent in every state.
LEMMA ReservationInvariant == Spec => []ReservationInv
<1>1. Init => ReservationInv
  BY DEF Init, ReservationInv, ReservationsFollowQueue, ReservedPrefix,
         PublishedBoundaryIsEarliest, Earliest
<1>2. TypeOK /\ ReservationInv /\ [Next]_vars => ReservationInv'
  BY ReservationStep
<1>3. QED
  BY <1>1, <1>2, PlaybackTypeCorrect, PTL DEF Spec

\* However queue edits, boundaries, stops and resets interleave with the
\* producer, its reservations are the entries behind the current one, in order
\* of their samples.
THEOREM ReservationsAlwaysFollowQueue == Spec => []ReservationsFollowQueue
<1>1. ReservationInv => ReservationsFollowQueue
  BY DEF ReservationInv
<1>2. QED
  BY <1>1, ReservationInvariant, PTL

\* The published boundary is the earliest pending reservation in every state.
THEOREM PublishedBoundaryAlwaysEarliest == Spec => []PublishedBoundaryIsEarliest
<1>1. ReservationInv => PublishedBoundaryIsEarliest
  BY DEF ReservationInv
<1>2. QED
  BY <1>1, ReservationInvariant, PTL

-----------------------------------------------------------------------------
(* The mirrored source *)

\* Every step that changes the queue changes the draft's source with it.
LEMMA SourceStep ==
    ASSUME SourceMirrorsCurrent, [Next]_vars
    PROVE  SourceMirrorsCurrent'
<1>1. \/ UNCHANGED <<queue, source>>
      \/ source' = CurrentSource(queue')
  <2>1. CASE SessionStep \/ UNCHANGED vars
    BY <2>1, Zenon DEF SessionStep, playbackVars, vars
  <2>2. CASE QueueStep
    BY <2>2, Zenon DEF QueueStep, AppendHostQueue, ReorderHostQueue, RemoveHostQueueEntry,
       ClearHostQueue, UpdateHostDraft, PatchHostDraft, EditQueue, ReplaceQueue, playbackVars
  <2>3. CASE AudioStep
    <3>1. ASSUME NEW s \in Streams, EndOfStream(s)
          PROVE  \/ UNCHANGED <<queue, source>>
                 \/ source' = CurrentSource(queue')
      BY <3>1 DEF EndOfStream, queueVars, CurrentSource
    <3>2. QED
      BY <2>3, <3>1, Zenon
         DEF AudioStep, PlaybackStateChanged, Underrun, AudioFailed, BufferedStart,
             PositionAdvanced, ReserveTrackBoundary, TrackBoundaryScheduled,
             TrackBoundaryApplied, queueVars
  <2>4. ASSUME NEW i \in DOMAIN platformOps, SessionReset(i)
        PROVE  source' = CurrentSource(queue')
    BY <2>4 DEF SessionReset, CurrentSource
  <2>5. QED
    BY <2>1, <2>2, <2>3, <2>4 DEF Next
<1>2. QED
  BY <1>1 DEF SourceMirrorsCurrent, CurrentSource

\* The source older adapters read from the draft is that of the current entry.
THEOREM SourceAlwaysMirrorsCurrent == Spec => []SourceMirrorsCurrent
<1>1. Init => SourceMirrorsCurrent
  BY DEF Init, SourceMirrorsCurrent, CurrentSource
<1>2. SourceMirrorsCurrent /\ [Next]_vars => SourceMirrorsCurrent'
  BY SourceStep
<1>3. QED
  BY <1>1, <1>2, PTL DEF Spec

-----------------------------------------------------------------------------
(* Retired streams *)

\* Retiring the active stream keeps the bound and the distinctness, and leaves
\* no other stream on the list than it and those that were there.
LEMMA RetiringKeepsBound ==
    ASSUME TypeOK, ActiveStreamIsNotRetired
    PROVE  Len(RetiredWithActive) <= MaxRetired /\ Distinct(RetiredWithActive)
<1>0. retired \in Seq(Streams) /\ MaxRetired \in Nat \ {0}
  BY HostPlaybackAssumption DEF TypeOK
<1>1. CASE stream = NoStream \/ \E i \in DOMAIN retired : retired[i] = stream
  BY <1>1 DEF RetiredWithActive, ActiveStreamIsNotRetired
<1>2. CASE ~(stream = NoStream \/ \E i \in DOMAIN retired : retired[i] = stream)
  <2> DEFINE kept == IF Len(retired) = MaxRetired THEN Tail(retired) ELSE retired
  <2>1. stream \in Streams
    BY <1>2 DEF TypeOK
  <2>2. kept \in Seq(Streams) /\ Len(kept) < MaxRetired
    BY <1>0, TailElements DEF ActiveStreamIsNotRetired
  <2>3. \A i \in DOMAIN kept : \E j \in DOMAIN retired : kept[i] = retired[j]
    BY <1>0, TailElements
  <2>4. Distinct(kept)
    <3>1. CASE Len(retired) = MaxRetired
      BY <1>0, <3>1, TailElements DEF ActiveStreamIsNotRetired, Distinct
    <3>2. CASE Len(retired) # MaxRetired
      BY <3>2 DEF ActiveStreamIsNotRetired
    <3>3. QED
      BY <3>1, <3>2
  <2>5. RetiredWithActive = Append(kept, stream)
    BY <1>2 DEF RetiredWithActive
  <2>6. \A i \in DOMAIN kept : kept[i] # stream
    BY <1>2, <2>3
  <2> HIDE DEF kept
  <2>7. Len(Append(kept, stream)) <= MaxRetired
    BY <1>0, <2>1, <2>2
  <2>8. Distinct(Append(kept, stream))
    BY <2>1, <2>2, <2>4, <2>6 DEF Distinct
  <2>9. QED
    BY <2>5, <2>7, <2>8
<1>3. QED
  BY <1>1, <1>2

\* Every step leaves the active stream off the list of retired ones.
LEMMA RetiredStep ==
    ASSUME TypeOK, ActiveStreamIsNotRetired, [Next]_vars
    PROVE  ActiveStreamIsNotRetired'
<1>1. Len(RetiredWithActive) <= MaxRetired /\ Distinct(RetiredWithActive)
  BY RetiringKeepsBound
<1>2. ASSUME UNCHANGED <<stream, retired>>
      PROVE  ActiveStreamIsNotRetired'
  BY <1>2 DEF ActiveStreamIsNotRetired, IsRetired, Distinct
<1>3. ASSUME RetireActiveStream
      PROVE  ActiveStreamIsNotRetired'
  BY <1>1, <1>3 DEF RetireActiveStream, ActiveStreamIsNotRetired, Distinct
<1>4. ASSUME NEW s \in Streams, BufferedStart(s)
      PROVE  ActiveStreamIsNotRetired'
  BY <1>1, <1>4 DEF BufferedStart, ActiveStreamIsNotRetired, IsRetired, Distinct
<1>5. ASSUME NEW s \in Streams, NEW p \in 0..MaxPosition, PositionAdvanced(s, p)
      PROVE  ActiveStreamIsNotRetired'
  BY <1>5 DEF PositionAdvanced, ActiveStreamIsNotRetired, IsRetired, Distinct
<1>6. CASE SessionStep \/ UNCHANGED vars
  BY <1>2, <1>6 DEF SessionStep, playbackVars, vars
<1>7. CASE QueueStep
  <2>1. UNCHANGED <<stream, retired>>
    BY <1>7, Zenon DEF QueueStep, AppendHostQueue, ReorderHostQueue, RemoveHostQueueEntry,
       ClearHostQueue, UpdateHostDraft, PatchHostDraft, EditQueue, ReplaceQueue, playbackVars,
       streamVars
  <2>2. QED
    BY <1>2, <2>1
<1>8. CASE AudioStep
  <2>1. ASSUME NEW s \in PlaybackStates, PlaybackStateChanged(s)
        PROVE  ActiveStreamIsNotRetired'
    BY <1>2, <1>3, <2>1 DEF PlaybackStateChanged, streamVars
  <2>2. ASSUME NEW e \in EntryIds, NEW i \in 0..MaxSample,
               TrackBoundaryScheduled(e, i) \/ TrackBoundaryApplied(e, i)
        PROVE  ActiveStreamIsNotRetired'
    BY <1>2, <2>2 DEF TrackBoundaryScheduled, TrackBoundaryApplied, streamVars
  <2>3. ASSUME Underrun \/ \E retryable \in BOOLEAN : AudioFailed(retryable)
        PROVE  ActiveStreamIsNotRetired'
    BY <1>2, <1>3, <2>3 DEF Underrun, AudioFailed, streamVars
  <2>4. ASSUME NEW s \in Streams, EndOfStream(s)
        PROVE  ActiveStreamIsNotRetired'
    BY <1>3, <2>4 DEF EndOfStream
  <2>5. QED
    BY <1>4, <1>5, <1>8, <2>1, <2>2, <2>3, <2>4 DEF AudioStep, ReserveTrackBoundary
<1>9. ASSUME NEW i \in DOMAIN platformOps, SessionReset(i)
      PROVE  ActiveStreamIsNotRetired'
  BY <1>3, <1>9 DEF SessionReset
<1>10. QED
  BY <1>6, <1>7, <1>8, <1>9 DEF Next

\* No remembered stream is ever active again, and the memory stays bounded.
THEOREM ActiveStreamNeverRetired == Spec => []ActiveStreamIsNotRetired
<1>1. Init => ActiveStreamIsNotRetired
  BY HostPlaybackAssumption DEF Init, ActiveStreamIsNotRetired, IsRetired, Distinct
<1>2. TypeOK /\ ActiveStreamIsNotRetired /\ [Next]_vars => ActiveStreamIsNotRetired'
  BY RetiredStep
<1>3. QED
  BY <1>1, <1>2, PlaybackTypeCorrect, PTL DEF Spec

-----------------------------------------------------------------------------
(* What a step may do *)

\* The step formula of AudibleTrackIsStable.
AudibleStep ==
    (/\ queue # <<>>
     /\ lifecycle \notin {"Idle", "Error", "EndingSession"}
     /\ {playback, playback'} \subseteq LockedStates)
    => \/ queue' # <<>> /\ queue'[1] = queue[1]
       \/ /\ playback = "Playing"
          /\ boundaries # <<>>
          /\ boundaries' = Tail(boundaries)
          /\ queue' = Tail(queue)
          /\ queue'[1] = boundaries[1].entry

\* A queue edit leaves a locked current entry in its place.
LEMMA EditKeepsLocked ==
    ASSUME TypeOK, QueueStep, queue # <<>>, playback \in LockedStates,
           lifecycle \notin {"Idle", "Error", "EndingSession"}
    PROVE  queue' # <<>> /\ queue'[1] = queue[1]
<1>0. queue \in Seq(EntryIds) /\ 1 \in DOMAIN queue /\ CurrentLocked
  BY DEF TypeOK, CurrentLocked
<1>1. ASSUME NEW n \in 0..MaxQueue, NEW entries \in [1..n -> EntryIds], AppendHostQueue(entries)
      PROVE  queue' # <<>> /\ queue'[1] = queue[1]
  <2>1. queue' = queue \o entries
    BY <1>1 DEF AppendHostQueue, EditQueue, ReplaceQueue
  <2>2. entries \in Seq(EntryIds)
    BY HostPlaybackAssumption
  <2>3. QED
    BY <1>0, <2>1, <2>2
<1>2. ASSUME NEW p, ReorderHostQueue(p)
      PROVE  queue' # <<>> /\ queue'[1] = queue[1]
  <2>1. /\ queue' = [i \in DOMAIN queue |-> queue[p[i]]]
        /\ [i \in DOMAIN queue |-> queue[p[i]]][1] = queue[1]
    BY <1>0, <1>2, Zenon DEF ReorderHostQueue, EditQueue, ReplaceQueue
  <2>2. DOMAIN queue' = DOMAIN queue /\ queue'[1] = queue[1]
    BY <2>1
  <2>3. QED
    BY <1>0, <2>2
<1>3. ASSUME NEW i \in DOMAIN queue, RemoveHostQueueEntry(i)
      PROVE  queue' # <<>> /\ queue'[1] = queue[1]
  <2>1. i # 1 /\ queue' = Without(queue, i)
    BY <1>0, <1>3 DEF RemoveHostQueueEntry, EditQueue, ReplaceQueue
  <2>2. QED
    BY <1>0, <2>1 DEF Without
<1>4. CASE ClearHostQueue
  <2>1. queue' = <<queue[1]>>
    BY <1>0, <1>4 DEF ClearHostQueue, ReplaceQueue
  <2>2. QED
    BY <2>1
<1>5. ASSUME NEW s \in Sources \cup {NoSource}
      PROVE  ~UpdateHostDraft(s)
  BY DEF UpdateHostDraft, DraftEditable, LockedStates
<1>6. CASE PatchHostDraft
  BY <1>6 DEF PatchHostDraft, DraftEditable, LockedStates
<1>7. QED
  BY <1>1, <1>2, <1>3, <1>4, <1>5, <1>6 DEF QueueStep

\* No step displaces the audible track but the boundary reserved first.
LEMMA AudibleStepHolds ==
    ASSUME TypeOK, Next
    PROVE  AudibleStep
<1>1. SUFFICES ASSUME queue # <<>>,
                      lifecycle \notin {"Idle", "Error", "EndingSession"},
                      playback \in LockedStates, playback' \in LockedStates
               PROVE  \/ queue' # <<>> /\ queue'[1] = queue[1]
                      \/ /\ playback = "Playing"
                         /\ boundaries # <<>>
                         /\ boundaries' = Tail(boundaries)
                         /\ queue' = Tail(queue)
                         /\ queue'[1] = boundaries[1].entry
  BY DEF AudibleStep
<1>2. CASE SessionStep
  BY <1>1, <1>2 DEF SessionStep, playbackVars
<1>3. CASE QueueStep
  BY <1>1, <1>3, EditKeepsLocked
<1>4. CASE AudioStep
  <2>1. ASSUME NEW e \in EntryIds, NEW i \in 0..MaxSample, TrackBoundaryApplied(e, i)
        PROVE  /\ playback = "Playing"
               /\ boundaries # <<>>
               /\ boundaries' = Tail(boundaries)
               /\ queue' = Tail(queue)
               /\ queue'[1] = boundaries[1].entry
    <3>1. /\ playback = "Playing" /\ boundaries # <<>> /\ boundaries' = Tail(boundaries)
          /\ queue' = Tail(queue) /\ Len(queue) > 1 /\ queue[2] = e
          /\ boundaries[1].entry = e
      BY <2>1 DEF TrackBoundaryApplied
    <3>2. queue \in Seq(EntryIds)
      BY DEF TypeOK
    <3>3. Tail(queue)[1] = queue[2]
      BY <3>1, <3>2, TailElements
    <3>4. QED
      BY <3>1, <3>3
  <2>2. ASSUME NEW s \in Streams, EndOfStream(s)
        PROVE  FALSE
    BY <1>1, <2>2 DEF EndOfStream, LockedStates
  <2>3. \/ queue' = queue
        \/ \E e \in EntryIds, i \in 0..MaxSample : TrackBoundaryApplied(e, i)
        \/ \E s \in Streams : EndOfStream(s)
    BY <1>4, Zenon DEF AudioStep, PlaybackStateChanged, Underrun, AudioFailed, BufferedStart,
       PositionAdvanced, ReserveTrackBoundary, TrackBoundaryScheduled, queueVars
  <2>4. QED
    BY <1>1, <2>1, <2>2, <2>3
<1>5. ASSUME NEW i \in DOMAIN platformOps, SessionReset(i)
      PROVE  FALSE
  BY <1>1, <1>5 DEF SessionReset, LockedStates
<1>6. QED
  BY <1>2, <1>3, <1>4, <1>5 DEF Next

\* In a live session the audible track is only ever replaced by the track whose
\* boundary was reserved first, while playing.
THEOREM AudibleTrackAlwaysStable == Spec => AudibleTrackIsStable
<1>1. TypeOK /\ [Next]_vars => [AudibleStep]_vars
  BY AudibleStepHolds
<1>2. QED
  BY <1>1, PlaybackTypeCorrect, PTL DEF Spec, AudibleTrackIsStable, AudibleStep

\* The active stream is among the retired ones once it is retired.
LEMMA RetiredContainsActive ==
    ASSUME TypeOK, stream # NoStream
    PROVE  \E i \in DOMAIN RetiredWithActive : RetiredWithActive[i] = stream
<1>0. retired \in Seq(Streams) /\ stream \in Streams /\ MaxRetired \in Nat \ {0}
  BY HostPlaybackAssumption DEF TypeOK
<1>1. CASE \E i \in DOMAIN retired : retired[i] = stream
  BY <1>1 DEF RetiredWithActive
<1>2. CASE ~\E i \in DOMAIN retired : retired[i] = stream
  <2> DEFINE kept == IF Len(retired) = MaxRetired THEN Tail(retired) ELSE retired
  <2>1. kept \in Seq(Streams)
    BY <1>0, TailElements
  <2>2. RetiredWithActive = Append(kept, stream)
    BY <1>2 DEF RetiredWithActive
  <2> HIDE DEF kept
  <2>3. /\ Len(kept) + 1 \in DOMAIN Append(kept, stream)
        /\ Append(kept, stream)[Len(kept) + 1] = stream
    BY <1>0, <2>1
  <2>4. QED
    BY <2>2, <2>3
<1>3. QED
  BY <1>1, <1>2

\* A step that moves the position back ends or replaces the active stream.
LEMMA PositionStep ==
    ASSUME TypeOK, Next, stream # NoStream, stream' = stream
    PROVE  position' >= position
<1>0. position \in Nat
  BY HostPlaybackAssumption DEF TypeOK
<1>1. CASE SessionStep
  BY <1>0, <1>1 DEF SessionStep, playbackVars
<1>2. CASE QueueStep
  <2>1. position' = position
    BY <1>2, Zenon DEF QueueStep, AppendHostQueue, ReorderHostQueue, RemoveHostQueueEntry,
       ClearHostQueue, UpdateHostDraft, PatchHostDraft, EditQueue, ReplaceQueue, playbackVars
  <2>2. QED
    BY <1>0, <2>1
<1>3. CASE AudioStep
  <2>1. ASSUME NEW s \in PlaybackStates, PlaybackStateChanged(s)
        PROVE  position' = position
    BY <2>1 DEF PlaybackStateChanged, RetireActiveStream
  <2>2. ASSUME NEW s \in Streams, BufferedStart(s)
        PROVE  FALSE
    BY <2>2, RetiredContainsActive DEF BufferedStart
  <2>3. ASSUME NEW s \in Streams, EndOfStream(s)
        PROVE  FALSE
    BY <2>3 DEF EndOfStream, RetireActiveStream
  <2>4. ASSUME NEW s \in Streams, NEW p \in 0..MaxPosition, PositionAdvanced(s, p)
        PROVE  position' >= position
    BY <2>4 DEF PositionAdvanced
  <2>5. ASSUME \/ Underrun
               \/ \E retryable \in BOOLEAN : AudioFailed(retryable)
               \/ \E e \in EntryIds, i \in 0..MaxSample :
                     TrackBoundaryScheduled(e, i) \/ TrackBoundaryApplied(e, i)
        PROVE  position' = position
    BY <2>5, Zenon DEF Underrun, AudioFailed, TrackBoundaryScheduled, TrackBoundaryApplied
  <2>6. QED
    BY <1>0, <1>3, <2>1, <2>2, <2>3, <2>4, <2>5 DEF AudioStep, ReserveTrackBoundary
<1>4. ASSUME NEW i \in DOMAIN platformOps, SessionReset(i)
      PROVE  FALSE
  BY <1>4 DEF SessionReset, RetireActiveStream
<1>5. QED
  BY <1>1, <1>2, <1>3, <1>4 DEF Next

\* The published position of a stream never moves back while it is active.
THEOREM PositionAlwaysMonotone == Spec => PositionIsMonotone
<1>1. TypeOK /\ [Next]_vars => [stream # NoStream /\ stream' = stream => position' >= position]_vars
  BY PositionStep
<1>2. QED
  BY <1>1, PlaybackTypeCorrect, PTL DEF Spec, PositionIsMonotone

-----------------------------------------------------------------------------
(* Playback implements the session *)

\* A queue edit clears the published failure and touches nothing else of the session.
LEMMA QueueStepRefines ==
    ASSUME QueueStep
    PROVE  DraftEdited
<1> USE DEF ReplaceQueue, EditQueue, DraftEdited
<1>1. ASSUME NEW entries, AppendHostQueue(entries) PROVE DraftEdited
  BY <1>1, Zenon DEF AppendHostQueue
<1>2. ASSUME NEW p, ReorderHostQueue(p) PROVE DraftEdited
  BY <1>2, Zenon DEF ReorderHostQueue
<1>3. ASSUME NEW i, RemoveHostQueueEntry(i) PROVE DraftEdited
  BY <1>3, Zenon DEF RemoveHostQueueEntry
<1>4. CASE ClearHostQueue
  BY <1>4, Zenon DEF ClearHostQueue
<1>5. ASSUME NEW s, UpdateHostDraft(s) PROVE DraftEdited
  BY <1>5, Zenon DEF UpdateHostDraft
<1>6. CASE PatchHostDraft
  BY <1>6, Zenon DEF PatchHostDraft
<1>7. QED
  BY <1>1, <1>2, <1>3, <1>4, <1>5, <1>6, Zenon DEF QueueStep

\* A playback state the platform reports is a playback event of the session.
LEMMA StateChangeRefines ==
    ASSUME NEW s \in PlaybackStates, PlaybackStateChanged(s)
    PROVE  PlaybackEvent \/ UNCHANGED sessionVars
<1> USE DEF PlaybackStateChanged, PlaybackEvent, sessionVars
<1>1. CASE s = "Buffering"
  BY <1>1 DEF StateChangePermitted, LifecycleAfter, PlaybackBuffering, ClearFailure
<1>2. CASE s = "Error"
  BY <1>2 DEF LifecycleAfter, PlaybackFailed
<1>3. CASE s \in {"Playing", "Paused", "Stopped"} /\ session # NoSession
  <2>1. RestingLifecycle # "Paused"
    BY DEF RestingLifecycle
  <2>2. CASE s = "Playing"
    <3>1. PlaybackControlled("Streaming")
      BY <1>3, <2>2 DEF StateChangePermitted, LifecycleAfter, PlaybackControlled
    <3>2. QED
      BY <3>1
  <2>3. CASE s = "Paused"
    <3>1. PlaybackControlled("Paused")
      BY <1>3, <2>3 DEF StateChangePermitted, LifecycleAfter, PlaybackControlled
    <3>2. QED
      BY <3>1
  <2>4. CASE s = "Stopped"
    <3>1. PlaybackControlled(RestingLifecycle)
      BY <1>3, <2>1, <2>4 DEF StateChangePermitted, LifecycleAfter, PlaybackControlled
    <3>2. QED
      BY <3>1
  <2>5. QED
    BY <1>3, <2>2, <2>3, <2>4
<1>4. CASE s \in {"Playing", "Paused", "Stopped"} /\ session = NoSession
  BY <1>4
<1>5. CASE s \in {"Ready", "Underrun"}
  BY <1>5 DEF LifecycleAfter
<1>6. QED
  BY <1>1, <1>2, <1>3, <1>4, <1>5 DEF PlaybackStates

\* Every audio event is a playback event of the session, or invisible to it.
LEMMA AudioStepRefines ==
    ASSUME AudioStep
    PROVE  PlaybackEvent \/ UNCHANGED sessionVars
<1> USE DEF PlaybackEvent, sessionVars
<1>1. CASE Underrun
  BY <1>1 DEF Underrun
<1>2. ASSUME NEW retryable \in BOOLEAN, AudioFailed(retryable)
      PROVE  PlaybackEvent
  BY <1>2 DEF AudioFailed, PlaybackFailed
<1>3. ASSUME NEW s, BufferedStart(s)
      PROVE  PlaybackEvent
  BY <1>3 DEF BufferedStart, PlaybackControlled
<1>4. ASSUME NEW s, NEW p, PositionAdvanced(s, p)
      PROVE  UNCHANGED sessionVars
  BY <1>4 DEF PositionAdvanced
<1>5. ASSUME NEW s, EndOfStream(s)
      PROVE  PlaybackEvent \/ UNCHANGED sessionVars
  <2>1. CASE session = NoSession
    BY <1>5, <2>1 DEF EndOfStream
  <2>2. CASE session # NoSession
    <3>1. RestingLifecycle # "Paused"
      BY DEF RestingLifecycle
    <3>2. PlaybackControlled(RestingLifecycle)
      BY <1>5, <2>2, <3>1 DEF EndOfStream, PlaybackControlled
    <3>3. QED
      BY <3>2
  <2>3. QED
    BY <2>1, <2>2
<1>6. ASSUME NEW e, NEW i, TrackBoundaryScheduled(e, i) \/ TrackBoundaryApplied(e, i)
      PROVE  UNCHANGED sessionVars
  BY <1>6 DEF TrackBoundaryScheduled, TrackBoundaryApplied
<1>7. QED
  BY StateChangeRefines, <1>1, <1>2, <1>3, <1>4, <1>5, <1>6
     DEF AudioStep, ReserveTrackBoundary

\* Playback implements the life cycle of HostSession: whatever the queue and
\* the audio threads do, the session takes only steps SessionSpec allows.
THEOREM PlaybackImplementsSession == Spec => SessionSpec
<1>1. Init => SessionInit
  BY DEF Init
<1>2. [Next]_vars => [SessionNext]_sessionVars
  <2>1. CASE SessionStep
    BY <2>1, SessionStepRefines
  <2>2. CASE QueueStep
    BY <2>2, QueueStepRefines DEF SessionNext
  <2>3. CASE AudioStep
    BY <2>3, AudioStepRefines DEF SessionNext
  <2>4. ASSUME NEW i \in DOMAIN platformOps, SessionReset(i)
        PROVE  SessionNext
    BY <2>4 DEF SessionReset, SessionNext
  <2>5. CASE UNCHANGED vars
    BY <2>5 DEF vars, sessionVars
  <2>6. QED
    BY <2>1, <2>2, <2>3, <2>4, <2>5 DEF Next
<1>3. QED
  BY <1>1, <1>2, PTL DEF Spec, SessionSpec
=============================================================================
