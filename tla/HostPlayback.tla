---------------------------- MODULE HostPlayback -----------------------------
(***************************************************************************)
(* The host queue and the playback half of the core actor: queue edits     *)
(* (runtime/playlist.rs and state/commands.rs), the audio events that the  *)
(* platform's pump and packetizer threads submit (state/audio.rs,          *)
(* state/host_audio_control.rs and apply_audio_with_host_lifecycle), and   *)
(* the reservation of track boundaries (state/reservation.rs).             *)
(*                                                                         *)
(* An entry is its id; SourceOf gives the descriptor it was queued with.   *)
(* An edit is an input that carries the current snapshot and queue         *)
(* revisions: one that does not is refused and changes nothing.            *)
(* Any audio event may arrive at any time, from any stream: the threads    *)
(* that submit them outlive a Stop, a new Play and the end of the session. *)
(***************************************************************************)
EXTENDS HostSession

CONSTANTS
    EntryIds,       \* queue entry ids
    Sources,        \* audio sources; a draft's source is queued under its own id
    SourceOf,       \* the source of an entry
    Streams,        \* stream ids
    MaxQueue,       \* MAX_HOST_QUEUE_ENTRIES
    MaxSources,     \* MAX_HOST_QUEUE_SOURCE_BYTES, counted in sources of one size
    MaxRetired,     \* MAX_RETIRED_AUDIO_STREAM_IDS
    MaxSample,      \* largest first_sample_index of a boundary
    MaxPosition     \* largest position_ms

NoSource == "NoSource"
NoStream == "NoStream"
NoBoundary == [entry |-> "none", sample |-> 0]

ASSUME HostPlaybackAssumption ==
    /\ SourceOf \in [EntryIds -> Sources]
    /\ \A s \in Sources : s \in EntryIds /\ SourceOf[s] = s
    /\ NoSource \notin Sources
    /\ NoStream \notin Streams
    /\ MaxQueue \in Nat \ {0}
    /\ MaxSources \in Nat \ {0}
    /\ MaxRetired \in Nat \ {0}
    /\ MaxSample \in Nat
    /\ MaxPosition \in Nat

VARIABLES
    queue,          \* snapshot.host_queue.entries, the current entry first
    source,         \* snapshot.host_draft.audio_source
    playback,       \* snapshot.playback_state
    position,       \* snapshot.playback_position_ms
    stream,         \* active_audio_stream_id
    retired,        \* retired_audio_stream_ids, oldest first
    boundaries,     \* pending_host_boundaries
    nextBoundary,   \* snapshot.host_queue_next_boundary
    endedNaturally  \* snapshot.stream_ended_naturally

queueVars == <<queue, source>>
streamVars == <<stream, retired>>
boundaryVars == <<boundaries, nextBoundary>>
playbackVars ==
    <<queue, source, playback, position, stream, retired, boundaries, nextBoundary,
      endedNaturally>>
vars == <<sessionVars, playbackVars>>

PlaybackStates ==
    {"Stopped", "Buffering", "Ready", "Playing", "Paused", "Underrun", "Error"}

\* The states in which an edit may not touch the current entry.
LockedStates == {"Playing", "Paused", "Buffering", "Underrun"}

Boundaries == [entry : EntryIds, sample : 1..MaxSample]

TypeOK ==
    /\ SessionTypeOK
    /\ queue \in Seq(EntryIds)
    /\ source \in Sources \cup {NoSource}
    /\ playback \in PlaybackStates
    /\ position \in 0..MaxPosition
    /\ stream \in Streams \cup {NoStream}
    /\ retired \in Seq(Streams)
    /\ boundaries \in Seq(Boundaries)
    /\ nextBoundary \in Boundaries \cup {NoBoundary}
    /\ endedNaturally \in BOOLEAN

Init ==
    /\ SessionInit
    /\ queue = <<>>
    /\ source = NoSource
    /\ playback = "Stopped"
    /\ position = 0
    /\ stream = NoStream
    /\ retired = <<>>
    /\ boundaries = <<>>
    /\ nextBoundary = NoBoundary
    /\ endedNaturally = FALSE

-----------------------------------------------------------------------------
(* Helpers of the handlers *)

\* The source of the current entry of a queue.
CurrentSource(q) == IF q = <<>> THEN NoSource ELSE SourceOf[q[1]]

Earliest(bs) == IF bs = <<>> THEN NoBoundary ELSE bs[1]

ClearReservations ==
    /\ boundaries' = <<>>
    /\ nextBoundary' = NoBoundary

\* retired_audio_stream_ids once the active stream is retired.
RetiredWithActive ==
    IF stream = NoStream \/ \E i \in DOMAIN retired : retired[i] = stream
    THEN retired
    ELSE Append(IF Len(retired) = MaxRetired THEN Tail(retired) ELSE retired, stream)

RetireActiveStream ==
    /\ ClearReservations
    /\ stream' = NoStream
    /\ retired' = RetiredWithActive

IsRetired(s) == \E i \in DOMAIN retired : retired[i] = s

\* Reservations are the entries right behind the current one of q, in order.
ReservedPrefix(q) ==
    \A i \in DOMAIN boundaries : i + 1 \in DOMAIN q /\ q[i + 1] = boundaries[i].entry

\* Mutant: reservations outlive the entries they were made for.
KeepStaleBoundary == UNCHANGED boundaryVars

ClearStaleBoundary ==
    IF ReservedPrefix(queue') THEN UNCHANGED boundaryVars ELSE ClearReservations

-----------------------------------------------------------------------------
(* Queue edits *)

Distinct(q) == \A i, j \in DOMAIN q : q[i] = q[j] => i = j

\* A source counts once however many entries play it.
SourcesFit(q) == Cardinality({SourceOf[q[i]] : i \in DOMAIN q}) <= MaxSources

QueueEditable == lifecycle # "EndingSession"

\* Mutant: an underrun unlocks the current entry.
CurrentLockedWhilePlaying == playback \in {"Playing", "Paused", "Buffering"}

CurrentLocked == playback \in LockedStates

ReplaceQueue(q) ==
    /\ queue' = q
    /\ source' = CurrentSource(q)
    /\ ClearFailure
    /\ UNCHANGED <<lifecycle, session, nextSession, platformOps, listeners, playback,
                   position, streamVars, endedNaturally>>

EditQueue(q) == ReplaceQueue(q) /\ ClearStaleBoundary

\* The prepared entries are appended together or not at all.
AppendHostQueue(entries) ==
    /\ QueueEditable
    /\ Len(queue) + Len(entries) <= MaxQueue
    /\ Distinct(queue \o entries)
    /\ SourcesFit(queue \o entries)
    /\ EditQueue(queue \o entries)

\* p permutes the positions of the queue.
ReorderHostQueue(p) ==
    LET reordered == [i \in DOMAIN queue |-> queue[p[i]]]
    IN  /\ QueueEditable
        /\ p \in [DOMAIN queue -> DOMAIN queue]
        /\ \A i, j \in DOMAIN queue : p[i] = p[j] => i = j
        /\ ReservedPrefix(reordered)
        /\ CurrentLocked /\ queue # <<>> => reordered[1] = queue[1]
        /\ EditQueue(reordered)

RemoveHostQueueEntry(i) ==
    /\ QueueEditable
    /\ i \in DOMAIN queue
    /\ \A j \in DOMAIN boundaries : boundaries[j].entry # queue[i]
    /\ CurrentLocked => i # 1
    /\ EditQueue(Without(queue, i))

ClearHostQueue ==
    /\ QueueEditable
    /\ boundaries = <<>>
    /\ ReplaceQueue(IF CurrentLocked /\ queue # <<>> THEN <<queue[1]>> ELSE <<>>)
    /\ ClearReservations

DraftEditable ==
    \/ lifecycle \in {"Idle", "Error"}
    \/ lifecycle \in {"Ready", "WaitingForListeners"} /\ playback = "Stopped"

\* update_host_draft with a patch that changes the audio source.
UpdateHostDraft(s) ==
    /\ DraftEditable
    /\ s # source
    /\ EditQueue(IF s = NoSource THEN <<>> ELSE <<s>>)

\* update_host_draft with a patch that leaves the audio source as it is.
PatchHostDraft ==
    /\ DraftEditable
    /\ ClearFailure
    /\ UNCHANGED <<lifecycle, session, nextSession, platformOps, listeners, playbackVars>>

-----------------------------------------------------------------------------
(* Playback state reported by the platform *)

\* Mutant: a playback event is taken at face value.
AnyStateChange(s) == TRUE

\* The guards of apply_audio_control, which hold only while a session exists.
StateChangePermitted(s) ==
    CASE s = "Buffering" -> /\ lifecycle \in {"Ready", "WaitingForListeners"}
                            /\ playback \in {"Stopped", "Ready", "Error"}
      [] s = "Playing"   -> /\ lifecycle \in ActiveLifecycles
                            /\ playback \in {"Stopped", "Ready", "Buffering", "Paused", "Playing"}
      [] s = "Paused"    -> lifecycle = "Streaming" /\ playback = "Playing"
      [] s = "Stopped"   -> lifecycle \in ActiveLifecycles
      [] s = "Ready"     -> playback \in {"Buffering", "Ready"}
      [] OTHER           -> TRUE

\* The life cycle after playback enters s during a session.
LifecycleAfter(s) ==
    CASE s = "Playing" -> "Streaming"
      [] s = "Paused"  -> "Paused"
      [] s = "Stopped" -> RestingLifecycle
      [] s = "Error"   -> "Error"
      [] OTHER         -> lifecycle

\* Playing from any state but these two starts a new stream.
FreshStart(s) == s = "Playing" /\ playback \notin {"Paused", "Playing"}

PlaybackStateChanged(s) ==
    /\ session # NoSession => StateChangePermitted(s)
    /\ IF FreshStart(s) \/ s \in {"Stopped", "Error"}
       THEN RetireActiveStream
       ELSE UNCHANGED <<streamVars, boundaryVars>>
    /\ position' = IF FreshStart(s) \/ s = "Stopped" THEN 0 ELSE position
    /\ endedNaturally' = (endedNaturally /\ ~FreshStart(s))
    /\ playback' = s
    /\ lifecycle' = IF session = NoSession THEN lifecycle ELSE LifecycleAfter(s)
    /\ lastError' = IF s = "Buffering" THEN "None" ELSE lastError
    /\ recoverable' = CASE s = "Buffering" -> "None"
                        [] s = "Error" /\ session # NoSession -> "ReselectAudioSource"
                        [] OTHER -> recoverable
    /\ UNCHANGED <<session, nextSession, platformOps, listeners, queueVars>>

\* Mutant: a buffered start does not look at the retired streams.
BufferedStartOfAny(s) ==
    /\ session # NoSession
    /\ playback = "Buffering"
    /\ lifecycle \in ActiveLifecycles
    /\ ClearReservations
    /\ retired' = RetiredWithActive
    /\ stream' = s
    /\ position' = 0
    /\ playback' = "Playing"
    /\ endedNaturally' = FALSE
    /\ lifecycle' = "Streaming"
    /\ UNCHANGED <<session, nextSession, platformOps, listeners, lastError, recoverable, queueVars>>

\* Position zero of a buffered stream starts it and binds its id in one input.
BufferedStart(s) ==
    /\ session # NoSession
    /\ playback = "Buffering"
    /\ lifecycle \in ActiveLifecycles
    /\ ClearReservations
    /\ \A i \in DOMAIN RetiredWithActive : RetiredWithActive[i] # s
    /\ retired' = RetiredWithActive
    /\ stream' = s
    /\ position' = 0
    /\ playback' = "Playing"
    /\ endedNaturally' = FALSE
    /\ lifecycle' = "Streaming"
    /\ UNCHANGED <<session, nextSession, platformOps, listeners, lastError, recoverable, queueVars>>

\* Mutant: late progress may move the position back.
PositionReported(s, p) ==
    /\ playback \in {"Playing", "Paused"}
    /\ ~IsRetired(s)
    /\ stream \in {s, NoStream}
    /\ stream' = s
    /\ position' = p
    /\ UNCHANGED <<sessionVars, queueVars, playback, retired, boundaryVars, endedNaturally>>

PositionAdvanced(s, p) ==
    /\ playback \in {"Playing", "Paused"}
    /\ ~IsRetired(s)
    /\ stream \in {s, NoStream}
    /\ p >= position
    /\ stream' = s
    /\ position' = p
    /\ UNCHANGED <<sessionVars, queueVars, playback, retired, boundaryVars, endedNaturally>>

\* The consumer ran dry: the reservations go, the stream stays bound.
Underrun ==
    /\ playback' = "Underrun"
    /\ ClearReservations
    /\ UNCHANGED <<sessionVars, queueVars, position, streamVars, endedNaturally>>

AudioFailed(retryable) ==
    /\ RetireActiveStream
    /\ playback' = "Error"
    /\ lastError' = IF retryable THEN "Retryable" ELSE "Fatal"
    /\ IF session = NoSession
       THEN UNCHANGED <<lifecycle, recoverable>>
       ELSE /\ lifecycle' = IF retryable THEN RestingLifecycle ELSE "Error"
            /\ recoverable' = IF retryable THEN "Retry" ELSE "ReselectAudioSource"
    /\ UNCHANGED <<session, nextSession, platformOps, listeners, queueVars, position,
                   endedNaturally>>

-----------------------------------------------------------------------------
(* Track boundaries and the end of a stream *)

\* Mutant: a boundary may be reserved at sample zero.
BoundaryScheduledAnywhere(entry, sample) ==
    /\ playback \in {"Playing", "Paused"}
    /\ \A i \in DOMAIN boundaries : boundaries[i].entry # entry
    /\ Len(boundaries) + 2 \in DOMAIN queue
    /\ queue[Len(boundaries) + 2] = entry
    /\ boundaries # <<>> => boundaries[Len(boundaries)].sample < sample
    /\ boundaries' = Append(boundaries, [entry |-> entry, sample |-> sample])
    /\ nextBoundary' = Earliest(boundaries')
    /\ UNCHANGED <<sessionVars, queueVars, playback, position, streamVars, endedNaturally>>

\* A submitted TrackBoundaryScheduled; the same one again changes nothing.
TrackBoundaryScheduled(entry, sample) ==
    /\ playback \in {"Playing", "Paused"}
    /\ \A i \in DOMAIN boundaries : boundaries[i].entry # entry
    /\ Len(boundaries) + 2 \in DOMAIN queue
    /\ queue[Len(boundaries) + 2] = entry
    /\ sample > 0
    /\ boundaries # <<>> => boundaries[Len(boundaries)].sample < sample
    /\ boundaries' = Append(boundaries, [entry |-> entry, sample |-> sample])
    /\ nextBoundary' = Earliest(boundaries')
    /\ UNCHANGED <<sessionVars, queueVars, playback, position, streamVars, endedNaturally>>

\* The producer's synchronous reservation, refused for any but the active stream.
ReserveTrackBoundary(s, entry, sample) ==
    /\ stream = s
    /\ TrackBoundaryScheduled(entry, sample)

\* Mutant: the next reservation is not published after a boundary.
BoundaryAppliedUnpublished(entry, sample) ==
    /\ playback = "Playing"
    /\ Len(queue) > 1
    /\ queue[2] = entry
    /\ boundaries # <<>>
    /\ boundaries[1] = [entry |-> entry, sample |-> sample]
    /\ queue' = Tail(queue)
    /\ source' = CurrentSource(Tail(queue))
    /\ boundaries' = Tail(boundaries)
    /\ UNCHANGED <<sessionVars, playback, position, streamVars, nextBoundary, endedNaturally>>

\* Mutant: the draft keeps the source of the track that ended.
BoundaryAppliedUnmirrored(entry, sample) ==
    /\ playback = "Playing"
    /\ Len(queue) > 1
    /\ queue[2] = entry
    /\ boundaries # <<>>
    /\ boundaries[1] = [entry |-> entry, sample |-> sample]
    /\ queue' = Tail(queue)
    /\ boundaries' = Tail(boundaries)
    /\ nextBoundary' = Earliest(boundaries')
    /\ UNCHANGED <<sessionVars, source, playback, position, streamVars, endedNaturally>>

TrackBoundaryApplied(entry, sample) ==
    /\ playback = "Playing"
    /\ Len(queue) > 1
    /\ queue[2] = entry
    /\ boundaries # <<>>
    /\ boundaries[1] = [entry |-> entry, sample |-> sample]
    /\ queue' = Tail(queue)
    /\ source' = CurrentSource(Tail(queue))
    /\ boundaries' = Tail(boundaries)
    /\ nextBoundary' = Earliest(boundaries')
    /\ UNCHANGED <<sessionVars, playback, position, streamVars, endedNaturally>>

EndOfStream(s) ==
    /\ session # NoSession => lifecycle \in ActiveLifecycles
    /\ ~IsRetired(s)
    /\ stream \in {s, NoStream}
    /\ playback = "Playing"
    /\ IF Len(queue) > 1 \/ nextBoundary # NoBoundary
       THEN /\ position' = 0
            /\ endedNaturally' = FALSE
            /\ UNCHANGED queueVars
       ELSE /\ queue' = <<>>
            /\ source' = NoSource
            /\ endedNaturally' = TRUE
            /\ UNCHANGED position
    /\ RetireActiveStream
    /\ playback' = "Stopped"
    /\ lifecycle' = IF session = NoSession THEN lifecycle ELSE RestingLifecycle
    /\ UNCHANGED <<session, nextSession, platformOps, listeners, lastError, recoverable>>

-----------------------------------------------------------------------------
(* The session under the queue *)

\* reset_host_session: the part of it that concerns playback.
SessionReset(i) ==
    /\ AdvertisingStopped(i)
    /\ queue' = <<>>
    /\ source' = NoSource
    /\ playback' = "Stopped"
    /\ position' = 0
    /\ RetireActiveStream
    /\ UNCHANGED endedNaturally

\* Admission, advertising and transport handlers leave playback alone.
SessionStep ==
    /\ \/ source # NoSource /\ CreateHostSession(0)
       \/ EndHostSession(0)
       \/ source # NoSource /\ RetryHostSession(0)
       \/ AcknowledgeFailure
       \/ \E i \in DOMAIN platformOps :
             \/ AdvertisingStarted(i)
             \/ \E retryable \in BOOLEAN : AdvertisingFailed(i, retryable)
       \/ TransportAdvertising
       \/ \E retryable \in BOOLEAN : TransportFailed(retryable)
       \/ \E d \in Devices : ListenerEvent(d)
       \/ AdmissionEvent
    /\ UNCHANGED playbackVars

QueueStep ==
    \/ \E n \in 0..MaxQueue : \E entries \in [1..n -> EntryIds] : AppendHostQueue(entries)
    \/ \E p \in [DOMAIN queue -> DOMAIN queue] : ReorderHostQueue(p)
    \/ \E i \in DOMAIN queue : RemoveHostQueueEntry(i)
    \/ ClearHostQueue
    \/ \E s \in Sources \cup {NoSource} : UpdateHostDraft(s)
    \/ PatchHostDraft

AudioStep ==
    \/ \E s \in PlaybackStates : PlaybackStateChanged(s)
    \/ Underrun
    \/ \E retryable \in BOOLEAN : AudioFailed(retryable)
    \/ \E s \in Streams :
          \/ BufferedStart(s)
          \/ \E p \in 0..MaxPosition : PositionAdvanced(s, p)
          \/ EndOfStream(s)
          \/ \E e \in EntryIds, i \in 0..MaxSample : ReserveTrackBoundary(s, e, i)
    \/ \E e \in EntryIds, i \in 0..MaxSample :
          \/ TrackBoundaryScheduled(e, i)
          \/ TrackBoundaryApplied(e, i)

Next ==
    \/ SessionStep
    \/ QueueStep
    \/ AudioStep
    \/ \E i \in DOMAIN platformOps : SessionReset(i)

Spec == Init /\ [][Next]_vars

-----------------------------------------------------------------------------
(* Properties *)

\* Reservations name exactly the entries right behind the current one, at
\* strictly increasing sample positions, however edits, boundaries, stops and
\* resets interleave with the producer that makes them.
ReservationsFollowQueue ==
    /\ ReservedPrefix(queue)
    /\ \A i, j \in DOMAIN boundaries : i < j => boundaries[i].sample < boundaries[j].sample

\* What the snapshot publishes as the next boundary is the earliest pending
\* reservation, the one EndOfStream and the user interface rely on.
PublishedBoundaryIsEarliest == nextBoundary = Earliest(boundaries)

\* The draft's audio source, which older adapters read, is the source of the
\* current queue entry (sync_legacy_audio_source and its inlined copies).
SourceMirrorsCurrent == source = CurrentSource(queue)

\* A stream that has been retired is never the active one again while it is
\* remembered, so its late progress and its late end of stream are refused.
ActiveStreamIsNotRetired ==
    /\ Len(retired) <= MaxRetired
    /\ Distinct(retired)
    /\ stream # NoStream => ~IsRetired(stream)

\* While a live session plays, pauses, buffers or runs dry, the track that is
\* audible stays the current entry.  Only the boundary that was reserved first
\* replaces it, and only while playing: no queue edit and no late event does.
AudibleTrackIsStable ==
    [][(/\ queue # <<>>
        /\ lifecycle \notin {"Idle", "Error", "EndingSession"}
        /\ {playback, playback'} \subseteq LockedStates)
       => \/ queue' # <<>> /\ queue'[1] = queue[1]
          \/ /\ playback = "Playing"
             /\ boundaries # <<>>
             /\ boundaries' = Tail(boundaries)
             /\ queue' = Tail(queue)
             /\ queue'[1] = boundaries[1].entry]_vars

\* The position of one stream never goes back, whatever late progress arrives.
PositionIsMonotone ==
    [][stream # NoStream /\ stream' = stream => position' >= position]_vars
=============================================================================
