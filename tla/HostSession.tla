----------------------------- MODULE HostSession -----------------------------
(***************************************************************************)
(* The host half of the authoritative core actor: the life cycle of one    *)
(* advertised session, the platform effects it waits for, the listeners it *)
(* has recorded and the failure it last published                          *)
(* (rust/silent-disco-core/src/runtime/actor_runtime/state).               *)
(*                                                                         *)
(* The actor handles one input at a time.  A handler works on a clone of   *)
(* the state that replaces the original only when the handler succeeds, so *)
(* a refused input changes nothing: it is an input whose action is not     *)
(* enabled here.  The role is Host throughout.                             *)
(*                                                                         *)
(* The actions below say what a handler does to the variables of this      *)
(* module.  HostPlayback and HostAdmission extend the module, add the      *)
(* state of playback and of admission, and say what the same handler does  *)
(* to that.  The parameter `others' of an action that starts an effect is  *)
(* the number of pending operations the extending module keeps.            *)
(* SessionSpec is the life cycle by itself, with the decisions of playback *)
(* and admission left open: both extending modules implement it.           *)
(***************************************************************************)
EXTENDS Integers, Sequences, FiniteSets

CONSTANTS
    Devices,        \* listener devices
    MaxListeners,   \* MAX_CONNECTED_LISTENERS
    MaxEffects,     \* MAX_PENDING_EFFECT_OPERATIONS
    MaxSessions     \* session identifiers that exist (next_session_id overflows past them)

ASSUME HostSessionAssumption ==
    /\ MaxListeners \in Nat \ {0}
    /\ MaxEffects \in Nat \ {0}
    /\ MaxSessions \in Nat \ {0}

VARIABLES
    lifecycle,      \* snapshot.host_lifecycle
    session,        \* host_session_id, NoSession when there is none
    nextSession,    \* next_session_sequence
    platformOps,    \* pending_platform, oldest first
    listeners,      \* snapshot.listeners (their device ids)
    lastError,      \* snapshot.last_error, by what retry and delivery look at
    recoverable     \* snapshot.recoverable_action

sessionVars ==
    <<lifecycle, session, nextSession, platformOps, listeners, lastError, recoverable>>

\* q without its i-th element.
Without(q, i) == SubSeq(q, 1, i - 1) \o SubSeq(q, i + 1, Len(q))

NoSession == 0

Lifecycles ==
    {"Idle", "CreatingSession", "Advertising", "WaitingForListeners", "Ready",
     "Streaming", "Paused", "EndingSession", "Error"}

\* The life cycles in which listeners are admitted and playback is controlled.
ActiveLifecycles == {"WaitingForListeners", "Ready", "Streaming", "Paused"}

\* "Delivery" is TransportDeliveryFailed, the code a later delivery clears.
Failures == {"Retryable", "Fatal", "Delivery"}

\* A stop names no session in the code; the field records who asked for it.
PlatformOps == [kind : {"StartAdvertising", "StopAdvertising"}, session : 1..MaxSessions]

SessionTypeOK ==
    /\ lifecycle \in Lifecycles
    /\ session \in 0..MaxSessions
    /\ nextSession \in 1..(MaxSessions + 1)
    /\ platformOps \in Seq(PlatformOps)
    /\ listeners \subseteq Devices
    /\ lastError \in Failures \cup {"None"}
    /\ recoverable \in {"None", "Retry", "ReselectAudioSource"}

SessionInit ==
    /\ lifecycle = "Idle"
    /\ session = NoSession
    /\ nextSession = 1
    /\ platformOps = <<>>
    /\ listeners = {}
    /\ lastError = "None"
    /\ recoverable = "None"

ClearFailure ==
    /\ lastError' = "None"
    /\ recoverable' = "None"

EffectCapacity(others) == Len(platformOps) + others < MaxEffects

\* The life cycle of a live session that is not streaming.
RestingLifecycle == IF listeners = {} THEN "WaitingForListeners" ELSE "Ready"

-----------------------------------------------------------------------------
(* Commands *)

StartAdvertising(s) ==
    platformOps' = Append(platformOps, [kind |-> "StartAdvertising", session |-> s])

\* Mutant: the session counter is not checked for overflow.
CreateUnchecked(others) ==
    /\ lifecycle \in {"Idle", "Error"}
    /\ EffectCapacity(others)
    /\ StartAdvertising(nextSession)
    /\ session' = nextSession
    /\ nextSession' = nextSession + 1
    /\ lifecycle' = "CreatingSession"
    /\ ClearFailure
    /\ UNCHANGED listeners

CreateHostSession(others) ==
    /\ lifecycle \in {"Idle", "Error"}
    /\ nextSession <= MaxSessions
    /\ EffectCapacity(others)
    /\ StartAdvertising(nextSession)
    /\ session' = nextSession
    /\ nextSession' = nextSession + 1
    /\ lifecycle' = "CreatingSession"
    /\ ClearFailure
    /\ UNCHANGED listeners

EndHostSession(others) ==
    /\ session # NoSession
    /\ lifecycle \notin {"Idle", "EndingSession"}
    /\ EffectCapacity(others)
    /\ platformOps' = Append(platformOps, [kind |-> "StopAdvertising", session |-> session])
    /\ lifecycle' = "EndingSession"
    /\ UNCHANGED <<session, nextSession, listeners, lastError, recoverable>>

\* retry_recoverable and the retry_host_session it leads to for a host.
RetryHostSession(others) ==
    /\ lastError \in {"Retryable", "Delivery"}
    /\ recoverable = "Retry"
    /\ platformOps = <<>>
    /\ others = 0
    /\ session # NoSession
    /\ StartAdvertising(session)
    /\ lifecycle' = "CreatingSession"
    /\ ClearFailure
    /\ UNCHANGED <<session, nextSession, listeners>>

\* retry_recoverable when the advertised action is not one the actor performs.
AcknowledgeFailure ==
    /\ lastError \in {"Retryable", "Delivery"}
    /\ recoverable = "ReselectAudioSource"
    /\ ClearFailure
    /\ UNCHANGED <<lifecycle, session, nextSession, platformOps, listeners>>

-----------------------------------------------------------------------------
(* Completions of platform effects: i is the position of a pending operation *)

\* Mutant: a start is taken for the current session whatever session it was for.
AnyAdvertisingStarted(i) ==
    /\ platformOps[i].kind = "StartAdvertising"
    /\ platformOps' = Without(platformOps, i)
    /\ lifecycle' = "WaitingForListeners"
    /\ ClearFailure
    /\ UNCHANGED <<session, nextSession, listeners>>

AdvertisingStarted(i) ==
    /\ platformOps[i] = [kind |-> "StartAdvertising", session |-> session]
    /\ platformOps' = Without(platformOps, i)
    /\ lifecycle' = "WaitingForListeners"
    /\ ClearFailure
    /\ UNCHANGED <<session, nextSession, listeners>>

\* The part of reset_host_session that concerns this module.
AdvertisingStopped(i) ==
    /\ platformOps[i].kind = "StopAdvertising"
    /\ platformOps' = Without(platformOps, i)
    /\ session' = NoSession
    /\ lifecycle' = "Idle"
    /\ listeners' = {}
    /\ ClearFailure
    /\ UNCHANGED nextSession


AdvertisingFailed(i, retryable) ==
    /\ platformOps' = Without(platformOps, i)
    /\ lifecycle' = "Error"
    /\ lastError' = IF retryable THEN "Retryable" ELSE "Fatal"
    /\ recoverable' = IF retryable THEN "Retry" ELSE "None"
    /\ UNCHANGED <<session, nextSession, listeners>>

-----------------------------------------------------------------------------
(* Transport events *)

\* TransportEvent::StateChanged(Advertising)
TransportAdvertising ==
    /\ lifecycle = "CreatingSession"
    /\ lifecycle' = "Advertising"
    /\ UNCHANGED <<session, nextSession, platformOps, listeners, lastError, recoverable>>

TransportFailed(retryable) ==
    /\ lifecycle' = "Error"
    /\ lastError' = IF retryable THEN "Retryable" ELSE "Fatal"
    /\ recoverable' = IF retryable THEN "Retry" ELSE "None"
    /\ UNCHANGED <<session, nextSession, platformOps, listeners>>

RecordListener(d) ==
    /\ d \in listeners \/ Cardinality(listeners) < MaxListeners
    /\ listeners' = listeners \cup {d}
    /\ lifecycle' = IF lifecycle = "WaitingForListeners" THEN "Ready" ELSE lifecycle
    /\ UNCHANGED <<session, nextSession, platformOps, lastError, recoverable>>

\* error is "None" for an orderly disconnect.
RecordListenerDisconnect(d, error) ==
    /\ listeners' = listeners \ {d}
    /\ lifecycle' = IF d \in listeners /\ listeners = {d} /\ lifecycle = "Ready"
                    THEN "WaitingForListeners" ELSE lifecycle
    /\ lastError' = IF error = "None" THEN lastError ELSE error
    /\ UNCHANGED <<session, nextSession, platformOps, recoverable>>

\* The listener an approval delivered to d adds; the life cycle is left alone.
RecordApprovedListener(d) ==
    /\ d \in listeners \/ Cardinality(listeners) < MaxListeners
    /\ listeners' = listeners \cup {d}
    /\ UNCHANGED <<lifecycle, session, nextSession, platformOps>>

\* The listener a delivered DisconnectListener removes; the life cycle is left alone.
RecordRemovedListener(d) ==
    /\ d \in listeners
    /\ listeners' = listeners \ {d}
    /\ UNCHANGED <<lifecycle, session, nextSession, platformOps>>

-----------------------------------------------------------------------------
(* What playback and admission do to the session *)

\* A queue or draft edit that is accepted clears the published failure.
DraftEdited ==
    /\ ClearFailure
    /\ UNCHANGED <<lifecycle, session, nextSession, platformOps, listeners>>

\* A failure that is published without offering an action of its own.
FailureRecorded(error) ==
    /\ lastError' = error
    /\ UNCHANGED <<lifecycle, session, nextSession, platformOps, listeners, recoverable>>

PlaybackBuffering ==
    /\ session # NoSession => lifecycle \in {"Ready", "WaitingForListeners"}
    /\ ClearFailure
    /\ UNCHANGED <<lifecycle, session, nextSession, platformOps, listeners>>

\* Playback starts, pauses, or stops and leaves the session resting.
PlaybackControlled(to) ==
    /\ session # NoSession
    /\ lifecycle \in IF to = "Paused" THEN {"Streaming"} ELSE ActiveLifecycles
    /\ lifecycle' = to
    /\ UNCHANGED <<session, nextSession, platformOps, listeners, lastError, recoverable>>

\* A playback failure: a retryable one leaves the session open for another Play.
PlaybackFailed(error) ==
    /\ lastError' = error
    /\ IF session = NoSession
       THEN UNCHANGED <<lifecycle, recoverable>>
       ELSE \/ /\ error = "Retryable"
               /\ lifecycle' = RestingLifecycle
               /\ recoverable' = "Retry"
            \/ /\ lifecycle' = "Error"
               /\ recoverable' = "ReselectAudioSource"
    /\ UNCHANGED <<session, nextSession, platformOps, listeners>>

PlaybackEvent ==
    \/ PlaybackBuffering
    \/ \E to \in {"Streaming", "Paused", RestingLifecycle} : PlaybackControlled(to)
    \/ \E error \in {"Retryable", "Fatal", lastError} : PlaybackFailed(error)

\* A delivery that reached its peer clears an earlier failed delivery.
DeliverySucceeded ==
    /\ lastError' = IF lastError = "Delivery" THEN "None" ELSE lastError
    /\ UNCHANGED recoverable

ListenerEvent(d) ==
    \/ RecordListener(d)
    \/ \E error \in {"None", "Retryable", "Fatal"} : RecordListenerDisconnect(d, error)
    \/ RecordApprovedListener(d) /\ DeliverySucceeded
    \/ RecordRemovedListener(d) /\ DeliverySucceeded

AdmissionEvent ==
    \/ DeliverySucceeded /\ UNCHANGED <<lifecycle, session, nextSession, platformOps, listeners>>
    \/ \E error \in Failures : FailureRecorded(error)

SessionNext ==
    \/ CreateHostSession(0)
    \/ EndHostSession(0)
    \/ RetryHostSession(0)
    \/ AcknowledgeFailure
    \/ \E i \in DOMAIN platformOps :
          \/ AdvertisingStarted(i)
          \/ AdvertisingStopped(i)
          \/ \E retryable \in BOOLEAN : AdvertisingFailed(i, retryable)
    \/ TransportAdvertising
    \/ \E retryable \in BOOLEAN : TransportFailed(retryable)
    \/ \E d \in Devices : ListenerEvent(d)
    \/ DraftEdited
    \/ PlaybackEvent
    \/ AdmissionEvent

SessionSpec == SessionInit /\ [][SessionNext]_sessionVars

\* The platform completes a stop it was asked for, one way or the other.
StopSettled ==
    \E i \in DOMAIN platformOps :
       /\ platformOps[i].kind = "StopAdvertising"
       /\ \/ AdvertisingStopped(i)
          \/ \E retryable \in BOOLEAN : AdvertisingFailed(i, retryable)

FairSessionSpec == SessionSpec /\ WF_sessionVars(StopSettled)

-----------------------------------------------------------------------------
(* Properties *)

\* A life cycle in which listeners are admitted or playback is controlled
\* belongs to a session, and an idle host has none: no late completion of
\* another session's effect (apply_platform_success) revives a session.
SessionMatchesLifecycle ==
    /\ session = NoSession => lifecycle \in {"Idle", "Error"}
    /\ lifecycle = "Idle" => session = NoSession

=============================================================================
