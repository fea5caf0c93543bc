------------------------- MODULE HostSessionProofs ---------------------------
(***************************************************************************)
(* Proofs about the life cycle of a host session, for any number of        *)
(* devices and sessions and any bound on pending effects.                  *)
(***************************************************************************)
EXTENDS HostSession, TLAPS

\* Removing one element of a sequence leaves a sequence over the same set.
LEMMA WithoutType ==
    ASSUME NEW S, NEW q \in Seq(S), NEW i \in DOMAIN q
    PROVE  Without(q, i) \in Seq(S)
BY DEF Without

\* Every handler keeps the session's variables in their types.
LEMMA SessionStepType ==
    ASSUME SessionTypeOK, [SessionNext]_sessionVars
    PROVE  SessionTypeOK'
<1> USE HostSessionAssumption DEF SessionTypeOK, PlatformOps, Lifecycles, Failures
<1>1. CASE CreateHostSession(0)
  BY <1>1 DEF CreateHostSession, StartAdvertising, ClearFailure
<1>2. CASE EndHostSession(0)
  BY <1>2 DEF EndHostSession, NoSession
<1>3. CASE RetryHostSession(0)
  BY <1>3 DEF RetryHostSession, StartAdvertising, ClearFailure, NoSession
<1>4. CASE AcknowledgeFailure \/ DraftEdited
  BY <1>4 DEF AcknowledgeFailure, DraftEdited, ClearFailure
<1>5. ASSUME NEW i \in DOMAIN platformOps,
             \/ AdvertisingStarted(i)
             \/ AdvertisingStopped(i)
             \/ \E retryable \in BOOLEAN : AdvertisingFailed(i, retryable)
      PROVE  SessionTypeOK'
  <2>1. Without(platformOps, i) \in Seq(PlatformOps)
    BY WithoutType
  <2>2. 0 \in 0..MaxSessions
    OBVIOUS
  <2>3. CASE AdvertisingStarted(i)
    BY <2>1, <2>3 DEF AdvertisingStarted, ClearFailure
  <2>4. CASE AdvertisingStopped(i)
    BY <2>1, <2>2, <2>4 DEF AdvertisingStopped, ClearFailure, NoSession
  <2>5. ASSUME NEW retryable \in BOOLEAN, AdvertisingFailed(i, retryable)
        PROVE  SessionTypeOK'
    BY <2>1, <2>5 DEF AdvertisingFailed
  <2>6. QED
    BY <1>5, <2>3, <2>4, <2>5
<1>6. CASE TransportAdvertising
  BY <1>6 DEF TransportAdvertising
<1>7. ASSUME NEW retryable \in BOOLEAN, TransportFailed(retryable)
      PROVE  SessionTypeOK'
  BY <1>7 DEF TransportFailed
<1>8. ASSUME NEW d \in Devices, ListenerEvent(d)
      PROVE  SessionTypeOK'
  BY <1>8 DEF ListenerEvent, RecordListener, RecordListenerDisconnect, RecordApprovedListener,
              RecordRemovedListener, DeliverySucceeded
<1>9. CASE PlaybackEvent
  <2>1. RestingLifecycle \in Lifecycles
    BY DEF RestingLifecycle
  <2>2. CASE PlaybackBuffering
    BY <2>2 DEF PlaybackBuffering, ClearFailure
  <2>3. ASSUME NEW to \in {"Streaming", "Paused", RestingLifecycle}, PlaybackControlled(to)
        PROVE  SessionTypeOK'
    BY <2>1, <2>3 DEF PlaybackControlled
  <2>4. ASSUME NEW error \in {"Retryable", "Fatal", lastError}, PlaybackFailed(error)
        PROVE  SessionTypeOK'
    BY <2>1, <2>4 DEF PlaybackFailed
  <2>5. QED
    BY <1>9, <2>2, <2>3, <2>4 DEF PlaybackEvent
<1>10. CASE AdmissionEvent
  BY <1>10 DEF AdmissionEvent, DeliverySucceeded, FailureRecorded
<1>11. CASE UNCHANGED sessionVars
  BY <1>11 DEF sessionVars
<1>12. QED
  BY <1>1, <1>2, <1>3, <1>4, <1>5, <1>6, <1>7, <1>8, <1>9, <1>10, <1>11 DEF SessionNext

\* The state of the session always has its type: sessions are numbered within
\* their bound and every pending effect names a session that was issued.
THEOREM SessionTypeCorrect == SessionSpec => []SessionTypeOK
<1>1. SessionInit => SessionTypeOK
  <2>1. <<>> \in Seq(PlatformOps)
    OBVIOUS
  <2>2. QED
    BY <2>1, HostSessionAssumption
       DEF SessionInit, SessionTypeOK, Lifecycles, Failures, NoSession
<1>2. QED
  BY <1>1, SessionStepType, PTL DEF SessionSpec

-----------------------------------------------------------------------------

\* One step keeps the agreement of session and life cycle.
LEMMA LifecycleStep ==
    ASSUME SessionTypeOK, SessionMatchesLifecycle, [SessionNext]_sessionVars
    PROVE  SessionMatchesLifecycle'
<1> USE DEF SessionMatchesLifecycle, NoSession
<1>1. CASE CreateHostSession(0)
  BY <1>1 DEF SessionTypeOK, CreateHostSession
<1>2. CASE EndHostSession(0) \/ RetryHostSession(0)
  BY <1>2 DEF EndHostSession, RetryHostSession
<1>3. CASE AcknowledgeFailure \/ DraftEdited
  BY <1>3 DEF AcknowledgeFailure, DraftEdited
<1>4. ASSUME NEW i \in DOMAIN platformOps,
             \/ AdvertisingStarted(i)
             \/ AdvertisingStopped(i)
             \/ \E retryable \in BOOLEAN : AdvertisingFailed(i, retryable)
      PROVE  SessionMatchesLifecycle'
  <2>1. CASE AdvertisingStarted(i)
    <3>1. platformOps[i] \in PlatformOps
      BY DEF SessionTypeOK
    <3>2. session # 0
      BY <2>1, <3>1 DEF AdvertisingStarted, PlatformOps
    <3>3. QED
      BY <2>1, <3>2 DEF AdvertisingStarted
  <2>2. CASE AdvertisingStopped(i)
    BY <2>2 DEF AdvertisingStopped
  <2>3. CASE \E retryable \in BOOLEAN : AdvertisingFailed(i, retryable)
    BY <2>3 DEF AdvertisingFailed
  <2>4. QED
    BY <1>4, <2>1, <2>2, <2>3
<1>5. CASE TransportAdvertising \/ \E retryable \in BOOLEAN : TransportFailed(retryable)
  BY <1>5 DEF TransportAdvertising, TransportFailed
<1>6. ASSUME NEW d \in Devices, ListenerEvent(d)
      PROVE  SessionMatchesLifecycle'
  BY <1>6 DEF ListenerEvent, RecordListener, RecordListenerDisconnect, RecordApprovedListener,
              RecordRemovedListener
<1>7. CASE PlaybackEvent
  BY <1>7 DEF PlaybackEvent, PlaybackBuffering, PlaybackControlled, PlaybackFailed,
              RestingLifecycle, ActiveLifecycles
<1>8. CASE AdmissionEvent \/ UNCHANGED sessionVars
  BY <1>8 DEF AdmissionEvent, FailureRecorded, sessionVars
<1>9. QED
  BY <1>1, <1>2, <1>3, <1>4, <1>5, <1>6, <1>7, <1>8 DEF SessionNext

\* A host admits listeners and plays only in a session, and is idle only
\* without one, however late the completions of earlier effects arrive.
THEOREM SessionAlwaysMatchesLifecycle == SessionSpec => []SessionMatchesLifecycle
<1>1. SessionInit => SessionMatchesLifecycle
  BY DEF SessionInit, SessionMatchesLifecycle
<1>2. QED
  BY <1>1, LifecycleStep, SessionTypeCorrect, PTL DEF SessionSpec
=============================================================================
