---------------------------- MODULE HostAdmission ----------------------------
(***************************************************************************)
(* Admission of listeners by the core actor (actor_runtime/state/          *)
(* admission.rs and runtime/host_admission.rs): join requests, the host's  *)
(* decisions on them, the durable write that precedes a remembered         *)
(* approval, the deliveries that commit a decision, and the removal of a   *)
(* listener.                                                               *)
(*                                                                         *)
(* Every join that reaches the actor carries a new request id.  A request  *)
(* is what the policy looks at: its id, its device, whether the host has   *)
(* verified the device as trusted and whether the invite code was right,   *)
(* which it always is where the adapters ask for no code.                  *)
(* An effect completes at any later time, with success or failure, and     *)
(* the device may disconnect before it does.                               *)
(***************************************************************************)
EXTENDS HostSession

CONSTANTS
    MaxRequests,    \* MAX_PENDING_JOIN_REQUESTS
    MaxJoins        \* join requests that ever arrive

ASSUME HostAdmissionAssumption ==
    /\ MaxRequests \in Nat \ {0}
    /\ MaxJoins \in Nat

VARIABLES
    approvalMode,   \* snapshot.host_draft.approval_mode
    requests,       \* snapshot.pending_join_requests
    nextRequest,    \* the id of the next join request
    transportOps,   \* pending_transport, oldest first
    trustWrites,    \* the PersistApprovalTrust operations of pending_storage
    tuningPending,  \* whether pending_storage holds a PersistTuning operation
    remembered      \* devices whose trust the store has committed

admissionVars ==
    <<approvalMode, requests, nextRequest, transportOps, trustWrites, tuningPending, remembered>>
vars == <<sessionVars, admissionVars>>

ApprovalModes == {"Manual", "InviteCode", "TrustedDevices"}

Requests == [id : 1..MaxJoins, device : Devices, trusted : BOOLEAN, codeValid : BOOLEAN]

\* An approval says whether it promises the listener future trust.
TransportOps ==
    [kind : {"ApproveJoin"}, id : 1..MaxJoins, device : Devices, trusted : BOOLEAN]
    \cup [kind : {"RejectJoin"}, id : 1..MaxJoins, device : Devices]
    \cup [kind : {"DisconnectListener"}, device : Devices]

TrustWrites == [id : 1..MaxJoins, device : Devices]

TypeOK ==
    /\ SessionTypeOK
    /\ approvalMode \in ApprovalModes
    /\ requests \subseteq Requests
    /\ nextRequest \in 1..(MaxJoins + 1)
    /\ transportOps \in Seq(TransportOps)
    /\ trustWrites \in Seq(TrustWrites)
    /\ tuningPending \in BOOLEAN
    /\ remembered \subseteq Devices

Init ==
    /\ SessionInit
    /\ approvalMode = "Manual"
    /\ requests = {}
    /\ nextRequest = 1
    /\ transportOps = <<>>
    /\ trustWrites = <<>>
    /\ tuningPending = FALSE
    /\ remembered = {}

-----------------------------------------------------------------------------
(* Helpers of the handlers *)

\* Pending operations that are not platform effects.
Others == Len(transportOps) + Len(trustWrites) + (IF tuningPending THEN 1 ELSE 0)

\* The operations in flight that decide request id.
DecisionsOf(id) ==
    {i \in DOMAIN transportOps :
        transportOps[i].kind \in {"ApproveJoin", "RejectJoin"} /\ transportOps[i].id = id}
DurableWritesOf(id) ==
    {i \in DOMAIN trustWrites : trustWrites[i].id = id}

\* Mutant: a durable write in progress does not count.
DeliveryIdle(id) == DecisionsOf(id) = {}

RequestIdle(id) == DecisionsOf(id) = {} /\ DurableWritesOf(id) = {}

\* Mutant: the limit on pending operations counts platform effects only.
StartTransportUncounted(op) ==
    /\ EffectCapacity(0)
    /\ transportOps' = Append(transportOps, op)

StartTransport(op) ==
    /\ EffectCapacity(Others)
    /\ transportOps' = Append(transportOps, op)

Approval(r, trusted) ==
    [kind |-> "ApproveJoin", id |-> r.id, device |-> r.device, trusted |-> trusted]

Rejection(r) == [kind |-> "RejectJoin", id |-> r.id, device |-> r.device]

-----------------------------------------------------------------------------
(* Commands *)

\* update_host_draft with a patch of the approval mode.
SetApprovalMode(mode) ==
    /\ lifecycle \in {"Idle", "Error"}
    /\ approvalMode' = mode
    /\ DraftEdited
    /\ UNCHANGED <<requests, nextRequest, transportOps, trustWrites, tuningPending, remembered>>

AdmissionOpen == session # NoSession /\ lifecycle \in ActiveLifecycles

\* Mutant: a remembered approval is delivered without waiting for the write.
ApproveAtOnce(r, remember) ==
    /\ AdmissionOpen
    /\ RequestIdle(r.id)
    /\ StartTransport(Approval(r, remember \/ r.trusted))
    /\ UNCHANGED <<sessionVars, approvalMode, requests, nextRequest, trustWrites, tuningPending,
                   remembered>>

\* Future trust is written before the approval that promises it is sent.
ApproveJoin(r, remember) ==
    /\ AdmissionOpen
    /\ RequestIdle(r.id)
    /\ IF remember /\ ~r.trusted
       THEN /\ EffectCapacity(Others)
            /\ trustWrites' = Append(trustWrites, [id |-> r.id, device |-> r.device])
            /\ UNCHANGED transportOps
       ELSE StartTransport(Approval(r, r.trusted)) /\ UNCHANGED trustWrites
    /\ UNCHANGED <<sessionVars, approvalMode, requests, nextRequest, tuningPending, remembered>>

RejectJoin(r) ==
    /\ AdmissionOpen
    /\ RequestIdle(r.id)
    /\ StartTransport(Rejection(r))
    /\ UNCHANGED <<sessionVars, approvalMode, requests, nextRequest, trustWrites, tuningPending,
                   remembered>>

RemoveListener(d) ==
    /\ AdmissionOpen
    /\ d \in listeners
    /\ \A i \in DOMAIN transportOps :
          transportOps[i] # [kind |-> "DisconnectListener", device |-> d]
    /\ StartTransport([kind |-> "DisconnectListener", device |-> d])
    /\ UNCHANGED <<sessionVars, approvalMode, requests, nextRequest, trustWrites, tuningPending,
                   remembered>>

UpdateTuning ==
    /\ ~tuningPending
    /\ EffectCapacity(Others)
    /\ tuningPending' = TRUE
    /\ UNCHANGED <<sessionVars, approvalMode, requests, nextRequest, transportOps, trustWrites,
                   remembered>>

-----------------------------------------------------------------------------
(* Join requests *)

\* classify_join_request
Disposition(r) ==
    CASE approvalMode = "InviteCode" /\ ~r.codeValid -> "AutoReject"
      [] approvalMode = "TrustedDevices" -> IF r.trusted THEN "AutoApprove" ELSE "AutoReject"
      [] OTHER -> "Manual"

JoinRequested(d, trusted, codeValid) ==
    LET r == [id |-> nextRequest, device |-> d, trusted |-> trusted, codeValid |-> codeValid]
    IN  /\ lifecycle \in ActiveLifecycles
        /\ nextRequest <= MaxJoins
        /\ \A q \in requests : q.device # d
        /\ Cardinality(requests) < MaxRequests
        /\ nextRequest' = nextRequest + 1
        /\ requests' = requests \cup {r}
        /\ CASE Disposition(r) = "Manual" -> UNCHANGED transportOps
             [] Disposition(r) = "AutoApprove" ->
                  session # NoSession /\ StartTransport(Approval(r, TRUE))
             [] Disposition(r) = "AutoReject" ->
                  session # NoSession /\ StartTransport(Rejection(r))
        /\ UNCHANGED <<sessionVars, approvalMode, trustWrites, tuningPending, remembered>>

-----------------------------------------------------------------------------
(* Completions of storage effects *)

\* Mutant: trust is committed under the id of the request, not of the device.
TrustRequestRemembered(i, error) ==
    LET w == trustWrites[i]
    IN  /\ session # NoSession
        /\ EffectCapacity(Others - 1)
        /\ trustWrites' = Without(trustWrites, i)
        /\ transportOps' = Append(transportOps, Approval(w, error = "None"))
        /\ remembered' = IF error = "None" THEN remembered \cup {w.id} ELSE remembered
        /\ IF error = "None" THEN UNCHANGED sessionVars ELSE FailureRecorded(error)
        /\ UNCHANGED <<approvalMode, requests, nextRequest, tuningPending>>

\* The write for one approval committed or failed; either way it is now sent,
\* and only a committed write lets it promise future trust.
TrustWriteCompleted(i, error) ==
    LET w == trustWrites[i]
    IN  /\ session # NoSession
        /\ EffectCapacity(Others - 1)
        /\ trustWrites' = Without(trustWrites, i)
        /\ transportOps' = Append(transportOps, Approval(w, error = "None"))
        /\ remembered' = IF error = "None" THEN remembered \cup {w.device} ELSE remembered
        /\ IF error = "None" THEN UNCHANGED sessionVars ELSE FailureRecorded(error)
        /\ UNCHANGED <<approvalMode, requests, nextRequest, tuningPending>>

TuningWriteCompleted(error) ==
    /\ tuningPending
    /\ tuningPending' = FALSE
    /\ IF error = "None" THEN UNCHANGED sessionVars ELSE FailureRecorded(error)
    /\ UNCHANGED <<approvalMode, requests, nextRequest, transportOps, trustWrites, remembered>>

-----------------------------------------------------------------------------
(* Completions of transport effects: operation i is settled and forgotten *)

\* Mutant: a delivery that fails takes the session down.
DeliveryFailureIsFatal(i) ==
    /\ transportOps' = Without(transportOps, i)
    /\ lifecycle' = "Error"
    /\ lastError' = "Delivery"
    /\ UNCHANGED <<session, nextSession, platformOps, listeners, recoverable>>
    /\ UNCHANGED <<approvalMode, requests, nextRequest, trustWrites, tuningPending, remembered>>

DeliveryFailed(i) ==
    /\ transportOps' = Without(transportOps, i)
    /\ FailureRecorded("Delivery")
    /\ UNCHANGED <<approvalMode, requests, nextRequest, trustWrites, tuningPending, remembered>>

\* A delivered decision settles the request it was made for.
RemovePendingRequest(i) ==
    LET r == {q \in requests : q.id = transportOps[i].id /\ q.device = transportOps[i].device}
    IN  r # {} /\ requests' = requests \ r

\* Mutant: the approval admits its device although the request is gone.
ApprovalAlwaysDelivered(i) ==
    /\ transportOps[i].kind = "ApproveJoin"
    /\ requests' = {q \in requests : q.id # transportOps[i].id}
    /\ RecordApprovedListener(transportOps[i].device)
    /\ DeliverySucceeded
    /\ transportOps' = Without(transportOps, i)
    /\ UNCHANGED <<approvalMode, nextRequest, trustWrites, tuningPending, remembered>>

ApprovalDelivered(i) ==
    /\ transportOps[i].kind = "ApproveJoin"
    /\ RemovePendingRequest(i)
    /\ RecordApprovedListener(transportOps[i].device)
    /\ DeliverySucceeded
    /\ transportOps' = Without(transportOps, i)
    /\ UNCHANGED <<approvalMode, nextRequest, trustWrites, tuningPending, remembered>>

RejectionDelivered(i) ==
    /\ transportOps[i].kind = "RejectJoin"
    /\ RemovePendingRequest(i)
    /\ DeliverySucceeded
    /\ transportOps' = Without(transportOps, i)
    /\ UNCHANGED <<lifecycle, session, nextSession, platformOps, listeners, approvalMode,
                   nextRequest, trustWrites, tuningPending, remembered>>

RemovalDelivered(i) ==
    /\ transportOps[i].kind = "DisconnectListener"
    /\ RecordRemovedListener(transportOps[i].device)
    /\ DeliverySucceeded
    /\ transportOps' = Without(transportOps, i)
    /\ UNCHANGED <<approvalMode, requests, nextRequest, trustWrites, tuningPending, remembered>>

-----------------------------------------------------------------------------
(* The session under admission *)

\* A connection or a disconnection settles the requests of its device.
ListenerChanged(d) ==
    /\ \/ RecordListener(d)
       \/ \E error \in {"None", "Retryable", "Fatal"} : RecordListenerDisconnect(d, error)
    /\ requests' = {r \in requests : r.device # d}
    /\ UNCHANGED <<approvalMode, nextRequest, transportOps, trustWrites, tuningPending, remembered>>

\* Mutant: deliveries in flight outlive the session.
ResetKeepingDeliveries(i) ==
    /\ AdvertisingStopped(i)
    /\ requests' = {}
    /\ trustWrites' = <<>>
    /\ UNCHANGED <<approvalMode, nextRequest, transportOps, tuningPending, remembered>>

\* reset_host_session: a tuning write is the only operation that survives.
SessionReset(i) ==
    /\ AdvertisingStopped(i)
    /\ requests' = {}
    /\ transportOps' = <<>>
    /\ trustWrites' = <<>>
    /\ UNCHANGED <<approvalMode, nextRequest, tuningPending, remembered>>

SessionStep ==
    /\ \/ CreateHostSession(Others)
       \/ EndHostSession(Others)
       \/ RetryHostSession(Others)
       \/ AcknowledgeFailure
       \/ \E i \in DOMAIN platformOps :
             \/ AdvertisingStarted(i)
             \/ \E retryable \in BOOLEAN : AdvertisingFailed(i, retryable)
       \/ TransportAdvertising
       \/ \E retryable \in BOOLEAN : TransportFailed(retryable)
       \/ DraftEdited
       \/ PlaybackEvent
    /\ UNCHANGED admissionVars

CommandStep ==
    \/ \E mode \in ApprovalModes : SetApprovalMode(mode)
    \/ \E r \in requests :
          \/ \E remember \in BOOLEAN : ApproveJoin(r, remember)
          \/ RejectJoin(r)
    \/ \E d \in Devices : RemoveListener(d)
    \/ UpdateTuning

CompletionStep ==
    \/ \E error \in {"None", "Retryable", "Fatal"} :
          \/ \E i \in DOMAIN trustWrites : TrustWriteCompleted(i, error)
          \/ TuningWriteCompleted(error)
    \/ \E i \in DOMAIN transportOps :
          \/ DeliveryFailed(i)
          \/ ApprovalDelivered(i)
          \/ RejectionDelivered(i)
          \/ RemovalDelivered(i)

Next ==
    \/ SessionStep
    \/ CommandStep
    \/ CompletionStep
    \/ \E d \in Devices, trusted, codeValid \in BOOLEAN :
          /\ codeValid \/ approvalMode = "InviteCode"
          /\ JoinRequested(d, trusted, codeValid)
    \/ \E d \in Devices : ListenerChanged(d)
    \/ \E i \in DOMAIN platformOps : SessionReset(i)

Spec == Init /\ [][Next]_vars

-----------------------------------------------------------------------------
(* Properties *)

\* A request never has two decisions in flight: neither a second command nor
\* the completion of a durable write overtakes a decision that is on its way
\* (ensure_request_operation_idle).
OneDecisionInFlight ==
    \A id \in 1..MaxJoins : Cardinality(DecisionsOf(id)) + Cardinality(DurableWritesOf(id)) <= 1

\* Ending a session forgets everything admission had under way, so no late
\* completion of it can admit or remove anybody in the next session
\* (reset_host_session).
NothingPendingWithoutSession ==
    session = NoSession => requests = {} /\ transportOps = <<>> /\ trustWrites = <<>>

\* An approval in flight promises future trust only to a device that the host
\* had verified or whose trust the store has committed, even when the write
\* fails or another request of the device is being decided.
PromisedTrustIsDurable ==
    \A i \in DOMAIN transportOps :
       (transportOps[i].kind = "ApproveJoin" /\ transportOps[i].trusted)
          => \/ transportOps[i].device \in remembered
             \/ \A r \in requests : r.id = transportOps[i].id => r.trusted

\* Requests, listeners and operations of all three kinds together stay within
\* their limits, also when one operation turns into another.
AdmissionWithinLimits ==
    /\ Cardinality(requests) <= MaxRequests
    /\ Cardinality(listeners) <= MaxListeners
    /\ Len(platformOps) + Others <= MaxEffects

\* An approval that is delivered admits its device only while the request it
\* answers is still pending, and settles that request: a device that left
\* while the approval was under way is not admitted.
AdmittedByRequest ==
    [][transportOps' # transportOps =>
         \A d \in listeners' \ listeners : \E r \in requests \ requests' : r.device = d]_vars
=============================================================================
