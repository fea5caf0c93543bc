---------------------------- MODULE ActorRuntime ----------------------------
(***************************************************************************)
(* The threads around the core actor (runtime/actor_runtime/mod.rs and     *)
(* reservation.rs): clients that submit inputs to a bounded queue, the     *)
(* actor that processes them one at a time and publishes a snapshot, the   *)
(* notification worker that hands the actor's notifications to the         *)
(* platform's observer, one producer that reserves a track boundary and    *)
(* waits for the answer, and the thread that shuts the runtime down.       *)
(*                                                                         *)
(* What an input does to the actor's state is left open: it is refused,    *)
(* changes nothing, or makes a new revision, possibly with an effect for   *)
(* the platform.  Events and EndHostSession are processed at whatever      *)
(* revision they meet; every other command names the revision its sender   *)
(* saw.                                                                    *)
(***************************************************************************)
EXTENDS Integers, Sequences

CONSTANTS
    Clients,        \* threads that submit commands and events
    InboxCapacity,  \* actor_queue_capacity
    OutboxCapacity, \* notification_queue_capacity
    MaxInputs,      \* inputs that clients ever submit
    MaxEffects      \* effects the actor ever emits

ASSUME ActorRuntimeAssumption ==
    /\ InboxCapacity \in Nat \ {0}
    /\ OutboxCapacity \in Nat \ {0}
    /\ MaxInputs \in Nat
    /\ MaxEffects \in Nat

VARIABLES
    accepting,      \* ActorShared.accepting
    cached,         \* the revision of ActorShared.snapshot
    actorFailed,    \* whether ActorShared.actor_failure is set
    inbox,          \* the actor's queue
    sending,        \* the input each client is about to queue
    inputs,         \* inputs submitted so far
    actor,          \* where the actor's thread is
    revision,       \* the revision of the actor's own state
    work,           \* what is left to do for the input being processed
    bases,          \* the revisions named by the commands that changed the state
    outbox,         \* the notification queue
    notifier,       \* whether the notification worker runs
    notifierFailed, \* whether notification_failure is set
    observed,       \* the newest revision the observer was given
    effects,        \* what became of each effect
    producer,       \* where the producer is with its reservation
    cancelled,      \* the producer's cancellation flag
    receipt,        \* the reply channel of the reservation
    reservedAt,     \* the revision that holds the reservation, or -1
    shutdown,       \* where the shutting-down thread is
    target          \* the revision its Shutdown command names

actorVars == <<actor, revision, work, bases, cached, reservedAt>>
notifierVars == <<outbox, notifier, notifierFailed, observed, effects>>
producerVars == <<producer, cancelled, receipt>>
shutdownVars == <<shutdown, target>>
clientVars == <<sending, inputs>>
vars == <<accepting, actorFailed, inbox, actorVars, notifierVars, producerVars, shutdownVars,
          clientVars>>

Revisions == 0..(MaxInputs + MaxEffects + 2)

Inputs ==
    [kind : {"Event", "Reserve"}]
    \cup [kind : {"Command", "Shutdown"}, expected : Revisions]
    \cup [kind : {"Refusal"}, effect : 1..MaxEffects]

NoInput == [kind |-> "None"]

\* A message is an error or a diagnostic.
Notes ==
    [kind : {"Message", "Shutdown"}]
    \cup [kind : {"Snapshot"}, revision : Revisions]
    \cup [kind : {"Effect"}, effect : 1..MaxEffects]

NoWork == [notes |-> <<>>, reply |-> FALSE, stop |-> FALSE]

TypeOK ==
    /\ accepting \in BOOLEAN
    /\ cached \in Revisions
    /\ actorFailed \in BOOLEAN
    /\ inbox \in Seq(Inputs) /\ Len(inbox) <= InboxCapacity
    /\ sending \in [Clients -> Inputs \cup {NoInput}]
    /\ inputs \in 0..MaxInputs
    /\ actor \in {"Receiving", "Publishing", "Notifying", "Stopped"}
    /\ revision \in Revisions
    /\ work \in [notes : Seq(Notes), reply : BOOLEAN, stop : BOOLEAN]
    /\ bases \in Seq(Revisions)
    /\ outbox \in Seq(Notes) /\ Len(outbox) <= OutboxCapacity
    /\ notifier \in {"Running", "Stopped"}
    /\ notifierFailed \in BOOLEAN
    /\ observed \in Revisions
    /\ effects \in [1..MaxEffects -> {"New", "Emitted", "Accepted", "Refused", "Settled"}]
    /\ producer \in {"Idle", "Sending", "Waiting", "Reserved", "Refused"}
    /\ cancelled \in BOOLEAN
    /\ receipt \in {"Empty", "Ok", "Err"}
    /\ reservedAt \in Revisions \cup {-1}
    /\ shutdown \in {"Idle", "Reading", "Queueing", "JoinActor", "StopNotifier", "JoinNotifier",
                     "Done"}
    /\ target \in Revisions

\* CoreActorRuntime::start, and the first snapshot the actor sends.
Init ==
    /\ accepting = TRUE
    /\ cached = 0
    /\ actorFailed = FALSE
    /\ inbox = <<>>
    /\ sending = [c \in Clients |-> NoInput]
    /\ inputs = 0
    /\ actor = "Receiving"
    /\ revision = 0
    /\ work = NoWork
    /\ bases = <<>>
    /\ outbox = <<[kind |-> "Snapshot", revision |-> 0]>>
    /\ notifier = "Running"
    /\ notifierFailed = FALSE
    /\ observed = 0
    /\ effects = [e \in 1..MaxEffects |-> "New"]
    /\ producer = "Idle"
    /\ cancelled = FALSE
    /\ receipt = "Empty"
    /\ reservedAt = -1
    /\ shutdown = "Idle"
    /\ target = 0

-----------------------------------------------------------------------------
(* Submission: the check and the send are two steps of the caller's thread *)

EnsureAccepting == ~notifierFailed /\ ~actorFailed /\ accepting

InboxOpen == actor # "Stopped" /\ Len(inbox) < InboxCapacity

SubmitInput(c) ==
    /\ sending[c] = NoInput
    /\ inputs < MaxInputs
    /\ EnsureAccepting
    /\ \E input \in {[kind |-> "Event"], [kind |-> "Command", expected |-> cached]} :
          sending' = [sending EXCEPT ![c] = input]
    /\ inputs' = inputs + 1
    /\ UNCHANGED <<accepting, actorFailed, inbox, actorVars, notifierVars, producerVars,
                   shutdownVars>>

\* Mutant: the queue is not bounded.
SendUnbounded(c) ==
    /\ sending[c] # NoInput
    /\ inbox' = IF actor # "Stopped" THEN Append(inbox, sending[c]) ELSE inbox
    /\ sending' = [sending EXCEPT ![c] = NoInput]
    /\ UNCHANGED <<accepting, actorFailed, inputs, actorVars, notifierVars, producerVars,
                   shutdownVars>>

\* A full queue, or one whose actor is gone, gives the caller an error.
TrySend(c) ==
    /\ sending[c] # NoInput
    /\ inbox' = IF InboxOpen THEN Append(inbox, sending[c]) ELSE inbox
    /\ sending' = [sending EXCEPT ![c] = NoInput]
    /\ UNCHANGED <<accepting, actorFailed, inputs, actorVars, notifierVars, producerVars,
                   shutdownVars>>

-----------------------------------------------------------------------------
(* The actor *)

Message == [kind |-> "Message"]
Snapshot(r) == [kind |-> "Snapshot", revision |-> r]

\* The input changed nothing: it was refused with an error, or has at most a
\* diagnostic to show.  known is what is known of the effects by now.
Unchanged(known) ==
    /\ \E notes \in {<<>>, <<Message>>} : work' = [NoWork EXCEPT !.notes = notes]
    /\ effects' = known
    /\ UNCHANGED revision

\* The input made a new revision, with an effect or a message or neither.
Changed(known) ==
    /\ revision' = revision + 1
    /\ \/ /\ \E notes \in {<<>>, <<Message>>} :
                work' = [NoWork EXCEPT !.notes = <<Snapshot(revision')>> \o notes]
          /\ effects' = known
       \/ \E e \in 1..MaxEffects :
             /\ known[e] = "New"
             /\ \A f \in 1..(e - 1) : known[f] # "New"
             /\ effects' = [known EXCEPT ![e] = "Emitted"]
             /\ work' = [NoWork EXCEPT !.notes =
                           <<Snapshot(revision'), [kind |-> "Effect", effect |-> e]>>]

\* An input that names another revision than the actor's is refused.
StaleInput ==
    /\ work' = [NoWork EXCEPT !.notes = <<Message>>]
    /\ UNCHANGED <<revision, effects, bases>>

\* Mutant: commands are applied whatever revision they were made for.
CommandUnchecked(input) ==
    /\ input.kind = "Command"
    /\ \/ Changed(effects) /\ bases' = Append(bases, input.expected)
       \/ Unchanged(effects) /\ UNCHANGED bases
    /\ UNCHANGED <<receipt, reservedAt>>

ProcessCommand(input) ==
    /\ input.kind = "Command"
    /\ \/ input.expected # revision /\ StaleInput
       \/ /\ input.expected = revision
          /\ \/ Changed(effects) /\ bases' = Append(bases, input.expected)
             \/ Unchanged(effects) /\ UNCHANGED bases
    /\ UNCHANGED <<receipt, reservedAt>>

ProcessEvent(input) ==
    /\ input.kind = "Event"
    /\ Changed(effects) \/ Unchanged(effects)
    /\ UNCHANGED <<bases, receipt, reservedAt>>

\* The failure of an effect that the platform refused.
ProcessRefusal(input) ==
    /\ input.kind = "Refusal"
    /\ LET known == [effects EXCEPT ![input.effect] = "Settled"]
       IN  Changed(known) \/ Unchanged(known)
    /\ UNCHANGED <<bases, receipt, reservedAt>>

ProcessShutdown(input) ==
    /\ input.kind = "Shutdown"
    /\ \/ input.expected # revision /\ StaleInput
       \/ /\ input.expected = revision
          /\ revision' = revision + 1
          /\ work' = [NoWork EXCEPT !.notes = <<Snapshot(revision')>>, !.stop = TRUE]
          /\ UNCHANGED <<effects, bases>>
    /\ UNCHANGED <<receipt, reservedAt>>

ProcessInput ==
    /\ actor = "Receiving"
    /\ inbox # <<>>
    /\ LET input == Head(inbox)
       IN  \/ ProcessCommand(input)
           \/ ProcessEvent(input)
           \/ ProcessRefusal(input)
           \/ ProcessShutdown(input)
    /\ inbox' = Tail(inbox)
    /\ actor' = "Publishing"
    /\ UNCHANGED <<accepting, actorFailed, cached, outbox, notifier, notifierFailed, observed,
                   producer, cancelled, shutdownVars, clientVars>>

\* A cancelled or refused reservation is answered at once.
RefuseReservation ==
    /\ actor = "Receiving"
    /\ inbox # <<>>
    /\ Head(inbox).kind = "Reserve"
    /\ inbox' = Tail(inbox)
    /\ receipt' = "Err"
    /\ UNCHANGED <<accepting, actorFailed, actorVars, notifierVars, producer, cancelled,
                   shutdownVars, clientVars>>

\* Mutant: the producer is answered as soon as its boundary is recorded.
ReserveAtOnce ==
    /\ actor = "Receiving"
    /\ inbox # <<>>
    /\ Head(inbox).kind = "Reserve"
    /\ ~cancelled
    /\ inbox' = Tail(inbox)
    /\ actor' = "Publishing"
    /\ revision' = revision + 1
    /\ reservedAt' = revision'
    /\ work' = [NoWork EXCEPT !.notes = <<Snapshot(revision')>>]
    /\ receipt' = "Ok"
    /\ UNCHANGED <<accepting, actorFailed, cached, bases, notifierVars, producer, cancelled,
                   shutdownVars, clientVars>>

\* The boundary is recorded; the reply waits for the snapshot.
ReserveBoundary ==
    /\ actor = "Receiving"
    /\ inbox # <<>>
    /\ Head(inbox).kind = "Reserve"
    /\ ~cancelled
    /\ inbox' = Tail(inbox)
    /\ actor' = "Publishing"
    /\ revision' = revision + 1
    /\ reservedAt' = revision'
    /\ work' = [NoWork EXCEPT !.notes = <<Snapshot(revision')>>, !.reply = TRUE]
    /\ UNCHANGED <<accepting, actorFailed, cached, bases, notifierVars, producerVars,
                   shutdownVars, clientVars>>

\* Mutant: the cache is brought up to date only for a reservation.
WriteReservedSnapshot ==
    /\ actor = "Publishing"
    /\ cached' = IF work.reply THEN revision ELSE cached
    /\ actor' = "Notifying"
    /\ UNCHANGED <<accepting, actorFailed, inbox, revision, work, bases, reservedAt, notifierVars,
                   producerVars, shutdownVars, clientVars>>

WriteSnapshot ==
    /\ actor = "Publishing"
    /\ cached' = revision
    /\ actor' = "Notifying"
    /\ UNCHANGED <<accepting, actorFailed, inbox, revision, work, bases, reservedAt, notifierVars,
                   producerVars, shutdownVars, clientVars>>

OutboxOpen == notifier = "Running" /\ Len(outbox) < OutboxCapacity

\* The actor's thread ends and its queue goes with it.
StopActor ==
    /\ actor' = "Stopped"
    /\ accepting' = FALSE
    /\ inbox' = <<>>
    /\ work' = NoWork

SendNotification ==
    /\ actor = "Notifying"
    /\ work.notes # <<>>
    /\ IF OutboxOpen
       THEN /\ outbox' = Append(outbox, Head(work.notes))
            /\ work' = [work EXCEPT !.notes = Tail(@)]
            /\ UNCHANGED <<accepting, actorFailed, actor, inbox>>
       ELSE actorFailed' = TRUE /\ StopActor /\ UNCHANGED outbox
    /\ UNCHANGED <<revision, bases, cached, reservedAt, notifier, notifierFailed, observed,
                   effects, producerVars, shutdownVars, clientVars>>

FinishInput ==
    /\ actor = "Notifying"
    /\ work.notes = <<>>
    /\ receipt' = IF work.reply THEN "Ok" ELSE receipt
    /\ IF work.stop
       THEN StopActor
       ELSE actor' = "Receiving" /\ work' = NoWork /\ UNCHANGED <<accepting, inbox>>
    /\ UNCHANGED <<actorFailed, revision, bases, cached, reservedAt, notifierVars, producer,
                   cancelled, shutdownVars, clientVars>>

ActorStep ==
    \/ ProcessInput
    \/ RefuseReservation
    \/ ReserveBoundary
    \/ WriteSnapshot
    \/ SendNotification
    \/ FinishInput

-----------------------------------------------------------------------------
(* The notification worker: each step takes one message *)

Observed(note) ==
    observed' = IF note.kind = "Snapshot" THEN note.revision ELSE observed

\* on_notification succeeds.
NotificationAccepted ==
    /\ notifier = "Running"
    /\ outbox # <<>>
    /\ Head(outbox).kind # "Shutdown"
    /\ outbox' = Tail(outbox)
    /\ Observed(Head(outbox))
    /\ effects' = IF Head(outbox).kind = "Effect"
                  THEN [effects EXCEPT ![Head(outbox).effect] = "Accepted"] ELSE effects
    /\ UNCHANGED <<accepting, actorFailed, inbox, actorVars, notifier, notifierFailed,
                   producerVars, shutdownVars, clientVars>>

\* Mutant: the report to the actor may be lost without a trace.
EffectRefusedQuietly ==
    /\ notifier = "Running"
    /\ outbox # <<>>
    /\ Head(outbox).kind = "Effect"
    /\ outbox' = Tail(outbox)
    /\ inbox' = IF InboxOpen
                THEN Append(inbox, [kind |-> "Refusal", effect |-> Head(outbox).effect])
                ELSE inbox
    /\ effects' = [effects EXCEPT ![Head(outbox).effect] = "Refused"]
    /\ UNCHANGED <<accepting, actorFailed, actorVars, notifier, notifierFailed, observed,
                   producerVars, shutdownVars, clientVars>>

\* The platform refuses an effect and the actor is told.
EffectRefused ==
    /\ notifier = "Running"
    /\ outbox # <<>>
    /\ Head(outbox).kind = "Effect"
    /\ InboxOpen
    /\ outbox' = Tail(outbox)
    /\ inbox' = Append(inbox, [kind |-> "Refusal", effect |-> Head(outbox).effect])
    /\ effects' = [effects EXCEPT ![Head(outbox).effect] = "Refused"]
    /\ UNCHANGED <<accepting, actorFailed, actorVars, notifier, notifierFailed, observed,
                   producerVars, shutdownVars, clientVars>>

\* The observer panics, fails on something that is no effect, or refuses an
\* effect that the actor cannot be told about: the worker ends.
NotifierFails ==
    /\ notifier = "Running"
    /\ outbox # <<>>
    /\ Head(outbox).kind # "Shutdown"
    /\ notifier' = "Stopped"
    /\ notifierFailed' = TRUE
    /\ outbox' = <<>>
    /\ Observed(Head(outbox))
    /\ UNCHANGED <<accepting, actorFailed, inbox, actorVars, effects, producerVars, shutdownVars,
                   clientVars>>

NotifierStops ==
    /\ notifier = "Running"
    /\ outbox # <<>>
    /\ Head(outbox).kind = "Shutdown"
    /\ notifier' = "Stopped"
    /\ outbox' = <<>>
    /\ UNCHANGED <<accepting, actorFailed, inbox, actorVars, notifierFailed, observed, effects,
                   producerVars, shutdownVars, clientVars>>

NotifierStep == NotificationAccepted \/ EffectRefused \/ NotifierFails \/ NotifierStops

-----------------------------------------------------------------------------
(* reserve_host_track_boundary *)

ReservationStarts ==
    /\ producer = "Idle"
    /\ EnsureAccepting
    /\ producer' = IF cancelled THEN "Refused" ELSE "Sending"
    /\ UNCHANGED <<accepting, actorFailed, inbox, actorVars, notifierVars, cancelled, receipt,
                   shutdownVars, clientVars>>

ReservationSent ==
    /\ producer = "Sending"
    /\ producer' = IF InboxOpen THEN "Waiting" ELSE "Refused"
    /\ inbox' = IF InboxOpen THEN Append(inbox, [kind |-> "Reserve"]) ELSE inbox
    /\ UNCHANGED <<accepting, actorFailed, actorVars, notifierVars, cancelled, receipt,
                   shutdownVars, clientVars>>

\* Mutant: the producer waits for a reply and for nothing else.
ReplyAwaited ==
    /\ producer = "Waiting"
    /\ \/ producer' = "Reserved" /\ receipt = "Ok"
       \/ producer' = "Refused" /\ receipt = "Err"
    /\ UNCHANGED <<accepting, actorFailed, inbox, actorVars, notifierVars, cancelled, receipt,
                   shutdownVars, clientVars>>

\* The producer polls its receipt, its cancellation flag and the runtime.  The
\* reply channel is disconnected once the actor is gone.
ReservationAnswered ==
    /\ producer = "Waiting"
    /\ \/ producer' = "Reserved" /\ receipt = "Ok"
       \/ /\ producer' = "Refused"
          /\ receipt = "Err" \/ cancelled \/ ~EnsureAccepting \/ (receipt = "Empty" /\ actor = "Stopped")
    /\ UNCHANGED <<accepting, actorFailed, inbox, actorVars, notifierVars, cancelled, receipt,
                   shutdownVars, clientVars>>

Cancel ==
    /\ ~cancelled
    /\ cancelled' = TRUE
    /\ UNCHANGED <<accepting, actorFailed, inbox, actorVars, notifierVars, producer, receipt,
                   shutdownVars, clientVars>>

-----------------------------------------------------------------------------
(* CoreActorRuntime::shutdown *)

\* A runtime that has stopped accepting has already been told to stop.
ShutdownBegins ==
    /\ shutdown = "Idle"
    /\ accepting' = FALSE
    /\ shutdown' = IF accepting THEN "Reading" ELSE "JoinActor"
    /\ UNCHANGED <<actorFailed, inbox, actorVars, notifierVars, producerVars, target, clientVars>>

ReadRevision ==
    /\ shutdown = "Reading"
    /\ target' = cached
    /\ shutdown' = "Queueing"
    /\ UNCHANGED <<accepting, actorFailed, inbox, actorVars, notifierVars, producerVars,
                   clientVars>>

\* The send waits for a place in the queue, or for the queue to go away.
QueueShutdown ==
    /\ shutdown = "Queueing"
    /\ \/ actor = "Stopped" /\ UNCHANGED inbox
       \/ InboxOpen /\ inbox' = Append(inbox, [kind |-> "Shutdown", expected |-> target])
    /\ shutdown' = "JoinActor"
    /\ UNCHANGED <<accepting, actorFailed, actorVars, notifierVars, producerVars, target,
                   clientVars>>

\* Mutant: the notification worker is stopped without waiting for the actor.
JoinNobody ==
    /\ shutdown = "JoinActor"
    /\ shutdown' = "StopNotifier"
    /\ UNCHANGED <<accepting, actorFailed, inbox, actorVars, notifierVars, producerVars, target,
                   clientVars>>

JoinActor ==
    /\ shutdown = "JoinActor"
    /\ actor = "Stopped"
    /\ shutdown' = "StopNotifier"
    /\ UNCHANGED <<accepting, actorFailed, inbox, actorVars, notifierVars, producerVars, target,
                   clientVars>>

\* Mutant: a full notification queue makes the caller give up.
StopIdleNotifier ==
    /\ shutdown = "StopNotifier"
    /\ outbox' = IF OutboxOpen THEN Append(outbox, [kind |-> "Shutdown"]) ELSE outbox
    /\ shutdown' = "JoinNotifier"
    /\ UNCHANGED <<accepting, actorFailed, inbox, actorVars, notifier, notifierFailed, observed,
                   effects, producerVars, target, clientVars>>

StopNotifier ==
    /\ shutdown = "StopNotifier"
    /\ \/ notifier = "Stopped" /\ UNCHANGED outbox
       \/ OutboxOpen /\ outbox' = Append(outbox, [kind |-> "Shutdown"])
    /\ shutdown' = "JoinNotifier"
    /\ UNCHANGED <<accepting, actorFailed, inbox, actorVars, notifier, notifierFailed, observed,
                   effects, producerVars, target, clientVars>>

JoinNotifier ==
    /\ shutdown = "JoinNotifier"
    /\ notifier = "Stopped"
    /\ shutdown' = "Done"
    /\ UNCHANGED <<accepting, actorFailed, inbox, actorVars, notifierVars, producerVars, target,
                   clientVars>>

ShutdownStep == ReadRevision \/ QueueShutdown \/ JoinActor \/ StopNotifier \/ JoinNotifier

-----------------------------------------------------------------------------

ClientStep == \E c \in Clients : SubmitInput(c) \/ TrySend(c)

ProducerStep == ReservationStarts \/ ReservationSent \/ ReservationAnswered

Next ==
    \/ ClientStep
    \/ ActorStep
    \/ NotifierStep
    \/ ProducerStep
    \/ Cancel
    \/ ShutdownBegins
    \/ ShutdownStep

Spec == Init /\ [][Next]_vars

\* Every thread keeps running and the observer always returns; no client has
\* to submit anything, no producer has to reserve and nobody has to shut the
\* runtime down.
Fairness ==
    /\ \A c \in Clients : WF_vars(TrySend(c))
    /\ WF_vars(ActorStep)
    /\ WF_vars(NotifierStep)
    /\ WF_vars(ReservationSent)
    /\ WF_vars(ReservationAnswered)
    /\ WF_vars(ShutdownStep)

FairSpec == Spec /\ Fairness

-----------------------------------------------------------------------------
(* Properties *)

\* Of several commands made against one snapshot at most one changes the state:
\* the others meet a newer revision and are refused, whatever the order in
\* which the clients' sends and the actor interleave (ActorState::apply).
OneCommandPerSnapshot ==
    \A i, j \in DOMAIN bases : bases[i] = bases[j] => i = j

\* Whoever reacts to a notification and reads the snapshot cache finds it at
\* least as new as what they were told, and the snapshots reach the observer in
\* order, none twice (run_actor_worker writes the cache before it notifies).
ObserverIsNeverAhead ==
    /\ observed <= cached /\ cached <= revision
    /\ \A i \in DOMAIN outbox :
          outbox[i].kind = "Snapshot" =>
             /\ outbox[i].revision <= cached
             /\ \A j \in 1..(i - 1) :
                   outbox[j].kind = "Snapshot" => outbox[j].revision < outbox[i].revision

\* "The producer may emit successor audio only after the actor has committed
\* this reservation and its snapshot has been published."  A producer that was
\* told Ok holds a reservation that every later read of the snapshot shows.
ReservedIsPublished ==
    producer = "Reserved" => reservedAt # -1 /\ reservedAt <= cached

\* A shutdown that reports no failure has delivered everything: the observer
\* has the last snapshot, and every effect was accepted or its refusal settled
\* or left behind by the stop.
CleanShutdownDeliversAll ==
    shutdown = "Done" /\ ~actorFailed /\ ~notifierFailed =>
       /\ observed = revision
       /\ \A e \in 1..MaxEffects : effects[e] # "Emitted"

\* No effect disappears unnoticed.  One that was emitted is on its way to the
\* platform and one that was refused on its way back to the actor, or else a
\* worker has ended and the runtime shows it.
NoEffectLost ==
    \A e \in 1..MaxEffects :
       /\ effects[e] = "Emitted" =>
             \/ actorFailed \/ notifierFailed
             \/ \E i \in DOMAIN outbox : outbox[i] = [kind |-> "Effect", effect |-> e]
             \/ \E i \in DOMAIN work.notes : work.notes[i] = [kind |-> "Effect", effect |-> e]
       /\ effects[e] = "Refused" =>
             \/ actor = "Stopped"
             \/ \E i \in DOMAIN inbox : inbox[i] = [kind |-> "Refusal", effect |-> e]

\* A reservation that was queued is always answered, also when the actor fails
\* or the runtime shuts down meanwhile (reserve_host_track_boundary polls).
ReservationReturns == producer = "Waiting" ~> producer \in {"Reserved", "Refused"}

\* Once the actor has ended, for whatever reason, shutting down gets past the
\* notification worker, whose queue may be full or gone.
JoinCompletes ==
    (actor = "Stopped" /\ shutdown # "Idle") ~> shutdown = "Done"

\* "Rejects new public submissions, queues shutdown behind admitted work, joins
\* the actor, and then joins notification delivery."  (mod.rs:266): shutdown
\* returns.
ShutdownCompletes == shutdown # "Idle" ~> shutdown = "Done"
=============================================================================
