----------------------------- MODULE HostPeers -----------------------------
(***************************************************************************)
(* The host's TCP peers (transport/socket): the accept thread, one reader  *)
(* thread per connection, and the one thread that owns the transport and   *)
(* authorizes, refuses and disconnects peers, collects their events and    *)
(* shuts the transport down.  A connection is a peer generation: its       *)
(* number is never used again, while a device may come back on a new one.  *)
(*                                                                         *)
(* The frames and the datagrams are left out: of a frame only the device   *)
(* it claims and the event it queues matter here.  The owner holds the     *)
(* delivery lock wherever the code takes it, and nobody else does.         *)
(***************************************************************************)
EXTENDS Integers, Sequences, FiniteSets

CONSTANTS
    Devices,        \* the identities that listeners claim
    MaxPeers,       \* config.max_peers
    EventCapacity,  \* places in the event queue
    MaxConnections  \* connections that ever arrive

ASSUME HostPeersAssumption ==
    /\ MaxPeers \in Nat \ {0}
    /\ EventCapacity \in Nat \ {0}
    /\ MaxConnections \in Nat

VARIABLES
    stopped,    \* the transport's stop flag
    lastPeer,   \* the number of the newest connection
    registry,   \* the connections that hold a peer slot
    mailbox,    \* the connections whose terminal event waits in the mailbox
    events,     \* the bounded event queue
    routes,     \* the connection each device's datagrams go to
    identity,   \* PeerState.identity
    active,     \* PeerState.active; its stop flag is set as this is cleared
    authorized, \* PeerState.authorized
    denied,     \* PeerState.admission_denied
    reader,     \* where each connection's reader thread is
    acceptor,   \* where the accept thread is
    counted,    \* the registry size it read
    owner,      \* what the owner's thread is doing
    candidate,  \* the connection it is authorizing
    previous,   \* the route that connection replaced
    reported,   \* the connections whose terminal event was collected
    lost        \* the connections whose terminal event could not be kept

acceptorVars == <<acceptor, counted, lastPeer>>
ownerVars == <<owner, candidate, previous, reported>>
peerVars == <<identity, active, authorized, denied, reader>>
vars == <<stopped, registry, mailbox, events, routes, lost, peerVars, acceptorVars, ownerVars>>

Peers == 1..MaxConnections
NoPeer == 0
NoDevice == "NoDevice"

Events == [kind : {"Accepted", "Frame", "Authorized", "Disconnected"}, peer : Peers]

TypeOK ==
    /\ stopped \in BOOLEAN
    /\ lastPeer \in 0..MaxConnections
    /\ registry \subseteq Peers
    /\ mailbox \in Seq(Peers) /\ Len(mailbox) <= MaxPeers
    /\ events \in Seq(Events) /\ Len(events) <= EventCapacity
    /\ routes \in [Devices -> Peers \cup {NoPeer}]
    /\ identity \in [Peers -> Devices \cup {NoDevice}]
    /\ active \in [Peers -> BOOLEAN]
    /\ authorized \in [Peers -> BOOLEAN]
    /\ denied \in [Peers -> BOOLEAN]
    /\ reader \in [Peers -> {"None", "Running", "Unrouting", "Reporting", "Releasing", "Done"}]
    /\ acceptor \in {"Accepting", "Counted", "Admitted", "Registered", "Announced", "Started",
                     "Done"}
    /\ counted \in 0..MaxConnections
    /\ owner \in {"Idle", "Polled", "Selected", "Replaying", "Routing", "Publishing",
                  "Published", "Unpublished", "Closing", "Joining", "Down"}
    /\ candidate \in Peers \cup {NoPeer}
    /\ previous \in Peers \cup {NoPeer}
    /\ reported \subseteq Peers
    /\ lost \subseteq Peers

\* bind
Init ==
    /\ stopped = FALSE
    /\ lastPeer = 0
    /\ registry = {}
    /\ mailbox = <<>>
    /\ events = <<>>
    /\ routes = [d \in Devices |-> NoPeer]
    /\ identity = [c \in Peers |-> NoDevice]
    /\ active = [c \in Peers |-> FALSE]
    /\ authorized = [c \in Peers |-> FALSE]
    /\ denied = [c \in Peers |-> FALSE]
    /\ reader = [c \in Peers |-> "None"]
    /\ acceptor = "Accepting"
    /\ counted = 0
    /\ owner = "Idle"
    /\ candidate = NoPeer
    /\ previous = NoPeer
    /\ reported = {}
    /\ lost = {}

EventsOpen == Len(events) < EventCapacity

Event(kind, c) == [kind |-> kind, peer |-> c]

\* PeerState::close
Close(peers) == active' = [c \in Peers |-> active[c] /\ c \notin peers]

-----------------------------------------------------------------------------
(* The accept thread *)

\* A connection arrives and the registry is counted.
Accept ==
    /\ acceptor = "Accepting"
    /\ ~stopped
    /\ lastPeer < MaxConnections
    /\ counted' = Cardinality(registry)
    /\ acceptor' = "Counted"
    /\ UNCHANGED <<stopped, lastPeer, registry, mailbox, events, routes, lost, peerVars, ownerVars>>

\* The accept loop sees the stop flag.
StopAccepting ==
    /\ acceptor = "Accepting"
    /\ stopped
    /\ acceptor' = "Done"
    /\ UNCHANGED <<stopped, lastPeer, counted, registry, mailbox, events, routes, lost, peerVars,
                   ownerVars>>

\* Mutant: terminals that were not collected do not count.
CheckRegistryOnly ==
    /\ acceptor = "Counted"
    /\ acceptor' = IF counted >= MaxPeers THEN "Accepting" ELSE "Admitted"
    /\ UNCHANGED <<stopped, lastPeer, counted, registry, mailbox, events, routes, lost, peerVars,
                   ownerVars>>

\* The mailbox is counted after the registry; a full host refuses.
CheckBudget ==
    /\ acceptor = "Counted"
    /\ acceptor' = IF counted + Len(mailbox) >= MaxPeers THEN "Accepting" ELSE "Admitted"
    /\ UNCHANGED <<stopped, lastPeer, counted, registry, mailbox, events, routes, lost, peerVars,
                   ownerVars>>

RegisterPeer ==
    /\ acceptor = "Admitted"
    /\ lastPeer' = lastPeer + 1
    /\ registry' = registry \cup {lastPeer'}
    /\ active' = [active EXCEPT ![lastPeer'] = TRUE]
    /\ acceptor' = "Registered"
    /\ UNCHANGED <<stopped, counted, mailbox, events, routes, lost, identity, authorized, denied,
                   reader, ownerVars>>

\* Mutant: the event queue is not bounded.
AnnounceUnbounded ==
    /\ acceptor = "Registered"
    /\ events' = Append(events, Event("Accepted", lastPeer))
    /\ acceptor' = "Announced"
    /\ UNCHANGED <<stopped, lastPeer, counted, registry, mailbox, routes, lost, peerVars,
                   ownerVars>>

\* PeerAccepted is queued; a queue that stays full, or a stop, undoes the
\* registration.
AnnouncePeer ==
    /\ acceptor = "Registered"
    /\ IF EventsOpen /\ ~stopped
       THEN /\ events' = Append(events, Event("Accepted", lastPeer))
            /\ acceptor' = "Announced"
            /\ UNCHANGED <<registry, active>>
       ELSE /\ Close({lastPeer})
            /\ registry' = registry \ {lastPeer}
            /\ acceptor' = "Accepting"
            /\ UNCHANGED events
    /\ UNCHANGED <<stopped, lastPeer, counted, mailbox, routes, lost, identity, authorized, denied,
                   reader, ownerVars>>

StartReader ==
    /\ acceptor = "Announced"
    /\ reader' = [reader EXCEPT ![lastPeer] = "Running"]
    /\ acceptor' = "Started"
    /\ UNCHANGED <<stopped, lastPeer, counted, registry, mailbox, events, routes, lost, identity,
                   active, authorized, denied, ownerVars>>

\* rollback_failed_peer_start: a worker thread could not be started.
StartFails ==
    /\ acceptor = "Announced"
    /\ Close({lastPeer})
    /\ registry' = registry \ {lastPeer}
    /\ IF EventsOpen /\ ~stopped
       THEN events' = Append(events, Event("Disconnected", lastPeer)) /\ UNCHANGED lost
       ELSE lost' = lost \cup {lastPeer} /\ UNCHANGED events
    /\ acceptor' = "Accepting"
    /\ UNCHANGED <<stopped, lastPeer, counted, mailbox, routes, identity, authorized, denied,
                   reader, ownerVars>>

FinishRegistration ==
    /\ acceptor = "Started"
    /\ IF stopped THEN Close({lastPeer}) ELSE UNCHANGED active
    /\ acceptor' = "Accepting"
    /\ UNCHANGED <<stopped, lastPeer, counted, registry, mailbox, events, routes, lost, identity,
                   authorized, denied, reader, ownerVars>>

AcceptorStep ==
    \/ Accept
    \/ StopAccepting
    \/ CheckBudget
    \/ RegisterPeer
    \/ AnnouncePeer
    \/ StartReader
    \/ StartFails
    \/ FinishRegistration

-----------------------------------------------------------------------------
(* The reader of connection c *)

\* The reader leaves its loop: the stream ended, a frame was refused or could
\* not be delivered in time, or the peer was closed.
ReaderEnds(c) ==
    /\ reader[c] = "Running"
    /\ reader' = [reader EXCEPT ![c] = "Unrouting"]
    /\ Close({c})
    /\ UNCHANGED <<stopped, registry, mailbox, events, routes, lost, identity, authorized, denied,
                   acceptorVars, ownerVars>>

\* The first JoinRequest gives the connection its identity.  A full queue
\* answers it with a busy refusal and ends the connection; later ones are
\* ignored, or end the connection if they name another device.
ReadJoin(c, d) ==
    /\ reader[c] = "Running"
    /\ identity[c] = NoDevice
    /\ identity' = [identity EXCEPT ![c] = d]
    /\ IF EventsOpen
       THEN events' = Append(events, Event("Frame", c)) /\ UNCHANGED <<active, reader>>
       ELSE /\ reader' = [reader EXCEPT ![c] = "Unrouting"]
            /\ Close({c})
            /\ UNCHANGED events
    /\ UNCHANGED <<stopped, registry, mailbox, routes, lost, authorized, denied, acceptorVars,
                   ownerVars>>

\* Heartbeat, Disconnect, ResyncNotice and SynchronizationReport.
ReadFrame(c) ==
    /\ reader[c] = "Running"
    /\ authorized[c]
    /\ EventsOpen
    /\ events' = Append(events, Event("Frame", c))
    /\ UNCHANGED <<stopped, registry, mailbox, routes, lost, peerVars, acceptorVars, ownerVars>>

\* Mutant: the route is removed by device, whoever owns it.
RemoveRouteOfDevice(c) ==
    /\ reader[c] = "Unrouting"
    /\ reader' = [reader EXCEPT ![c] = "Reporting"]
    /\ routes' = [d \in Devices |-> IF identity[c] = d THEN NoPeer ELSE routes[d]]
    /\ UNCHANGED <<stopped, registry, mailbox, events, lost, identity, active, authorized, denied,
                   acceptorVars, ownerVars>>

\* remove_route_if_current
RemoveRouteIfCurrent(c) ==
    /\ reader[c] = "Unrouting"
    /\ reader' = [reader EXCEPT ![c] = "Reporting"]
    /\ routes' = [d \in Devices |-> IF identity[c] = d /\ routes[d] = c THEN NoPeer ELSE routes[d]]
    /\ UNCHANGED <<stopped, registry, mailbox, events, lost, identity, active, authorized, denied,
                   acceptorVars, ownerVars>>


\* A full mailbox stops the transport.
PushTerminal(c) ==
    /\ reader[c] = "Reporting"
    /\ reader' = [reader EXCEPT ![c] = "Releasing"]
    /\ IF Len(mailbox) < MaxPeers
       THEN mailbox' = Append(mailbox, c) /\ UNCHANGED <<stopped, lost>>
       ELSE stopped' = TRUE /\ lost' = lost \cup {c} /\ UNCHANGED mailbox
    /\ UNCHANGED <<registry, events, routes, identity, active, authorized, denied, acceptorVars,
                   ownerVars>>

ReleaseSlot(c) ==
    /\ reader[c] = "Releasing"
    /\ reader' = [reader EXCEPT ![c] = "Done"]
    /\ registry' = registry \ {c}
    /\ UNCHANGED <<stopped, mailbox, events, routes, lost, identity, active, authorized, denied,
                   acceptorVars, ownerVars>>

ReaderExit(c) == RemoveRouteIfCurrent(c) \/ PushTerminal(c) \/ ReleaseSlot(c)

ReaderStep(c) ==
    \/ ReaderEnds(c)
    \/ \E d \in Devices : ReadJoin(c, d)
    \/ ReadFrame(c)
    \/ ReaderExit(c)

-----------------------------------------------------------------------------
(* The owner: authorize_peer_with_routes *)

\* Mutant: a connection that was refused may still be chosen.
PendingOrDenied(d) ==
    {c \in registry : active[c] /\ ~authorized[c] /\ identity[c] = d}

PendingPeers(d) ==
    {c \in registry : active[c] /\ ~authorized[c] /\ ~denied[c] /\ identity[c] = d}

Return == owner' = "Idle" /\ candidate' = NoPeer /\ previous' = NoPeer

\* pending_peer_for_device, before the delivery lock is taken.
SelectPeer(d) ==
    /\ owner = "Idle"
    /\ ~stopped
    /\ \E c \in Peers : PendingPeers(d) = {c} /\ candidate' = c
    /\ owner' = "Selected"
    /\ UNCHANGED <<stopped, registry, mailbox, events, routes, lost, peerVars, acceptorVars,
                   previous, reported>>

\* The same lookup under the lock, which must find the same connection, and a
\* second look at its activity.
RecheckPeer ==
    /\ owner = "Selected"
    /\ IF PendingPeers(identity[candidate]) = {candidate}
       THEN owner' = "Replaying" /\ UNCHANGED <<candidate, previous>>
       ELSE Return
    /\ UNCHANGED <<stopped, registry, mailbox, events, routes, lost, peerVars, acceptorVars,
                   reported>>

\* The cached playback controls are sent to the peer, which is closed when one
\* fails; then its activity is looked at again.
ReplayControls ==
    /\ owner = "Replaying"
    /\ \/ active[candidate] /\ owner' = "Routing" /\ UNCHANGED <<active, candidate, previous>>
       \/ ~active[candidate] /\ Return /\ UNCHANGED active
       \/ Return /\ Close({candidate})
    /\ UNCHANGED <<stopped, registry, mailbox, events, routes, lost, identity, authorized, denied,
                   reader, acceptorVars, reported>>

InstallRoute ==
    /\ owner = "Routing"
    /\ LET d == identity[candidate]
       IN  previous' = routes[d] /\ routes' = [routes EXCEPT ![d] = candidate]
    /\ authorized' = [authorized EXCEPT ![candidate] = TRUE]
    /\ owner' = "Publishing"
    /\ UNCHANGED <<stopped, registry, mailbox, events, lost, identity, active, denied, reader,
                   acceptorVars, candidate, reported>>

\* PeerAuthorized goes to the queue that this same thread would have to empty.
PublishAuthorized ==
    /\ owner = "Publishing"
    /\ IF EventsOpen /\ ~stopped
       THEN owner' = "Published" /\ events' = Append(events, Event("Authorized", candidate))
       ELSE owner' = "Unpublished" /\ UNCHANGED events
    /\ UNCHANGED <<stopped, registry, mailbox, routes, lost, peerVars, acceptorVars, candidate,
                   previous, reported>>

\* The replaced connection is retired only now.
CommitAuthorization ==
    /\ owner = "Published"
    /\ active[candidate]
    /\ authorized' = [c \in Peers |-> authorized[c] /\ c # previous]
    /\ Close({previous})
    /\ Return
    /\ UNCHANGED <<stopped, registry, mailbox, events, routes, lost, identity, denied, reader,
                   acceptorVars, reported>>

\* Mutant: the replaced route is put back whether or not it still lives.
RollBackRegardless ==
    /\ owner = "Unpublished" \/ (owner = "Published" /\ ~active[candidate])
    /\ authorized' = [authorized EXCEPT ![candidate] = FALSE]
    /\ LET d == identity[candidate]
       IN  routes' = IF routes[d] = candidate THEN [routes EXCEPT ![d] = previous] ELSE routes
    /\ Close({candidate})
    /\ Return
    /\ UNCHANGED <<stopped, registry, mailbox, events, lost, identity, denied, reader,
                   acceptorVars, reported>>

\* The event was not delivered, or the peer was lost meanwhile: the route goes
\* back to the connection it had, if that still lives.
RollBackAuthorization ==
    /\ owner = "Unpublished" \/ (owner = "Published" /\ ~active[candidate])
    /\ authorized' = [authorized EXCEPT ![candidate] = FALSE]
    /\ LET d == identity[candidate]
           old == IF previous # NoPeer /\ active[previous] THEN previous ELSE NoPeer
       IN  routes' = IF routes[d] = candidate THEN [routes EXCEPT ![d] = old] ELSE routes
    /\ Close({candidate})
    /\ Return
    /\ UNCHANGED <<stopped, registry, mailbox, events, lost, identity, denied, reader,
                   acceptorVars, reported>>

AuthorizationStep ==
    \/ RecheckPeer
    \/ ReplayControls
    \/ InstallRoute
    \/ PublishAuthorized
    \/ CommitAuthorization
    \/ RollBackAuthorization

-----------------------------------------------------------------------------
(* The owner: the other operations *)

\* disconnect_peer, and a Disconnect that send_disconnect delivered.
DisconnectPeer(d) ==
    /\ owner = "Idle"
    /\ routes[d] # NoPeer
    /\ routes' = [routes EXCEPT ![d] = NoPeer]
    /\ Close({routes[d]})
    /\ UNCHANGED <<stopped, registry, mailbox, events, lost, identity, authorized, denied, reader,
                   acceptorVars, ownerVars>>

\* A control that could not be delivered, or a listener that has been silent
\* for too long.
RetirePeer(d) ==
    /\ owner = "Idle"
    /\ routes[d] # NoPeer
    /\ active[routes[d]]
    /\ Close({routes[d]})
    /\ UNCHANGED <<stopped, registry, mailbox, events, routes, lost, identity, authorized, denied,
                   reader, acceptorVars, ownerVars>>

\* send_pending_control with a rejection or a disconnect that is delivered, or
\* with any admission control that is not.
RejectPendingPeer(d) ==
    /\ owner = "Idle"
    /\ \E c \in Peers :
          /\ PendingPeers(d) = {c}
          /\ denied' = [denied EXCEPT ![c] = TRUE]
          /\ UNCHANGED active \/ Close({c})
    /\ UNCHANGED <<stopped, registry, mailbox, events, routes, lost, identity, authorized,
                   reader, acceptorVars, ownerVars>>

\* reject_pending_peer_at: the refusal goes to one connection.
RejectPeerAt(c) ==
    /\ owner = "Idle"
    /\ c \in registry /\ active[c] /\ ~authorized[c] /\ identity[c] # NoDevice
    /\ denied' = [denied EXCEPT ![c] = TRUE]
    /\ Close({c})
    /\ UNCHANGED <<stopped, registry, mailbox, events, routes, lost, identity, authorized,
                   reader, acceptorVars, ownerVars>>

\* recv_event: the queue first.
CollectEvent ==
    /\ owner = "Idle"
    /\ events # <<>>
    /\ events' = Tail(events)
    /\ reported' = IF Head(events).kind = "Disconnected"
                   THEN reported \cup {Head(events).peer} ELSE reported
    /\ UNCHANGED <<stopped, registry, mailbox, routes, lost, peerVars, acceptorVars, owner,
                   candidate, previous>>

\* The queue was empty when it was looked at.
PollMailbox ==
    /\ owner = "Idle"
    /\ events = <<>>
    /\ owner' = "Polled"
    /\ UNCHANGED <<stopped, registry, mailbox, events, routes, lost, peerVars, acceptorVars,
                   candidate, previous, reported>>

CollectTerminal ==
    /\ owner = "Polled"
    /\ owner' = "Idle"
    /\ IF mailbox # <<>>
       THEN mailbox' = Tail(mailbox) /\ reported' = reported \cup {Head(mailbox)}
       ELSE UNCHANGED <<mailbox, reported>>
    /\ UNCHANGED <<stopped, registry, events, routes, lost, peerVars, acceptorVars, candidate,
                   previous>>

\* shutdown raises the flag,
Shutdown ==
    /\ owner = "Idle"
    /\ stopped' = TRUE
    /\ owner' = "Closing"
    /\ UNCHANGED <<registry, mailbox, events, routes, lost, peerVars, acceptorVars, candidate,
                   previous, reported>>

\* Mutant: only the peers with a route are closed.
CloseRoutedPeers ==
    /\ owner = "Closing"
    /\ Close({routes[d] : d \in Devices})
    /\ owner' = "Joining"
    /\ UNCHANGED <<stopped, registry, mailbox, events, routes, lost, identity, authorized, denied,
                   reader, acceptorVars, candidate, previous, reported>>

\* closes every registered peer,
ClosePeers ==
    /\ owner = "Closing"
    /\ Close(registry)
    /\ owner' = "Joining"
    /\ UNCHANGED <<stopped, registry, mailbox, events, routes, lost, identity, authorized, denied,
                   reader, acceptorVars, candidate, previous, reported>>

\* and joins the threads.
JoinWorkers ==
    /\ owner = "Joining"
    /\ acceptor = "Done"
    /\ \A c \in Peers : reader[c] \in {"None", "Done"}
    /\ owner' = "Down"
    /\ UNCHANGED <<stopped, registry, mailbox, events, routes, lost, peerVars, acceptorVars,
                   candidate, previous, reported>>

ShutdownStep == ClosePeers \/ JoinWorkers

OwnerStep ==
    \/ \E d \in Devices :
          SelectPeer(d) \/ DisconnectPeer(d) \/ RetirePeer(d) \/ RejectPendingPeer(d)
    \/ \E c \in Peers : RejectPeerAt(c)
    \/ AuthorizationStep
    \/ CollectEvent
    \/ PollMailbox
    \/ CollectTerminal
    \/ Shutdown
    \/ ShutdownStep

Next == AcceptorStep \/ OwnerStep \/ \E c \in Peers : ReaderStep(c)

Spec == Init /\ [][Next]_vars

\* Every thread keeps running and a closed connection's reader ends; nothing
\* has to connect, and the owner need not do anything but finish shutting down.
Fairness ==
    /\ WF_vars(AcceptorStep /\ ~Accept)
    /\ \A c \in Peers : WF_vars(~active[c] /\ ReaderEnds(c)) /\ WF_vars(ReaderExit(c))
    /\ WF_vars(ShutdownStep)

FairSpec == Spec /\ Fairness

-----------------------------------------------------------------------------
(* Properties *)

Terminals == {mailbox[i] : i \in DOMAIN mailbox}

\* "Retained terminals consume admission slots until collected": live peers and
\* uncollected terminals together never exceed max_peers, although the accept
\* thread reads the two counts at different times while readers move
\* connections from one to the other, so no reader ever meets a full mailbox
\* (spawn_accept_loop and the end of the reader).
JointBudget ==
    /\ Cardinality(registry \cup Terminals) <= MaxPeers
    /\ \A c \in Peers : reader[c] = "Reporting" => Len(mailbox) < MaxPeers


\* "A disconnected peer must not retain an authorized UDP route": whatever the
\* order in which an authorization and the end of the connection interleave, a
\* route that outlasts the authorization belongs to a connection whose reader
\* will still remove it.
NoDeadRoute ==
    owner \in {"Idle", "Polled"} =>
       \A d \in Devices : routes[d] # NoPeer => reader[routes[d]] \in {"Running", "Unrouting"}

\* "Never let its cleanup remove the replacement's live UDP route": the route of
\* a connection that stays alive changes only when a later connection of the
\* same device is being authorized.
LiveRouteIsKept ==
    [][\A d \in Devices :
          LET c == routes[d]
          IN  c # NoPeer /\ active'[c] /\ routes'[d] # c =>
                 owner = "Routing" /\ routes'[d] = candidate]_vars

\* "Once the host has refused this TCP attempt, a delayed approval cannot revive
\* it": a connection that was refused never gets a route, and the device of a
\* connection with a route is the one that it claimed.
RefusedStaysOut ==
    \A d \in Devices :
       routes[d] # NoPeer => ~denied[routes[d]] /\ identity[routes[d]] = d

\* Shutting down ends every thread, also when a connection is being accepted or
\* authorized peers are still connected (shutdown, join_workers).
ShutdownReturns == owner = "Closing" ~> owner = "Down"

\* "Even if publication eventually succeeds, a disconnected peer must not retain
\* an authorized UDP route or evict a still-live old route."
\* (authorization.rs:112): an authorized connection that is alive has its route.
OldRouteSurvives ==
    owner \in {"Idle", "Polled"} =>
       \A c \in Peers : active[c] /\ authorized[c] => routes[identity[c]] = c

\* "Drain older accepted/control events before a terminal whose reader has
\* already exited. Preserve per-peer causal order."  (node.rs:516): nothing of a
\* connection is still queued once its terminal event was collected.
CausalOrder ==
    \A i \in DOMAIN events : events[i].peer \notin reported
=============================================================================
