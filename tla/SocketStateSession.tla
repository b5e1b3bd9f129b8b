------------------------- MODULE SocketStateSession -------------------------
(***************************************************************************)
(* State replication between devices: SocketStateSession at both ends of a *)
(* connection, the TCPStateServer that accepts clients into slots and the  *)
(* TCPStateClient that connects and reconnects.                            *)
(*                                                                         *)
(* Each device publishes versioned states, keeps a copy of what others     *)
(* publish and a registry of what it wants to receive.  A worker handles   *)
(* received messages one at a time under the session's lock; application   *)
(* threads publish and change the registry, and the notifications they     *)
(* cause reach each session later, also under its lock.                    *)
(***************************************************************************)
EXTENDS Integers, Sequences, FiniteSets, SequencesExt

CONSTANTS Clients,        \* client devices, each with one session
          Server,         \* the server device
          Slots,          \* the server's sessions, as many as MaximumClients
          Types,          \* the states of TContract
          None, AnyDevice,
                          \* the zero DeviceIdentifier, the scope of every device
          Scopes,         \* the scopes applications subscribe with
          ExpectsServer,  \* is ExpectedRemoteDevice configured at the clients?
          Publishers,     \* the devices whose applications publish
          Threads,        \* application threads publishing on a device
          Unsubscribes,   \* do applications drop subscriptions?
          MaxVersion,     \* publications of a state, its initial value included
          MaxChanges,     \* registry changes, resynchronisations
          MaxResyncs,
          MaxDrops        \* connections lost

Sessions == Clients \cup Slots
Devices  == Clients \cup {Server}

\* A client's connection before the server accepts it.
Backlog(c) == <<c>>
Ends == Sessions \cup {Backlog(c) : c \in Clients}

\* Names are names of one thing, and every state has an initial version.
ASSUME SessionAssumption ==
  /\ Server \notin Clients /\ AnyDevice \notin Devices
  /\ Clients \cap Slots = {} /\ \A c \in Clients : Backlog(c) \notin Sessions
  /\ None \notin Devices \cup Types \cup Ends
  /\ Scopes \subseteq Devices \cup {AnyDevice} /\ Publishers \subseteq Devices
  /\ ExpectsServer \in BOOLEAN /\ Unsubscribes \in BOOLEAN
  /\ {Threads, MaxChanges, MaxResyncs, MaxDrops} \subseteq Nat /\ MaxVersion \in Nat \ {0}

Dev(s) == IF s \in Slots THEN Server ELSE s
Expected(s) == IF s \in Clients /\ ExpectsServer THEN Server ELSE None

VARIABLES
  version,      \* what each device's StatePublisher holds
  remote,       \* RemoteStateManager: the version each device has of each other's states
  available,    \* RemoteStateManager: the availability it records
  registry,     \* StateSubscriptionRegistry: descriptors <<scope, type>>
  ready,        \* _initialized of each session
  bound,        \* _remoteDevice
  subscribed,   \* _subscribers: the types the bound device is subscribed to
  peer,         \* the other end of the session's connection, None once it is severed
  inbox,        \* messages on their way to each end
  rejected,     \* has a message of the chunk being fed been refused?
  publishing,   \* publications whose notifications are not all delivered
  changing,     \* each device's registry change, likewise
  changes, resyncs, drops

core  == <<version, remote, available, registry>>
links == <<ready, bound, subscribed, peer, inbox, rejected>>
notes == <<publishing, changing>>
limits == <<changes, resyncs, drops>>
vars  == <<core, links, notes, limits>>

Message ==
  [kind : {"Subscribe", "SubscribeAcknowledgement", "Unsubscribe",
           "UnsubscribeAcknowledgement"}, device : Devices, type : Types]
  \cup [kind : {"Resynchronize"}, device : Devices, type : Types \cup {None}]
  \cup [kind : {"Disconnect"}, device : Devices]
  \cup [kind : {"Update", "Acknowledgement"}, device : Devices, type : Types,
        version : 1..MaxVersion]

Publication == [device : Devices, type : Types, version : 1..MaxVersion, todo : SUBSET Sessions]

Change == [op : {"Subscribe", "Unsubscribe"}, scope : Scopes, type : Types,
           todo : SUBSET Sessions]

TypeOK ==
  /\ version \in [Devices -> [Types -> 1..MaxVersion]]
  /\ remote \in [Devices -> [Devices -> [Types -> 0..MaxVersion]]]
  /\ available \in [Devices -> [Devices -> {"Unknown", "Connected", "Disconnected"}]]
  /\ registry \in [Devices -> SUBSET (Scopes \X Types)]
  /\ ready \in [Sessions -> BOOLEAN]
  /\ bound \in [Sessions -> Devices \cup {None}]
  /\ subscribed \in [Sessions -> SUBSET Types]
  /\ peer \in [Sessions -> Ends \cup {None}]
  /\ DOMAIN inbox = Ends /\ \A e \in Ends : \A i \in DOMAIN inbox[e] : inbox[e][i] \in Message
  /\ rejected \in [Sessions -> BOOLEAN]
  /\ publishing \subseteq Publication
  /\ \A d \in Devices : changing[d] \subseteq Change /\ Cardinality(changing[d]) =< 1
  /\ changes \in 0..MaxChanges /\ resyncs \in 0..MaxResyncs /\ drops \in 0..MaxDrops

Init ==
  /\ version = [d \in Devices |-> [t \in Types |-> 1]]
  /\ remote = [d \in Devices |-> [o \in Devices |-> [t \in Types |-> 0]]]
  /\ available = [d \in Devices |-> [o \in Devices |-> "Unknown"]]
  /\ registry = [d \in Devices |-> {}]
  /\ ready = [s \in Sessions |-> FALSE]
  /\ bound = [s \in Sessions |-> None]
  /\ subscribed = [s \in Sessions |-> {}]
  /\ peer = [s \in Sessions |-> None]
  /\ inbox = [e \in Ends |-> <<>>]
  /\ rejected = [s \in Sessions |-> FALSE]
  /\ publishing = {}
  /\ changing = [d \in Devices |-> {}]
  /\ changes = 0 /\ resyncs = 0 /\ drops = 0

-----------------------------------------------------------------------------
(* What a session sends.                                                   *)

\* Mutation: a control message names the peer instead of its sender.
ControlNamingPeer(s, kind, t) == [kind |-> kind, device |-> bound[s], type |-> t]

Control(s, kind, t) == [kind |-> kind, device |-> Dev(s), type |-> t]

Update(s, t, v) == [kind |-> "Update", device |-> Dev(s), type |-> t, version |-> v]

Snapshot(s, t) == Update(s, t, version[Dev(s)][t])

\* StateSubscriptionRegistry::IsSubscribed.
Wants(d, o, t) == <<AnyDevice, t>> \in registry[d] \/ <<o, t>> \in registry[d]

\* SubscriptionAppliesLocked, b being the device the session is bound to.
Applies(s, scope, b) ==
  \/ scope = AnyDevice
  \/ scope = (IF b # None THEN b ELSE Expected(s))

\* SendCurrentSubscriptionsLocked: one Subscribe for each descriptor.
Current(s, b) ==
  LET D == {x \in registry[Dev(s)] : Applies(s, x[1], b)}
  IN  [i \in 1..Cardinality(D) |-> Control(s, "Subscribe", SetToSeq(D)[i][2])]

\* Messages on a severed connection are lost.
Put(box, s, messages) ==
  IF peer[s] = None THEN box ELSE [box EXCEPT ![peer[s]] = @ \o messages]

\* Mutation: the availability of the bound device is left as it is.
EndSessionQuietly(s) ==
  /\ inbox' = [inbox EXCEPT ![s] = <<>>]
  /\ bound' = [bound EXCEPT ![s] = None]
  /\ subscribed' = [subscribed EXCEPT ![s] = {}]
  /\ ready' = [ready EXCEPT ![s] = FALSE]
  /\ rejected' = [rejected EXCEPT ![s] = FALSE]
  /\ peer' = [x \in Sessions |-> IF x = s \/ x = peer[s] THEN None ELSE peer[x]]
  /\ UNCHANGED available

\* ShutdownLocked(true), then the stop of the client socket.
EndSession(s) ==
  LET goodbye == IF bound[s] # None THEN <<[kind |-> "Disconnect", device |-> Dev(s)]>> ELSE <<>>
  IN  /\ inbox' = [Put(inbox, s, goodbye) EXCEPT ![s] = <<>>]
      /\ available' = IF bound[s] # None
                      THEN [available EXCEPT ![Dev(s)][bound[s]] = "Disconnected"]
                      ELSE available
      /\ bound' = [bound EXCEPT ![s] = None]
      /\ subscribed' = [subscribed EXCEPT ![s] = {}]
      /\ ready' = [ready EXCEPT ![s] = FALSE]
      /\ rejected' = [rejected EXCEPT ![s] = FALSE]
      /\ peer' = [x \in Sessions |-> IF x = s \/ x = peer[s] THEN None ELSE peer[x]]

-----------------------------------------------------------------------------
(* HandleProtocolMessageLocked, one action for each kind of message.       *)

Receive(s, kind) ==
  ready[s] /\ inbox[s] # <<>> /\ Head(inbox[s]).kind = kind

Received(s) == Head(inbox[s])

\* The device the session is bound to once BindPeerLocked has run, what that
\* sends, and the availability it records.
Peer(s) == IF bound[s] # None THEN bound[s] ELSE Received(s).device

\* Mutation: binding does not record the peer as connected.
BindSilently(s) == bound' = [bound EXCEPT ![s] = Peer(s)] /\ UNCHANGED available

Bind(s) ==
  /\ bound' = [bound EXCEPT ![s] = Peer(s)]
  /\ available' = IF bound[s] # None THEN available
                  ELSE [available EXCEPT ![Dev(s)][Peer(s)] = "Connected"]

Reply(s, messages) ==
  LET binding == IF bound[s] # None THEN <<>> ELSE Current(s, Peer(s))
  IN  inbox' = Put([inbox EXCEPT ![s] = Tail(@)], s, binding \o messages)

\* Mutation: a subscription is acknowledged without a snapshot.
ReceiveSubscribeWithoutSnapshot(s) ==
  /\ Receive(s, "Subscribe")
  /\ LET t == Received(s).type
     IN  /\ subscribed' = [subscribed EXCEPT ![s] = @ \cup {t}]
         /\ Reply(s, <<Control(s, "SubscribeAcknowledgement", t)>>)
  /\ Bind(s)
  /\ UNCHANGED <<version, remote, registry, ready, peer, rejected, notes, limits>>

ReceiveSubscribe(s) ==
  /\ Receive(s, "Subscribe")
  /\ LET t == Received(s).type
     IN  /\ subscribed' = [subscribed EXCEPT ![s] = @ \cup {t}]
         /\ Reply(s, <<Snapshot(s, t), Control(s, "SubscribeAcknowledgement", t)>>)
  /\ Bind(s)
  /\ UNCHANGED <<version, remote, registry, ready, peer, rejected, notes, limits>>

\* Mutation: an Unsubscribe is acknowledged without leaving the registry.
ReceiveUnsubscribeInVain(s) ==
  /\ Receive(s, "Unsubscribe")
  /\ Reply(s, <<Control(s, "UnsubscribeAcknowledgement", Received(s).type)>>)
  /\ Bind(s)
  /\ UNCHANGED <<version, remote, registry, ready, subscribed, peer, rejected, notes, limits>>

ReceiveUnsubscribe(s) ==
  /\ Receive(s, "Unsubscribe")
  /\ LET t == Received(s).type
     IN  /\ subscribed' = [subscribed EXCEPT ![s] = @ \ {t}]
         /\ Reply(s, <<Control(s, "UnsubscribeAcknowledgement", t)>>)
  /\ Bind(s)
  /\ UNCHANGED <<version, remote, registry, ready, peer, rejected, notes, limits>>

\* The types a Resynchronize asks for that the peer is subscribed to.
Resent(s) ==
  IF Received(s).type = None THEN subscribed[s] ELSE subscribed[s] \cap {Received(s).type}

ReceiveResynchronize(s) ==
  /\ Receive(s, "Resynchronize")
  /\ LET types == SetToSeq(Resent(s))
     IN  Reply(s, [i \in DOMAIN types |-> Snapshot(s, types[i])])
  /\ Bind(s)
  /\ UNCHANGED <<version, remote, registry, ready, subscribed, peer, rejected, notes, limits>>

\* The session stays bound, so the peer's later messages do not record it again.
ReceiveDisconnect(s) ==
  /\ Receive(s, "Disconnect")
  /\ subscribed' = [subscribed EXCEPT ![s] = {}]
  /\ bound' = [bound EXCEPT ![s] = Peer(s)]
  /\ available' = [available EXCEPT ![Dev(s)][Peer(s)] = "Disconnected"]
  /\ Reply(s, <<>>)
  /\ UNCHANGED <<version, remote, registry, ready, peer, rejected, notes, limits>>

\* The acknowledgements of a control message bind the session, that of an
\* update is handed to the application.
ReceiveAcknowledgement(s) ==
  /\ \/ (Receive(s, "SubscribeAcknowledgement") \/ Receive(s, "UnsubscribeAcknowledgement"))
        /\ Bind(s) /\ Reply(s, <<>>)
     \/ /\ Receive(s, "Acknowledgement")
        /\ inbox' = [inbox EXCEPT ![s] = Tail(@)]
        /\ UNCHANGED <<bound, available>>
  /\ UNCHANGED <<version, remote, registry, ready, subscribed, peer, rejected, notes, limits>>

\* An update is applied when it is wanted and not older than the copy.
Held(s) == remote[Dev(s)][Received(s).device][Received(s).type]

\* Mutation: an exact duplicate is refused.
AcceptableIfNewer(s) ==
  /\ Wants(Dev(s), Peer(s), Received(s).type)
  /\ Received(s).version > Held(s)

\* Mutation: revisions are not compared.
AcceptableIfWanted(s) == Wants(Dev(s), Peer(s), Received(s).type)

Acceptable(s) ==
  /\ Wants(Dev(s), Peer(s), Received(s).type)
  /\ Received(s).version >= Held(s)

ApplyUpdate(s) ==
  /\ Receive(s, "Update") /\ Acceptable(s)
  /\ LET m == Received(s)
     IN  /\ remote' = [remote EXCEPT ![Dev(s)][m.device][m.type] = m.version]
         /\ Reply(s, <<[m EXCEPT !.kind = "Acknowledgement"]>>)
  /\ Bind(s)
  /\ UNCHANGED <<version, registry, ready, subscribed, peer, rejected, notes, limits>>

\* The rest of the chunk is still handled; then the adapter ends the session.
RejectUpdate(s) ==
  /\ Receive(s, "Update") /\ ~Acceptable(s)
  /\ rejected' = [rejected EXCEPT ![s] = TRUE]
  /\ Reply(s, <<>>)
  /\ Bind(s)
  /\ UNCHANGED <<version, remote, registry, ready, subscribed, peer, notes, limits>>

Handle(s) ==
  \/ ReceiveSubscribe(s) \/ ReceiveUnsubscribe(s) \/ ReceiveResynchronize(s)
  \/ ReceiveDisconnect(s) \/ ReceiveAcknowledgement(s) \/ ApplyUpdate(s) \/ RejectUpdate(s)

-----------------------------------------------------------------------------
(* The adapters' worker iterations.                                        *)

\* Mutation: a session starts without sending its current subscriptions.
OpenSilently(s, end, box) ==
  LET x == Expected(s)
  IN  /\ ready' = [ready EXCEPT ![s] = TRUE]
      /\ bound' = [bound EXCEPT ![s] = x]
      /\ available' = IF x # None THEN [available EXCEPT ![Dev(s)][x] = "Connected"] ELSE available
      /\ inbox' = box
      /\ UNCHANGED <<version, remote, registry, subscribed, rejected, notes, limits>>

\* SocketStateSession::Initialize on a connection to the given end.
Open(s, end, box) ==
  LET x == Expected(s)
      twice == IF x # None THEN Current(s, x) \o Current(s, x) ELSE Current(s, None)
  IN  /\ ready' = [ready EXCEPT ![s] = TRUE]
      /\ bound' = [bound EXCEPT ![s] = x]
      /\ available' = IF x # None THEN [available EXCEPT ![Dev(s)][x] = "Connected"] ELSE available
      /\ inbox' = [box EXCEPT ![end] = @ \o twice]
      /\ UNCHANGED <<version, remote, registry, subscribed, rejected, notes, limits>>

\* EnsureConnectedLocked of a client without a session.
Connect(c) ==
  /\ ~ready[c]
  /\ peer' = [peer EXCEPT ![c] = Backlog(c)]
  /\ Open(c, Backlog(c), inbox)

\* AcceptClientLocked takes the first free slot; slots are alike, so any will do.
Accept(k, c) ==
  /\ peer[c] = Backlog(c)
  /\ ~ready[k]
  /\ peer' = [peer EXCEPT ![c] = k, ![k] = c]
  /\ Open(k, c, [inbox EXCEPT ![k] = inbox[Backlog(c)], ![Backlog(c)] = <<>>])

\* Every slot is taken, be it by a connection whose loss was not noticed yet:
\* the new connection is stopped.
Refuse(c) ==
  /\ peer[c] = Backlog(c)
  /\ \A k \in Slots : ready[k]
  /\ peer' = [peer EXCEPT ![c] = None]
  /\ inbox' = [inbox EXCEPT ![Backlog(c)] = <<>>]
  /\ UNCHANGED <<core, ready, bound, subscribed, rejected, notes, limits>>

\* Mutation: the result of Feed is ignored.
ResetSessionIfSevered(s) ==
  /\ ready[s] /\ peer[s] = None
  /\ EndSession(s)
  /\ UNCHANGED <<version, remote, registry, notes, limits>>

\* Feed returned false, or connected() did, which may take a while to notice
\* that a connection is lost: DisconnectLocked, ResetClient.
ResetSession(s) ==
  /\ ready[s] /\ (rejected[s] \/ peer[s] = None)
  /\ EndSession(s)
  /\ UNCHANGED <<version, remote, registry, notes, limits>>

\* The network loses a connection, and all but a first part of what is in
\* flight to each end.
Drop(c) ==
  LET k == peer[c]
      FirstPart(e) == 0..(IF e \in Sessions THEN Len(inbox[e]) ELSE 0)
  IN  /\ drops < MaxDrops /\ k # None
      /\ drops' = drops + 1
      /\ peer' = [s \in Sessions |-> IF s = c \/ s = k THEN None ELSE peer[s]]
      /\ \E i \in FirstPart(c), j \in FirstPart(k) :
           inbox' = [inbox EXCEPT ![c] = SubSeq(@, 1, i), ![k] = SubSeq(@, 1, j)]
      /\ UNCHANGED <<core, ready, bound, subscribed, rejected, notes, changes, resyncs>>

-----------------------------------------------------------------------------
(* Application threads.  A notification takes the lock of the session it   *)
(* reaches, between two of its messages or after its last one.             *)

SessionsOf(d) == {s \in Sessions : ready[s] /\ Dev(s) = d}

Publish(d, t) ==
  /\ version[d][t] < MaxVersion
  /\ Cardinality({p \in publishing : p.device = d}) < Threads
  /\ version' = [version EXCEPT ![d][t] = @ + 1]
  /\ publishing' =
       IF SessionsOf(d) = {} THEN publishing
       ELSE publishing \cup {[device |-> d, type |-> t, version |-> version[d][t] + 1,
                              todo |-> SessionsOf(d)]}
  /\ UNCHANGED <<remote, available, registry, links, changing, limits>>

\* A record of notifications without session s, or none when s was the last.
Without(n, s) == IF n.todo = {s} THEN {} ELSE {[n EXCEPT !.todo = @ \ {s}]}

\* Mutation: a publication is sent whatever the peer is subscribed to.
NotifyPublishedToAll(p, s) ==
  /\ s \in p.todo
  /\ inbox' = IF ready[s] THEN Put(inbox, s, <<Update(s, p.type, p.version)>>) ELSE inbox
  /\ publishing' = (publishing \ {p}) \cup Without(p, s)
  /\ UNCHANGED <<core, ready, bound, subscribed, peer, rejected, changing, limits>>

\* Mutation: a session with a message to handle is passed over, not waited for.
NotifyPublishedIfIdle(p, s) ==
  /\ s \in p.todo
  /\ inbox' = IF ready[s] /\ p.type \in subscribed[s] /\ inbox[s] = <<>>
              THEN Put(inbox, s, <<Update(s, p.type, p.version)>>) ELSE inbox
  /\ publishing' = (publishing \ {p}) \cup Without(p, s)
  /\ UNCHANGED <<core, ready, bound, subscribed, peer, rejected, changing, limits>>

\* OnTypedStatePublished.
NotifyPublished(p, s) ==
  /\ s \in p.todo
  /\ inbox' = IF ready[s] /\ p.type \in subscribed[s]
              THEN Put(inbox, s, <<Update(s, p.type, p.version)>>) ELSE inbox
  /\ publishing' = (publishing \ {p}) \cup Without(p, s)
  /\ UNCHANGED <<core, ready, bound, subscribed, peer, rejected, changing, limits>>

ChangeRegistry(d, op, x) ==
  /\ changes < MaxChanges /\ changing[d] = {}
  /\ x[1] # d /\ IF op = "Subscribe" THEN x \notin registry[d] ELSE Unsubscribes /\ x \in registry[d]
  /\ changes' = changes + 1
  /\ registry' = [registry EXCEPT ![d] = IF op = "Subscribe" THEN @ \cup {x} ELSE @ \ {x}]
  /\ changing' = [changing EXCEPT ![d] =
                    IF SessionsOf(d) = {} THEN {}
                    ELSE {[op |-> op, scope |-> x[1], type |-> x[2], todo |-> SessionsOf(d)]}]
  /\ UNCHANGED <<version, remote, available, links, publishing, resyncs, drops>>

\* OnStateSubscribed, OnStateUnsubscribed.
NotifyChanged(d, n, s) ==
  /\ s \in n.todo
  /\ inbox' = IF ready[s] /\ Applies(s, n.scope, bound[s])
              THEN Put(inbox, s, <<Control(s, n.op, n.type)>>) ELSE inbox
  /\ changing' = [changing EXCEPT ![d] = Without(n, s)]
  /\ UNCHANGED <<core, ready, bound, subscribed, peer, rejected, publishing, limits>>

\* RequestResynchronization of one type, or of all.  Only clients offer it, and
\* it waits for _clientMutex, which an iteration holds until the session is reset.
Resynchronize(c, t) ==
  /\ resyncs < MaxResyncs /\ ready[c] /\ ~rejected[c]
  /\ resyncs' = resyncs + 1
  /\ inbox' = Put(inbox, c, <<Control(c, "Resynchronize", t)>>)
  /\ UNCHANGED <<core, ready, bound, subscribed, peer, rejected, notes, changes, drops>>

-----------------------------------------------------------------------------
Notify == \/ \E p \in publishing : \E s \in p.todo : NotifyPublished(p, s)
          \/ \E d \in Devices : \E n \in changing[d] : \E s \in n.todo : NotifyChanged(d, n, s)

AcceptAny == \E c \in Clients : Refuse(c) \/ \E k \in Slots : Accept(k, c)

Application == \/ \E d \in Publishers, t \in Types : Publish(d, t)
               \/ \E d \in Devices, op \in {"Subscribe", "Unsubscribe"}, x \in Scopes \X Types :
                    ChangeRegistry(d, op, x)
               \/ \E c \in Clients, t \in Types \cup {None} : Resynchronize(c, t)

Next == \/ \E s \in Sessions : Handle(s) \/ ResetSession(s)
        \/ \E c \in Clients : Connect(c) \/ Drop(c)
        \/ AcceptAny \/ Notify \/ Application

Spec == Init /\ [][Next]_vars

\* Workers iterate for ever, and a notification gets the lock it waits for.
Fairness == /\ \A s \in Sessions : WF_vars(Handle(s)) /\ WF_vars(ResetSession(s))
            /\ \A c \in Clients : WF_vars(Connect(c))
            /\ WF_vars(AcceptAny) /\ WF_vars(Notify)

FairSpec == Spec /\ Fairness

-----------------------------------------------------------------------------
\* Everything sent has been handled on the connection of a client and slot.
Settled(c, k) ==
  /\ peer[c] = k /\ ready[c] /\ ready[k]
  /\ \A s \in {c, k} : inbox[s] = <<>> /\ ~rejected[s]
  /\ publishing = {} /\ \A d \in Devices : changing[d] = {}

(* A device is recorded as Connected only while a session is bound to it.  *)
AvailabilityHasSession ==
  \A d, o \in Devices :
    available[d][o] = "Connected" =>
      \E s \in Sessions : Dev(s) = d /\ ready[s] /\ bound[s] = o

(* With a single slot a reconnecting client finds its old session ended    *)
(* before the new one starts, so both sides of a settled connection that   *)
(* know each other record each other as Connected.                         *)
AvailabilityCurrent ==
  \A c \in Clients, k \in Slots : Settled(c, k) =>
    /\ bound[c] # None => available[c][Server] = "Connected"
    /\ bound[k] # None => available[Server][c] = "Connected"

(* The subscriber registry, the notifications and the snapshots agree under *)
(* the session's lock: an update still on its way for a type the peer is    *)
(* not subscribed to any more precedes the UnsubscribeAcknowledgement.      *)
UpdatesPrecedeUnsubscribe ==
  \A s \in Sessions : (ready[s] /\ peer[s] # None) =>
    LET box == inbox[peer[s]]
    IN  \A i \in DOMAIN box :
          (box[i].kind = "Update" /\ box[i].type \notin subscribed[s]) =>
            \E j \in (i + 1)..Len(box) :
              box[j].kind = "UnsubscribeAcknowledgement" /\ box[j].type = box[i].type

(* Where applications keep their subscriptions and one thread publishes, a *)
(* session refuses a message only on a connection that is severed already: *)
(* it makes the adapter reset no healthy connection.  What the decoder may *)
(* reject of the bytes is the matter of SocketStateFrame.                  *)
HealthyConnectionNotReset == \A s \in Sessions : rejected[s] => peer[s] = None

(* "Local subscriptions are propagated" (README.md, State integration): on *)
(* a settled connection each side is subscribed to what the registry of    *)
(* the other asks of it.                                                   *)
SubscriptionsPropagated ==
  \A c \in Clients, k \in Slots : Settled(c, k) =>
    /\ subscribed[k] = {t \in Types : Wants(c, Server, t)}
    /\ subscribed[c] = {t \in Types : Wants(Server, c, t)}

(* "Later publications update remote repositories" (README.md, State       *)
(* integration): on a settled connection each side's copy of a state it is *)
(* subscribed to is what the other holds.                                  *)
CopiesCurrent ==
  \A c \in Clients, k \in Slots : Settled(c, k) =>
    /\ \A t \in subscribed[k] : remote[c][Server][t] = version[Server][t]
    /\ \A t \in subscribed[c] : remote[Server][c][t] = version[c][t]

Synchronised ==
  \A c \in Clients :
    /\ \E k \in Slots : Settled(c, k)
    /\ \A t \in Types : Wants(c, Server, t) => remote[c][Server][t] = version[Server][t]
    /\ \A t \in Types : Wants(Server, c, t) => remote[Server][c][t] = version[c][t]

(* Whatever is lost, reordered by racing publishers or sent twice by       *)
(* reconnecting, a copy is a version its device published and never goes   *)
(* back: the sessions implement state replication.                         *)
Replication == INSTANCE StateReplication
                 WITH Devices <- Devices, Types <- Types, version <- version, remote <- remote
ImplementsReplication == Replication!Spec

(* Once the applications and the network are quiet every client has a      *)
(* session and every copy asked for is current, for good.                  *)
Converges == <>[]Synchronised
=============================================================================
