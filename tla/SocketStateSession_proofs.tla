---------------------- MODULE SocketStateSession_proofs ----------------------
(***************************************************************************)
(* What state replication guarantees for any clients, slots, states and    *)
(* applications: proofs about SocketStateSession.                          *)
(***************************************************************************)
EXTENDS SocketStateSession, SequenceTheorems, FiniteSetTheorems, TLAPS

-----------------------------------------------------------------------------
(* Lists and messages.                                                     *)

(* A finite set is listed once, completely.                                *)
LEMMA Listing ==
  ASSUME NEW S, IsFiniteSet(S)
  PROVE  /\ Cardinality(S) \in Nat
         /\ SetToSeq(S) \in [1..Cardinality(S) -> S]
         /\ SetToSeq(S) \in Seq(S) /\ DOMAIN SetToSeq(S) = 1..Cardinality(S)
         /\ \A x \in S : \E i \in 1..Cardinality(S) : SetToSeq(S)[i] = x
<1> DEFINE n == Cardinality(S)
<1>1. n \in Nat /\ ExistsBijection(1..n, S)
  BY FS_CardinalityType
<1>2. \E f \in [1..n -> S] : IsInjective(f)
  BY <1>1 DEF ExistsBijection, Bijection, Injection
<1>3. SetToSeq(S) \in [1..n -> S] /\ IsInjective(SetToSeq(S))
  BY <1>2 DEF SetToSeq
<1>4. SetToSeq(S) \in Injection(1..n, S)
  BY <1>3 DEF Injection
<1>5. IsFiniteSet(1..n) /\ Cardinality(1..n) = n
  BY <1>1, FS_Interval
<1>6. SetToSeq(S) \in Surjection(1..n, S)
  BY <1>4, <1>5, FS_Injection
<1>7. SetToSeq(S) \in Seq(S)
  BY <1>1, <1>3, SeqDef
<1> QED
  BY <1>1, <1>3, <1>6, <1>7 DEF Surjection

(* An entry of a table, of two and of three keys, is replaced.             *)
LEMMA TableEntry ==
  ASSUME NEW A, NEW B, NEW C, NEW f \in [A -> [B -> C]], NEW a \in A, NEW b \in B, NEW v \in C
  PROVE  /\ [f EXCEPT ![a][b] = v] \in [A -> [B -> C]]
         /\ \A x \in A, y \in B : [f EXCEPT ![a][b] = v][x][y] = IF x = a /\ y = b THEN v ELSE f[x][y]
<1>1. [f EXCEPT ![a][b] = v] = [f EXCEPT ![a] = [f[a] EXCEPT ![b] = v]]
  OBVIOUS
<1>2. [f[a] EXCEPT ![b] = v] \in [B -> C]
  OBVIOUS
<1> QED
  BY <1>1, <1>2

(* A message names its sender, and a type unless it says goodbye.          *)
LEMMA MessageFields ==
  ASSUME NEW m \in Message
  PROVE  /\ m.device \in Devices
         /\ m.kind \in {"Subscribe", "SubscribeAcknowledgement", "Unsubscribe",
                        "UnsubscribeAcknowledgement", "Resynchronize", "Disconnect",
                        "Update", "Acknowledgement"}
         /\ m.kind \in {"Subscribe", "SubscribeAcknowledgement", "Unsubscribe",
                        "UnsubscribeAcknowledgement", "Update", "Acknowledgement"} => m.type \in Types
         /\ m.kind = "Resynchronize" => m.type \in Types \cup {None}
         /\ m.kind = "Update" => /\ m.version \in 1..MaxVersion
                                 /\ m = [kind |-> "Update", device |-> m.device,
                                         type |-> m.type, version |-> m.version]
BY DEF Message

(* Sessions are of devices.                                                *)
LEMMA Owners ==
  ASSUME NEW s \in Sessions
  PROVE  /\ Dev(s) \in Devices /\ Expected(s) \in Devices \cup {None}
         /\ s \in Clients => Dev(s) = s /\ s \notin Slots
         /\ s \in Slots => Dev(s) = Server /\ s \notin Clients /\ Expected(s) = None
         /\ s \in Ends /\ s # None
BY SessionAssumption DEF Dev, Expected, Sessions, Devices, Ends

(* What sessions send are messages.                                        *)
LEMMA SentAreMessages ==
  ASSUME NEW s \in Sessions, NEW t \in Types
  PROVE  /\ \A kind \in {"Subscribe", "SubscribeAcknowledgement", "Unsubscribe",
                         "UnsubscribeAcknowledgement", "Resynchronize"} : Control(s, kind, t) \in Message
         /\ Control(s, "Resynchronize", None) \in Message
         /\ \A v \in 1..MaxVersion : Update(s, t, v) \in Message
         /\ [kind |-> "Disconnect", device |-> Dev(s)] \in Message
BY Owners DEF Control, Update, Message

-----------------------------------------------------------------------------
(* Types.                                                                  *)

StatesTyped ==
  /\ version \in [Devices -> [Types -> 1..MaxVersion]]
  /\ remote \in [Devices -> [Devices -> [Types -> 0..MaxVersion]]]
  /\ available \in [Devices -> [Devices -> {"Unknown", "Connected", "Disconnected"}]]
  /\ registry \in [Devices -> SUBSET (Scopes \X Types)]
  /\ \A d \in Devices : IsFiniteSet(registry[d])

LinksTyped ==
  /\ ready \in [Sessions -> BOOLEAN]
  /\ bound \in [Sessions -> Devices \cup {None}]
  /\ subscribed \in [Sessions -> SUBSET Types]
  /\ \A s \in Sessions : IsFiniteSet(subscribed[s])
  /\ peer \in [Sessions -> Ends \cup {None}]
  /\ \A s \in Sessions : peer[s] # s
  /\ rejected \in [Sessions -> BOOLEAN]

NotesTyped ==
  /\ publishing \subseteq Publication
  /\ changing \in [Devices -> SUBSET Change]
  /\ \A d \in Devices : changing[d] = {} \/ \E n \in changing[d] : changing[d] = {n}

LimitsTyped == changes \in 0..MaxChanges /\ resyncs \in 0..MaxResyncs /\ drops \in 0..MaxDrops

Typed == StatesTyped /\ LinksTyped /\ NotesTyped /\ LimitsTyped /\ inbox \in [Ends -> Seq(Message)]

(* The strengthened types are types.                                       *)
LEMMA TypedIsTyped == Typed => TypeOK
<1> SUFFICES ASSUME Typed PROVE TypeOK
  OBVIOUS
<1>1. \A e \in Ends : \A i \in DOMAIN inbox[e] : inbox[e][i] \in Message
  BY ElementOfSeq, LenProperties DEF Typed
<1>2. \A d \in Devices : Cardinality(changing[d]) =< 1
  <2> TAKE d \in Devices
  <2>1. changing[d] = {} \/ \E n : changing[d] = {n}
    BY DEF Typed, NotesTyped
  <2>2. changing[d] = {} => Cardinality(changing[d]) = 0
    BY FS_EmptySet
  <2>3. \A n : Cardinality({n}) = 1
    BY FS_Singleton
  <2> QED
    BY <2>1, <2>2, <2>3, SMTT(30)
<1>3. DOMAIN inbox = Ends /\ \A d \in Devices : changing[d] \subseteq Change
  BY DEF Typed, NotesTyped
<1> QED
  BY <1>1, <1>2, <1>3 DEF Typed, StatesTyped, LinksTyped, NotesTyped, LimitsTyped, TypeOK

(* Initially.                                                              *)
LEMMA TypedInit == Init => Typed
<1> SUFFICES ASSUME Init PROVE Typed
  OBVIOUS
<1>1. StatesTyped
  BY SessionAssumption, FS_EmptySet DEF Init, StatesTyped
<1>2. LinksTyped
  BY SessionAssumption, FS_EmptySet, Owners DEF Init, LinksTyped
<1>3. NotesTyped /\ LimitsTyped
  BY SessionAssumption DEF Init, NotesTyped, LimitsTyped
<1>4. inbox \in [Ends -> Seq(Message)]
  BY EmptySeq DEF Init
<1> QED
  BY <1>1, <1>2, <1>3, <1>4 DEF Typed

-----------------------------------------------------------------------------
(* The effect of the actions on the messages on their way.                 *)

\* What is on its way to an end.
At(e) == {inbox[e][i] : i \in DOMAIN inbox[e]}

Said(messages) == {messages[i] : i \in DOMAIN messages}

\* Session s takes its first message, or none, and says some to its peer.
Talks(s, hears, said) ==
  /\ said \in Seq(Message) /\ UNCHANGED peer
  /\ inbox' \in [Ends -> Seq(Message)]
  /\ hears => inbox[s] # <<>>
  /\ inbox'[s] = IF hears THEN Tail(inbox[s]) ELSE inbox[s]
  /\ peer[s] # None => inbox'[peer[s]] = inbox[peer[s]] \o said
  /\ \A e \in Ends \ {s, peer[s]} : inbox'[e] = inbox[e]

(* Put appends to what is on its way to the peer.                          *)
LEMMA PutAppends ==
  ASSUME NEW s \in Sessions, NEW box \in [Ends -> Seq(Message)], NEW said \in Seq(Message),
         LinksTyped
  PROVE  /\ Put(box, s, said) \in [Ends -> Seq(Message)]
         /\ peer[s] # None => Put(box, s, said)[peer[s]] = box[peer[s]] \o said
         /\ \A e \in Ends : e # peer[s] => Put(box, s, said)[e] = box[e]
<1>1. CASE peer[s] = None
  BY <1>1, Owners DEF Put, LinksTyped
<1>2. CASE peer[s] # None
  <2>1. peer[s] \in Ends
    BY <1>2 DEF LinksTyped
  <2>2. box[peer[s]] \o said \in Seq(Message)
    BY <2>1, ConcatProperties
  <2> QED
    BY <1>2, <2>1, <2>2 DEF Put
<1> QED
  BY <1>1, <1>2

(* A session that sends without receiving.                                 *)
LEMMA PutTalks ==
  ASSUME NEW s \in Sessions, NEW said \in Seq(Message), Typed, UNCHANGED peer,
         inbox' = Put(inbox, s, said)
  PROVE  Talks(s, FALSE, said)
<1>1. /\ Put(inbox, s, said) \in [Ends -> Seq(Message)]
      /\ peer[s] # None => Put(inbox, s, said)[peer[s]] = inbox[peer[s]] \o said
      /\ \A e \in Ends : e # peer[s] => Put(inbox, s, said)[e] = inbox[e]
  BY PutAppends DEF Typed
<1>2. s \in Ends /\ peer[s] # s
  BY Owners DEF Typed, LinksTyped
<1> QED
  BY <1>1, <1>2 DEF Talks

(* A session that keeps silent.                                            *)
LEMMA SilenceTalks ==
  ASSUME NEW s \in Sessions, Typed, UNCHANGED <<peer, inbox>>
  PROVE  Talks(s, FALSE, <<>>)
<1>1. <<>> \in Seq(Message)
  BY EmptySeq
<1>2. \A e \in Ends : inbox[e] \o <<>> = inbox[e]
  BY ConcatEmptySeq DEF Typed
<1> QED
  BY <1>1, <1>2, Owners DEF Talks, Typed, LinksTyped

(* A session that handles its first message.                               *)
LEMMA ReplyTalks ==
  ASSUME NEW s \in Sessions, NEW said \in Seq(Message), Typed, UNCHANGED peer, inbox[s] # <<>>,
         inbox' = Put([inbox EXCEPT ![s] = Tail(@)], s, said)
  PROVE  Talks(s, TRUE, said)
<1> DEFINE box == [inbox EXCEPT ![s] = Tail(@)]
<1>1. s \in Ends /\ inbox[s] \in Seq(Message) /\ peer[s] # s
  BY Owners DEF Typed, LinksTyped
<1>2. Tail(inbox[s]) \in Seq(Message)
  BY <1>1, HeadTailProperties
<1>3. /\ box \in [Ends -> Seq(Message)] /\ box[s] = Tail(inbox[s])
      /\ \A e \in Ends \ {s} : box[e] = inbox[e]
  BY <1>1, <1>2 DEF Typed
<1> HIDE DEF box
<1>4. /\ Put(box, s, said) \in [Ends -> Seq(Message)]
      /\ peer[s] # None => Put(box, s, said)[peer[s]] = box[peer[s]] \o said
      /\ \A e \in Ends : e # peer[s] => Put(box, s, said)[e] = box[e]
  BY <1>3, PutAppends DEF Typed
<1>5. inbox' = Put(box, s, said)
  BY DEF box
<1> QED
  BY <1>1, <1>3, <1>4, <1>5 DEF Talks, Typed, LinksTyped

(* Elements of the list operators.                                         *)
LEMMA SaidAfter ==
  ASSUME NEW a \in Seq(Message), NEW b \in Seq(Message)
  PROVE  /\ Said(a \o b) = Said(a) \cup Said(b)
         /\ a # <<>> => Said(Tail(a)) \subseteq Said(a) /\ Head(a) \in Said(a) \cap Message
         /\ Said(<<>>) = {}
         /\ \A m \in Message : Said(<<m>>) = {m} /\ <<m>> \in Seq(Message)
<1>1. Said(a \o b) = Said(a) \cup Said(b)
  <2>1. /\ Len(a) \in Nat /\ Len(b) \in Nat
        /\ DOMAIN a = 1..Len(a) /\ DOMAIN b = 1..Len(b)
        /\ DOMAIN (a \o b) = 1..(Len(a) + Len(b))
        /\ \A i \in 1..(Len(a) + Len(b)) : (a \o b)[i] = IF i =< Len(a) THEN a[i] ELSE b[i - Len(a)]
    BY ConcatProperties, LenProperties
  <2>2. \A i \in DOMAIN b : (a \o b)[i + Len(a)] = b[i] /\ i + Len(a) \in DOMAIN (a \o b)
    BY <2>1
  <2>3. \A i \in DOMAIN a : (a \o b)[i] = a[i] /\ i \in DOMAIN (a \o b)
    BY <2>1
  <2>4. \A i \in DOMAIN (a \o b) : (i \in DOMAIN a /\ (a \o b)[i] = a[i])
                                   \/ (i - Len(a) \in DOMAIN b /\ (a \o b)[i] = b[i - Len(a)])
    BY <2>1
  <2>5. ASSUME NEW x \in Said(a \o b) PROVE x \in Said(a) \cup Said(b)
    BY <2>4 DEF Said
  <2>6. ASSUME NEW x \in Said(a) PROVE x \in Said(a \o b)
    BY <2>3 DEF Said
  <2>7. ASSUME NEW x \in Said(b) PROVE x \in Said(a \o b)
    BY <2>2 DEF Said
  <2> QED
    BY <2>5, <2>6, <2>7
<1>2. ASSUME a # <<>> PROVE Said(Tail(a)) \subseteq Said(a) /\ Head(a) \in Said(a) \cap Message
  <2>1. /\ Tail(a) \in Seq(Message) /\ Head(a) = a[1] /\ Head(a) \in Message
        /\ Len(a) \in Nat \ {0} /\ Len(Tail(a)) = Len(a) - 1
        /\ DOMAIN a = 1..Len(a) /\ DOMAIN Tail(a) = 1..Len(Tail(a))
        /\ \A i \in 1..Len(Tail(a)) : Tail(a)[i] = a[i + 1]
    BY <1>2, HeadTailProperties, LenProperties, EmptySeq
  <2>2. \A i \in DOMAIN Tail(a) : i + 1 \in DOMAIN a
    BY <2>1
  <2> QED
    BY <2>1, <2>2 DEF Said
<1>3. Said(<<>>) = {} /\ \A m \in Message : Said(<<m>>) = {m} /\ <<m>> \in Seq(Message)
  BY DEF Said
<1> QED
  BY <1>1, <1>2, <1>3

(* What is on its way after a session has talked.                          *)
LEMMA TalksAt ==
  ASSUME NEW s \in Sessions, NEW hears \in BOOLEAN, NEW said, Typed, Talks(s, hears, said)
  PROVE  /\ \A e \in Ends : At(e)' \subseteq At(e) \cup (IF e = peer[s] THEN Said(said) ELSE {})
         /\ \A e \in Ends : e = peer[s] => At(e)' = At(e) \cup Said(said)
         /\ \A e \in Ends \ {s} : At(e) \subseteq At(e)'
         /\ hears => At(s) = At(s)' \cup {Head(inbox[s])} /\ Head(inbox[s]) \in At(s)
<1>1. \A e \in Ends : At(e) = Said(inbox[e]) /\ At(e)' = Said(inbox'[e])
  BY DEF At, Said
<1>2. ASSUME NEW e \in Ends, e = peer[s] PROVE At(e)' = At(e) \cup Said(said)
  <2>1. inbox'[e] = inbox[e] \o said /\ inbox[e] \in Seq(Message) /\ said \in Seq(Message)
    BY <1>2, SessionAssumption DEF Talks, Typed
  <2>2. Said(inbox'[e]) = Said(inbox[e]) \cup Said(said)
    BY <2>1, SaidAfter
  <2> QED
    BY <1>1, <2>2
<1>3. \A e \in Ends \ {s, peer[s]} : At(e)' = At(e)
  BY <1>1 DEF Talks
<1>4. ~hears => At(s)' = At(s)
  BY <1>1, Owners DEF Talks
<1>5. hears => At(s) = At(s)' \cup {Head(inbox[s])} /\ Head(inbox[s]) \in At(s)
  <2> SUFFICES ASSUME hears PROVE At(s) = At(s)' \cup {Head(inbox[s])}
    OBVIOUS
  <2>1. s \in Ends /\ inbox[s] \in Seq(Message) /\ inbox[s] # <<>> /\ inbox'[s] = Tail(inbox[s])
    BY Owners DEF Talks, Typed
  <2> DEFINE a == inbox[s]
  <2>2. a \in Seq(Message) /\ a # <<>>
    BY <2>1
  <2>3. Said(a) = Said(Tail(a)) \cup {Head(a)}
    <3> HIDE DEF a
    <3>1. /\ Tail(a) \in Seq(Message) /\ Head(a) = a[1]
          /\ Len(a) \in Nat \ {0} /\ Len(Tail(a)) = Len(a) - 1
          /\ DOMAIN a = 1..Len(a) /\ DOMAIN Tail(a) = 1..Len(Tail(a))
          /\ \A i \in 1..Len(Tail(a)) : Tail(a)[i] = a[i + 1]
      BY <2>2, HeadTailProperties, LenProperties, EmptySeq
    <3>2. \A i \in DOMAIN Tail(a) : i + 1 \in DOMAIN a
      BY <3>1
    <3>3. \A i \in DOMAIN a : i = 1 \/ (i - 1 \in DOMAIN Tail(a) /\ Tail(a)[i - 1] = a[i])
      BY <3>1
    <3>4. 1 \in DOMAIN a
      BY <3>1
    <3>5. ASSUME NEW x \in Said(Tail(a)) PROVE x \in Said(a)
      BY <3>1, <3>2 DEF Said
    <3>6. ASSUME NEW x \in Said(a) PROVE x \in Said(Tail(a)) \cup {Head(a)}
      <4>1. PICK i \in DOMAIN a : x = a[i]
        BY DEF Said
      <4>2. CASE i = 1
        BY <3>1, <4>1, <4>2
      <4>3. CASE i - 1 \in DOMAIN Tail(a) /\ Tail(a)[i - 1] = a[i]
        BY <4>1, <4>3 DEF Said
      <4> QED
        BY <3>3, <4>2, <4>3
    <3>7. Head(a) \in Said(a)
      BY <3>1, <3>4 DEF Said
    <3> QED
      BY <3>5, <3>6, <3>7
  <2> QED
    BY <1>1, <2>1, <2>3
<1>6. hears => At(s)' \subseteq At(s)
  BY <1>5
<1>7. s \in Ends /\ s # peer[s]
  BY Owners DEF Typed, LinksTyped
<1>8. ASSUME NEW e \in Ends
      PROVE  At(e)' \subseteq At(e) \cup (IF e = peer[s] THEN Said(said) ELSE {})
  <2>1. CASE e = s
    BY <1>4, <1>6, <1>7, <2>1
  <2>2. CASE e = peer[s] /\ peer[s] # None
    BY <1>2, <2>2
  <2>3. CASE e \in Ends \ {s, peer[s]}
    BY <1>3, <2>3
  <2> QED
    BY <2>1, <2>2, <2>3, SessionAssumption
<1>9. \A e \in Ends \ {s} : At(e) \subseteq At(e)'
  BY <1>2, <1>3, SessionAssumption
<1> QED
  BY <1>2, <1>5, <1>8, <1>9

-----------------------------------------------------------------------------
(* What sessions say.                                                      *)

\* A change of a registry is notified while its result is in the registry.
ChangesSound ==
  /\ \A d \in Devices : \A n \in changing[d] :
       /\ n.op = "Subscribe" <=> <<n.scope, n.type>> \in registry[d]
       /\ n.op = "Unsubscribe" => Unsubscribes
       /\ \A s \in n.todo : Dev(s) = d
  /\ \A d \in Devices : \A x \in registry[d] : x[1] # d

\* What session s may say once it is bound to b and its peer subscribed to types.
Fit(s, m, b, types) ==
  /\ m \in Message /\ m.kind # "Disconnect"
  /\ m.kind # "Acknowledgement" => m.device = Dev(s)
  /\ m.kind = "Update" =>
       /\ m.type \in types
       /\ \/ m.version = version[Dev(s)][m.type]
          \/ \E p \in publishing : s \in p.todo /\ p.type = m.type /\ p.version = m.version
  /\ m.kind = "Subscribe" =>
       \E scope \in Scopes : Applies(s, scope, b) /\ <<scope, m.type>> \in registry[Dev(s)]
  /\ m.kind = "Unsubscribe" =>
       Unsubscribes /\ \E scope \in Scopes : <<scope, m.type>> \notin registry[Dev(s)]

\* Session s talks, and what it says is fit.
Speaks(s, hears, said) ==
  /\ Talks(s, hears, said) /\ UNCHANGED <<version, registry, ready>>
  /\ bound' \in [Sessions -> Devices \cup {None}]
  /\ subscribed' \in [Sessions -> SUBSET Types] /\ \A x \in Sessions : IsFiniteSet(subscribed'[x])
  /\ rejected' \in [Sessions -> BOOLEAN]
  /\ \A m \in Said(said) : Fit(s, m, bound'[s], subscribed'[s])
  /\ \A x \in Sessions \ {s} :
       bound'[x] = bound[x] /\ subscribed'[x] = subscribed[x] /\ rejected'[x] = rejected[x]

\* Session s handles its first message.
Hears(s, said) ==
  LET m == Head(inbox[s])
      to == IF bound[s] # None THEN bound[s] ELSE m.device
      IsUpdate == m.kind = "Update"
  IN  /\ ready[s] /\ UNCHANGED <<notes, limits>>
      /\ bound'[s] = IF m.kind = "Acknowledgement" THEN bound[s] ELSE to
      /\ available' =
           IF m.kind = "Disconnect" THEN [available EXCEPT ![Dev(s)][to] = "Disconnected"]
           ELSE IF m.kind = "Acknowledgement" \/ bound[s] # None THEN available
           ELSE [available EXCEPT ![Dev(s)][to] = "Connected"]
      /\ m.kind = "Subscribe" => /\ subscribed'[s] = subscribed[s] \cup {m.type}
                                 /\ Snapshot(s, m.type) \in Said(said)
      /\ m.kind = "Unsubscribe" => /\ subscribed'[s] = subscribed[s] \ {m.type}
                                   /\ Control(s, "UnsubscribeAcknowledgement", m.type) \in Said(said)
      /\ m.kind = "Disconnect" => subscribed'[s] = {}
      /\ m.kind \notin {"Subscribe", "Unsubscribe", "Disconnect"} => subscribed'[s] = subscribed[s]
      /\ ~IsUpdate => UNCHANGED <<remote, rejected>>
      /\ IsUpdate => \/ /\ Wants(Dev(s), to, m.type) /\ m.version >= remote[Dev(s)][m.device][m.type]
                        /\ remote' = [remote EXCEPT ![Dev(s)][m.device][m.type] = m.version]
                        /\ UNCHANGED rejected
                     \/ /\ ~Wants(Dev(s), to, m.type) \/ ~(m.version >= remote[Dev(s)][m.device][m.type])
                        /\ rejected' = [rejected EXCEPT ![s] = TRUE]
                        /\ UNCHANGED remote

(* The current subscriptions are a Subscribe for each descriptor.          *)
LEMMA CurrentSubscribes ==
  ASSUME NEW s \in Sessions, NEW b \in Devices \cup {None}, StatesTyped
  PROVE  /\ Current(s, b) \in Seq(Message)
         /\ \A m \in Said(Current(s, b)) :
              \E x \in registry[Dev(s)] : Applies(s, x[1], b) /\ m = Control(s, "Subscribe", x[2])
         /\ \A x \in registry[Dev(s)] :
              Applies(s, x[1], b) => Control(s, "Subscribe", x[2]) \in Said(Current(s, b))
<1> DEFINE D == {x \in registry[Dev(s)] : Applies(s, x[1], b)}
           n == Cardinality(D)
           q == SetToSeq(D)
<1>1. IsFiniteSet(registry[Dev(s)]) /\ registry[Dev(s)] \subseteq Scopes \X Types
  BY Owners DEF StatesTyped
<1>2. IsFiniteSet(D)
  BY <1>1, FS_Subset
<1>3. /\ n \in Nat /\ q \in [1..n -> D]
      /\ \A x \in D : \E i \in 1..n : q[i] = x
  <2> HIDE DEF D
  <2> QED BY <1>2, Listing
<1>4. Current(s, b) = [i \in 1..n |-> Control(s, "Subscribe", q[i][2])]
  BY DEF Current
<1>5. \A i \in 1..n : q[i] \in D
  BY <1>3
<1>6. \A x \in D : x \in registry[Dev(s)] /\ Applies(s, x[1], b) /\ x[2] \in Types
  BY <1>1
<1>7. \A x \in registry[Dev(s)] : Applies(s, x[1], b) => x \in D
  OBVIOUS
<1> HIDE DEF D, n, q
<1>8. \A i \in 1..n : Control(s, "Subscribe", q[i][2]) \in Message
  BY <1>5, <1>6, SentAreMessages
<1>9. Current(s, b) \in [1..n -> Message] /\ n \in Nat
  BY <1>3, <1>4, <1>8
<1>10. Current(s, b) \in Seq(Message)
  BY <1>9, SeqDef
<1>11. DOMAIN Current(s, b) = 1..n
  BY <1>9
<1>12. ASSUME NEW m \in Said(Current(s, b))
       PROVE \E x \in registry[Dev(s)] : Applies(s, x[1], b) /\ m = Control(s, "Subscribe", x[2])
  <2>1. PICK i \in 1..n : m = Current(s, b)[i]
    BY <1>11 DEF Said
  <2>2. m = Control(s, "Subscribe", q[i][2])
    BY <1>4, <2>1
  <2> QED
    BY <1>5, <1>6, <2>2
<1>13. ASSUME NEW x \in registry[Dev(s)], Applies(s, x[1], b)
       PROVE Control(s, "Subscribe", x[2]) \in Said(Current(s, b))
  <2>1. PICK i \in 1..n : q[i] = x
    BY <1>3, <1>7, <1>13
  <2>2. Current(s, b)[i] = Control(s, "Subscribe", x[2])
    BY <1>4, <2>1
  <2> QED
    BY <1>11, <2>2 DEF Said
<1> QED
  BY <1>10, <1>12, <1>13

(* Which are fit to say.                                                   *)
LEMMA CurrentFit ==
  ASSUME NEW s \in Sessions, NEW b \in Devices \cup {None}, NEW types, StatesTyped
  PROVE  \A m \in Said(Current(s, b)) : Fit(s, m, b, types) /\ m.kind = "Subscribe"
<1> TAKE m \in Said(Current(s, b))
<1>1. PICK x \in registry[Dev(s)] : Applies(s, x[1], b) /\ m = Control(s, "Subscribe", x[2])
  BY CurrentSubscribes
<1>2. x \in Scopes \X Types
  BY Owners DEF StatesTyped
<1>3. x = <<x[1], x[2]>> /\ x[1] \in Scopes /\ x[2] \in Types
  BY <1>2
<1>4. m \in Message
  BY <1>1, <1>3, SentAreMessages
<1>5. m.kind = "Subscribe" /\ m.device = Dev(s) /\ m.type = x[2]
  BY <1>1 DEF Control
<1>6. \E scope \in Scopes : Applies(s, scope, b) /\ <<scope, m.type>> \in registry[Dev(s)]
  BY <1>1, <1>3, <1>5
<1> QED
  BY <1>4, <1>5, <1>6 DEF Fit

(* Replies speak: the current subscriptions when the reply binds the       *)
(* session, and the rest.                                                  *)
LEMMA ReplySpeaks ==
  ASSUME NEW s \in Sessions, NEW rest \in Seq(Message), Typed,
         inbox[s] # <<>>, Reply(s, rest), UNCHANGED <<version, registry, ready, peer>>,
         bound' = [bound EXCEPT ![s] = Peer(s)],
         NEW types \in SUBSET Types, IsFiniteSet(types), subscribed' = [subscribed EXCEPT ![s] = types],
         rejected' \in [Sessions -> BOOLEAN], \A x \in Sessions \ {s} : rejected'[x] = rejected[x],
         \A m \in Said(rest) : Fit(s, m, Peer(s), types)
  PROVE  \E said : Speaks(s, TRUE, said) /\ Said(rest) \subseteq Said(said)
<1>1. /\ s \in Ends /\ inbox[s] \in Seq(Message)
      /\ Head(inbox[s]) \in Message
  BY Owners, HeadTailProperties DEF Typed
<1>2. Peer(s) \in Devices
  BY <1>1, MessageFields DEF Peer, Received, Typed, LinksTyped
<1> DEFINE binding == IF bound[s] # None THEN <<>> ELSE Current(s, Peer(s))
           said == binding \o rest
<1>3. binding \in Seq(Message) /\ \A m \in Said(binding) : Fit(s, m, Peer(s), types)
  <2>1. <<>> \in Seq(Message) /\ Said(<<>>) = {}
    BY EmptySeq, SaidAfter
  <2>2. /\ Current(s, Peer(s)) \in Seq(Message)
        /\ \A m \in Said(Current(s, Peer(s))) : Fit(s, m, Peer(s), types)
    BY <1>2, CurrentSubscribes, CurrentFit DEF Typed
  <2> QED
    BY <2>1, <2>2
<1>4. inbox' = Put([inbox EXCEPT ![s] = Tail(@)], s, said)
  BY DEF Reply
<1> HIDE DEF binding
<1>5. said \in Seq(Message) /\ Said(said) = Said(binding) \cup Said(rest)
  BY <1>3, ConcatProperties, SaidAfter
<1> HIDE DEF said
<1>6. Talks(s, TRUE, said)
  BY <1>4, <1>5, ReplyTalks
<1>7. bound'[s] = Peer(s) /\ subscribed'[s] = types
  BY DEF Typed, LinksTyped
<1>8. \A m \in Said(said) : Fit(s, m, bound'[s], subscribed'[s])
  BY <1>3, <1>5, <1>7
<1>9. /\ bound' \in [Sessions -> Devices \cup {None}]
      /\ \A x \in Sessions \ {s} : bound'[x] = bound[x]
  BY <1>2 DEF Typed, LinksTyped
<1>10. /\ subscribed' \in [Sessions -> SUBSET Types] /\ \A x \in Sessions : IsFiniteSet(subscribed'[x])
       /\ \A x \in Sessions \ {s} : subscribed'[x] = subscribed[x]
  BY DEF Typed, LinksTyped
<1>11. Speaks(s, TRUE, said)
  BY <1>6, <1>8, <1>9, <1>10 DEF Speaks
<1> QED
  BY <1>5, <1>11

(* A message that is handled is a message.                                 *)
LEMMA ReceivedMessage ==
  ASSUME NEW s \in Sessions, Typed, inbox[s] # <<>>
  PROVE  /\ Received(s) = Head(inbox[s]) /\ Head(inbox[s]) \in Message
         /\ Peer(s) \in Devices /\ Peer(s) = IF bound[s] # None THEN bound[s] ELSE Received(s).device
<1>1. s \in Ends /\ inbox[s] \in Seq(Message)
  BY Owners DEF Typed
<1>2. Head(inbox[s]) \in Message
  BY <1>1, HeadTailProperties
<1> QED
  BY <1>2, MessageFields DEF Peer, Received, Typed, LinksTyped

(* What the session says of the states it publishes is fit.                *)
LEMMA SnapshotFit ==
  ASSUME NEW s \in Sessions, NEW t \in Types, NEW types, t \in types, Typed, NEW b
  PROVE  Snapshot(s, t) \in Message /\ Fit(s, Snapshot(s, t), b, types)
<1>1. version[Dev(s)][t] \in 1..MaxVersion
  BY Owners DEF Typed, StatesTyped
<1>2. Snapshot(s, t) \in Message
  BY <1>1, SentAreMessages DEF Snapshot
<1> QED
  BY <1>2 DEF Fit, Snapshot, Update

(* So are its acknowledgements.                                            *)
LEMMA ControlFit ==
  ASSUME NEW s \in Sessions, NEW t \in Types, NEW types, NEW b,
         NEW kind \in {"SubscribeAcknowledgement", "UnsubscribeAcknowledgement"}
  PROVE  Control(s, kind, t) \in Message /\ Fit(s, Control(s, kind, t), b, types)
BY SentAreMessages DEF Fit, Control

(* Each handler of a message speaks, and hears it.                         *)
LEMMA SubscribeSpeaks ==
  ASSUME NEW s \in Sessions, Typed, ReceiveSubscribe(s)
  PROVE  \E said : Speaks(s, TRUE, said) /\ Hears(s, said)
<1> DEFINE m == Head(inbox[s])
           types == subscribed[s] \cup {m.type}
           rest == <<Snapshot(s, m.type), Control(s, "SubscribeAcknowledgement", m.type)>>
<1>1. ready[s] /\ inbox[s] # <<>> /\ m.kind = "Subscribe"
  BY DEF ReceiveSubscribe, Receive
<1>2. /\ Received(s) = m /\ m \in Message
      /\ Peer(s) = IF bound[s] # None THEN bound[s] ELSE m.device
  BY <1>1, ReceivedMessage
<1>3. m.type \in Types
  BY <1>1, <1>2, MessageFields
<1>4. /\ Snapshot(s, m.type) \in Message /\ Fit(s, Snapshot(s, m.type), Peer(s), types)
      /\ Control(s, "SubscribeAcknowledgement", m.type) \in Message
      /\ Fit(s, Control(s, "SubscribeAcknowledgement", m.type), Peer(s), types)
  BY <1>3, SnapshotFit, ControlFit
<1>5. /\ rest \in Seq(Message)
      /\ Said(rest) = {Snapshot(s, m.type), Control(s, "SubscribeAcknowledgement", m.type)}
  BY <1>4 DEF Said
<1>6. /\ types \in SUBSET Types /\ IsFiniteSet(types)
      /\ subscribed' = [subscribed EXCEPT ![s] = types]
      /\ subscribed'[s] = types
  <2>1. s \in DOMAIN subscribed /\ subscribed[s] \in SUBSET Types /\ IsFiniteSet(subscribed[s])
    BY DEF Typed, LinksTyped
  <2>2. IsFiniteSet(types)
    BY <2>1, FS_AddElement
  <2>3. subscribed' = [subscribed EXCEPT ![s] = types]
    BY <1>2 DEF ReceiveSubscribe
  <2> QED
    BY <1>3, <2>1, <2>2, <2>3
<1>7. /\ Reply(s, rest) /\ UNCHANGED <<version, registry, ready, peer, remote, rejected, notes, limits>>
      /\ bound' = [bound EXCEPT ![s] = Peer(s)]
      /\ available' = IF bound[s] # None THEN available ELSE [available EXCEPT ![Dev(s)][Peer(s)] = "Connected"]
  BY <1>2 DEF ReceiveSubscribe, Bind
<1>8. bound'[s] = Peer(s) /\ rejected' \in [Sessions -> BOOLEAN]
  BY <1>7 DEF Typed, LinksTyped
<1>9. \A x \in Said(rest) : Fit(s, x, Peer(s), types)
  BY <1>4, <1>5
<1> HIDE DEF rest, types
<1>10. PICK said : Speaks(s, TRUE, said) /\ Said(rest) \subseteq Said(said)
  BY <1>1, <1>5, <1>6, <1>7, <1>8, <1>9, ReplySpeaks
<1>11. Snapshot(s, m.type) \in Said(said) /\ subscribed'[s] = subscribed[s] \cup {m.type}
  BY <1>5, <1>6, <1>10 DEF types
<1> HIDE DEF m
<1>12. Hears(s, said)
  <2>1. m = Head(inbox[s])
    BY DEF m
  <2> QED
    BY <1>1, <1>2, <1>7, <1>8, <1>11, <2>1 DEF Hears
<1> QED
  BY <1>10, <1>12

(* Likewise.                                                               *)
LEMMA UnsubscribeSpeaks ==
  ASSUME NEW s \in Sessions, Typed, ReceiveUnsubscribe(s)
  PROVE  \E said : Speaks(s, TRUE, said) /\ Hears(s, said)
<1> DEFINE m == Head(inbox[s])
           types == subscribed[s] \ {m.type}
           rest == <<Control(s, "UnsubscribeAcknowledgement", m.type)>>
<1>1. ready[s] /\ inbox[s] # <<>> /\ m.kind = "Unsubscribe"
  BY DEF ReceiveUnsubscribe, Receive
<1>2. /\ Received(s) = m /\ m \in Message
      /\ Peer(s) = IF bound[s] # None THEN bound[s] ELSE m.device
  BY <1>1, ReceivedMessage
<1>3. m.type \in Types
  BY <1>1, <1>2, MessageFields
<1>4. /\ Control(s, "UnsubscribeAcknowledgement", m.type) \in Message
      /\ Fit(s, Control(s, "UnsubscribeAcknowledgement", m.type), Peer(s), types)
  BY <1>3, ControlFit
<1>5. /\ rest \in Seq(Message)
      /\ Said(rest) = {Control(s, "UnsubscribeAcknowledgement", m.type)}
  BY <1>4 DEF Said
<1>6. /\ types \in SUBSET Types /\ IsFiniteSet(types)
      /\ subscribed' = [subscribed EXCEPT ![s] = types]
      /\ subscribed'[s] = types
  <2>1. s \in DOMAIN subscribed /\ subscribed[s] \in SUBSET Types /\ IsFiniteSet(subscribed[s])
    BY DEF Typed, LinksTyped
  <2>2. IsFiniteSet(types)
    BY <2>1, FS_RemoveElement
  <2>3. subscribed' = [subscribed EXCEPT ![s] = types]
    BY <1>2 DEF ReceiveUnsubscribe
  <2> QED
    BY <1>3, <2>1, <2>2, <2>3
<1>7. /\ Reply(s, rest) /\ UNCHANGED <<version, registry, ready, peer, remote, rejected, notes, limits>>
      /\ bound' = [bound EXCEPT ![s] = Peer(s)]
      /\ available' = IF bound[s] # None THEN available ELSE [available EXCEPT ![Dev(s)][Peer(s)] = "Connected"]
  BY <1>2 DEF ReceiveUnsubscribe, Bind
<1>8. bound'[s] = Peer(s) /\ rejected' \in [Sessions -> BOOLEAN]
  BY <1>7 DEF Typed, LinksTyped
<1>9. \A x \in Said(rest) : Fit(s, x, Peer(s), types)
  BY <1>4, <1>5
<1> HIDE DEF rest, types
<1>10. PICK said : Speaks(s, TRUE, said) /\ Said(rest) \subseteq Said(said)
  BY <1>1, <1>5, <1>6, <1>7, <1>8, <1>9, ReplySpeaks
<1>11. Control(s, "UnsubscribeAcknowledgement", m.type) \in Said(said) /\ subscribed'[s] = subscribed[s] \ {m.type}
  BY <1>5, <1>6, <1>10 DEF types
<1> HIDE DEF m
<1>12. Hears(s, said)
  <2>1. m = Head(inbox[s])
    BY DEF m
  <2> QED
    BY <1>1, <1>2, <1>7, <1>8, <1>11, <2>1 DEF Hears
<1> QED
  BY <1>10, <1>12

(* Likewise.                                                               *)
LEMMA ResynchronizeSpeaks ==
  ASSUME NEW s \in Sessions, Typed, ReceiveResynchronize(s)
  PROVE  \E said : Speaks(s, TRUE, said) /\ Hears(s, said)
<1> DEFINE m == Head(inbox[s])
           q == SetToSeq(Resent(s))
           rest == [i \in DOMAIN q |-> Snapshot(s, q[i])]
<1>1. ready[s] /\ inbox[s] # <<>> /\ m.kind = "Resynchronize"
  BY DEF ReceiveResynchronize, Receive
<1>2. /\ Received(s) = m /\ m \in Message
      /\ Peer(s) = IF bound[s] # None THEN bound[s] ELSE m.device
  BY <1>1, ReceivedMessage
<1>3. Resent(s) \subseteq subscribed[s] /\ subscribed[s] \in SUBSET Types /\ IsFiniteSet(subscribed[s])
  BY DEF Resent, Typed, LinksTyped
<1>4. IsFiniteSet(Resent(s))
  BY <1>3, FS_Subset
<1>5. /\ Cardinality(Resent(s)) \in Nat /\ q \in [1..Cardinality(Resent(s)) -> Resent(s)]
      /\ DOMAIN q = 1..Cardinality(Resent(s))
  BY <1>4, Listing
<1>6. \A i \in 1..Cardinality(Resent(s)) : q[i] \in subscribed[s] /\ q[i] \in Types
  BY <1>3, <1>5
<1>7. \A i \in 1..Cardinality(Resent(s)) :
        Snapshot(s, q[i]) \in Message /\ Fit(s, Snapshot(s, q[i]), Peer(s), subscribed[s])
  BY <1>6, SnapshotFit
<1>8. rest \in [1..Cardinality(Resent(s)) -> Message] /\ DOMAIN rest = 1..Cardinality(Resent(s))
  BY <1>5, <1>7
<1>9. rest \in Seq(Message)
  BY <1>5, <1>8, SeqDef
<1>10. \A x \in Said(rest) : Fit(s, x, Peer(s), subscribed[s])
  BY <1>5, <1>7, <1>8 DEF Said
<1>11. /\ Reply(s, rest) /\ UNCHANGED <<version, registry, ready, peer, remote, rejected, subscribed, notes, limits>>
       /\ bound' = [bound EXCEPT ![s] = Peer(s)]
       /\ available' = IF bound[s] # None THEN available ELSE [available EXCEPT ![Dev(s)][Peer(s)] = "Connected"]
  BY <1>2 DEF ReceiveResynchronize, Bind
<1>12. /\ bound'[s] = Peer(s) /\ rejected' \in [Sessions -> BOOLEAN]
       /\ subscribed' = [subscribed EXCEPT ![s] = subscribed[s]]
  BY <1>11 DEF Typed, LinksTyped
<1> HIDE DEF rest
<1>13. PICK said : Speaks(s, TRUE, said) /\ Said(rest) \subseteq Said(said)
  BY <1>1, <1>3, <1>9, <1>10, <1>11, <1>12, ReplySpeaks
<1>14. Hears(s, said)
  BY <1>1, <1>2, <1>11, <1>12 DEF Hears
<1> QED
  BY <1>13, <1>14

(* Likewise.                                                               *)
LEMMA DisconnectSpeaks ==
  ASSUME NEW s \in Sessions, Typed, ReceiveDisconnect(s)
  PROVE  \E said : Speaks(s, TRUE, said) /\ Hears(s, said)
<1> DEFINE m == Head(inbox[s])
<1>1. ready[s] /\ inbox[s] # <<>> /\ m.kind = "Disconnect"
  BY DEF ReceiveDisconnect, Receive
<1>2. /\ Received(s) = m /\ m \in Message
      /\ Peer(s) = IF bound[s] # None THEN bound[s] ELSE m.device
  BY <1>1, ReceivedMessage
<1>3. <<>> \in Seq(Message) /\ Said(<<>>) = {} /\ {} \in SUBSET Types /\ IsFiniteSet({})
  BY EmptySeq, SaidAfter, FS_EmptySet
<1>4. /\ Reply(s, <<>>) /\ UNCHANGED <<version, registry, ready, peer, remote, rejected, notes, limits>>
      /\ bound' = [bound EXCEPT ![s] = Peer(s)]
      /\ subscribed' = [subscribed EXCEPT ![s] = {}]
      /\ available' = [available EXCEPT ![Dev(s)][Peer(s)] = "Disconnected"]
  BY <1>2 DEF ReceiveDisconnect
<1>5. bound'[s] = Peer(s) /\ subscribed'[s] = {} /\ rejected' \in [Sessions -> BOOLEAN]
  BY <1>4 DEF Typed, LinksTyped
<1>6. PICK said : Speaks(s, TRUE, said)
  BY <1>1, <1>3, <1>4, <1>5, ReplySpeaks
<1>7. Hears(s, said)
  BY <1>1, <1>2, <1>4, <1>5 DEF Hears
<1> QED
  BY <1>6, <1>7

(* Likewise.                                                               *)
LEMMA AcknowledgementSpeaks ==
  ASSUME NEW s \in Sessions, Typed, ReceiveAcknowledgement(s)
  PROVE  \E said : Speaks(s, TRUE, said) /\ Hears(s, said)
<1> DEFINE m == Head(inbox[s])
<1>1. /\ ready[s] /\ inbox[s] # <<>>
      /\ m.kind \in {"SubscribeAcknowledgement", "UnsubscribeAcknowledgement", "Acknowledgement"}
      /\ UNCHANGED <<version, registry, ready, peer, remote, rejected, subscribed, notes, limits>>
  BY DEF ReceiveAcknowledgement, Receive
<1>2. /\ Received(s) = m /\ m \in Message
      /\ Peer(s) = IF bound[s] # None THEN bound[s] ELSE m.device
  BY <1>1, ReceivedMessage
<1>3. <<>> \in Seq(Message) /\ Said(<<>>) = {}
  BY EmptySeq, SaidAfter
<1>4. /\ rejected' \in [Sessions -> BOOLEAN]
      /\ subscribed' = [subscribed EXCEPT ![s] = subscribed[s]]
      /\ subscribed[s] \in SUBSET Types /\ IsFiniteSet(subscribed[s]) /\ subscribed'[s] = subscribed[s]
  BY <1>1 DEF Typed, LinksTyped
<1>5. CASE m.kind # "Acknowledgement"
  <2>1. /\ Reply(s, <<>>)
        /\ bound' = [bound EXCEPT ![s] = Peer(s)]
        /\ available' = IF bound[s] # None THEN available ELSE [available EXCEPT ![Dev(s)][Peer(s)] = "Connected"]
    BY <1>5 DEF ReceiveAcknowledgement, Receive, Bind
  <2>2. PICK said : Speaks(s, TRUE, said)
    BY <1>1, <1>3, <1>4, <2>1, ReplySpeaks
  <2>3. bound'[s] = Peer(s)
    BY <2>1 DEF Typed, LinksTyped
  <2>4. Hears(s, said)
    BY <1>1, <1>2, <1>4, <1>5, <2>1, <2>3 DEF Hears
  <2> QED
    BY <2>2, <2>4
<1>6. CASE m.kind = "Acknowledgement"
  <2>1. inbox' = [inbox EXCEPT ![s] = Tail(@)] /\ UNCHANGED <<bound, available>>
    BY <1>6 DEF ReceiveAcknowledgement, Receive
  <2>2. /\ Tail(inbox[s]) \in Seq(Message) /\ s \in Ends /\ peer[s] # s
        /\ \A e \in Ends : inbox[e] \o <<>> = inbox[e]
    BY <1>1, Owners, HeadTailProperties, ConcatEmptySeq DEF Typed, LinksTyped
  <2>3. Talks(s, TRUE, <<>>)
    BY <1>1, <1>3, <2>1, <2>2, SessionAssumption DEF Talks, Typed, LinksTyped
  <2>4. Speaks(s, TRUE, <<>>)
    BY <1>1, <1>3, <1>4, <2>1, <2>3 DEF Speaks, Typed, LinksTyped
  <2>5. Hears(s, <<>>)
    BY <1>1, <1>4, <1>6, <2>1 DEF Hears
  <2> QED
    BY <2>4, <2>5
<1> QED
  BY <1>5, <1>6

(* An update is acknowledged to the device it came from.                   *)
LEMMA AcknowledgementFit ==
  ASSUME NEW m \in Message, m.kind = "Update", NEW s, NEW b, NEW types
  PROVE  /\ [m EXCEPT !.kind = "Acknowledgement"] \in Message
         /\ Fit(s, [m EXCEPT !.kind = "Acknowledgement"], b, types)
<1>1. /\ m.device \in Devices /\ m.type \in Types /\ m.version \in 1..MaxVersion
      /\ m = [kind |-> "Update", device |-> m.device, type |-> m.type, version |-> m.version]
  BY MessageFields
<1>2. [m EXCEPT !.kind = "Acknowledgement"]
      = [kind |-> "Acknowledgement", device |-> m.device, type |-> m.type, version |-> m.version]
  BY <1>1
<1>3. [m EXCEPT !.kind = "Acknowledgement"] \in Message
  BY <1>1, <1>2 DEF Message
<1> QED
  BY <1>2, <1>3 DEF Fit

(* An update is applied, or refused.                                       *)
LEMMA UpdateSpeaks ==
  ASSUME NEW s \in Sessions, Typed, ApplyUpdate(s) \/ RejectUpdate(s)
  PROVE  \E said : Speaks(s, TRUE, said) /\ Hears(s, said)
<1> DEFINE m == Head(inbox[s])
           ack == [m EXCEPT !.kind = "Acknowledgement"]
           rest == IF Acceptable(s) THEN <<ack>> ELSE <<>>
<1>1. /\ ready[s] /\ inbox[s] # <<>> /\ m.kind = "Update"
      /\ UNCHANGED <<version, registry, ready, peer, subscribed, notes, limits>>
  BY DEF ApplyUpdate, RejectUpdate, Receive
<1>2. /\ Received(s) = m /\ m \in Message
      /\ Peer(s) = IF bound[s] # None THEN bound[s] ELSE m.device
  BY <1>1, ReceivedMessage
<1>3. /\ <<>> \in Seq(Message) /\ Said(<<>>) = {}
      /\ ack \in Message /\ Fit(s, ack, Peer(s), subscribed[s])
      /\ Said(<<ack>>) = {ack} /\ <<ack>> \in Seq(Message)
  BY <1>1, <1>2, AcknowledgementFit, EmptySeq, SaidAfter
<1>4. /\ subscribed' = [subscribed EXCEPT ![s] = subscribed[s]]
      /\ subscribed[s] \in SUBSET Types /\ IsFiniteSet(subscribed[s]) /\ subscribed'[s] = subscribed[s]
  BY <1>1 DEF Typed, LinksTyped
<1>5. /\ Reply(s, rest)
      /\ bound' = [bound EXCEPT ![s] = Peer(s)]
      /\ available' = IF bound[s] # None THEN available ELSE [available EXCEPT ![Dev(s)][Peer(s)] = "Connected"]
      /\ IF Acceptable(s)
         THEN remote' = [remote EXCEPT ![Dev(s)][m.device][m.type] = m.version] /\ UNCHANGED rejected
         ELSE rejected' = [rejected EXCEPT ![s] = TRUE] /\ UNCHANGED remote
  BY <1>2 DEF ApplyUpdate, RejectUpdate, Bind
<1>6. /\ rejected' \in [Sessions -> BOOLEAN] /\ \A x \in Sessions \ {s} : rejected'[x] = rejected[x]
      /\ bound'[s] = Peer(s)
  BY <1>5 DEF Typed, LinksTyped
<1>7. rest \in Seq(Message) /\ \A x \in Said(rest) : Fit(s, x, Peer(s), subscribed[s])
  BY <1>3
<1>8. Acceptable(s) <=> Wants(Dev(s), Peer(s), m.type) /\ m.version >= remote[Dev(s)][m.device][m.type]
  BY <1>2 DEF Acceptable, Held
<1> HIDE DEF rest, m
<1>9. PICK said : Speaks(s, TRUE, said)
  BY <1>1, <1>4, <1>5, <1>6, <1>7, ReplySpeaks
<1>10. Hears(s, said)
  <2>1. m = Head(inbox[s])
    BY DEF m
  <2> QED
    BY <1>1, <1>2, <1>4, <1>5, <1>6, <1>8, <2>1 DEF Hears
<1> QED
  BY <1>9, <1>10

(* Every message that is handled is heard, and what is said to it is fit.  *)
LEMMA HandleSpeaks ==
  ASSUME NEW s \in Sessions, Typed, Handle(s)
  PROVE  \E said : Speaks(s, TRUE, said) /\ Hears(s, said)
BY SubscribeSpeaks, UnsubscribeSpeaks, ResynchronizeSpeaks, DisconnectSpeaks,
   AcknowledgementSpeaks, UpdateSpeaks DEF Handle

\* Session s talks unasked, for an application.
Tells(s, said) ==
  /\ Speaks(s, FALSE, said)
  /\ UNCHANGED <<remote, available, bound, subscribed, rejected>>

(* What an application's publication says is fit.                          *)
LEMMA PublishedSpeaks ==
  ASSUME Typed, NEW p \in publishing, NEW s \in p.todo, NotifyPublished(p, s)
  PROVE  \E said :
           /\ Tells(s, said)
           /\ (ready[s] /\ p.type \in subscribed[s]) => said = <<Update(s, p.type, p.version)>>
           /\ ~(ready[s] /\ p.type \in subscribed[s]) => said = <<>>
<1>1. /\ p.device \in Devices /\ p.type \in Types /\ p.version \in 1..MaxVersion /\ s \in Sessions
  BY DEF Typed, NotesTyped, Publication
<1>2. UNCHANGED <<core, ready, bound, subscribed, peer, rejected>>
  BY DEF NotifyPublished
<1> DEFINE u == Update(s, p.type, p.version)
<1>3. u \in Message /\ u.kind = "Update" /\ u.device = Dev(s) /\ u.type = p.type /\ u.version = p.version
  BY <1>1, SentAreMessages DEF Update
<1>4. CASE ready[s] /\ p.type \in subscribed[s]
  <2>1. inbox' = Put(inbox, s, <<u>>)
    BY <1>4 DEF NotifyPublished
  <2>2. <<u>> \in Seq(Message) /\ Said(<<u>>) = {u}
    BY <1>3, SaidAfter, EmptySeq
  <2>3. Talks(s, FALSE, <<u>>)
    BY <1>1, <1>2, <2>1, <2>2, PutTalks
  <2>4. Fit(s, u, bound'[s], subscribed'[s])
    BY <1>2, <1>3, <1>4 DEF Fit
  <2>5. Tells(s, <<u>>)
    BY <1>2, <2>2, <2>3, <2>4 DEF Tells, Speaks, core, Typed, LinksTyped
  <2> QED
    BY <1>4, <2>5
<1>5. CASE ~(ready[s] /\ p.type \in subscribed[s])
  <2>1. UNCHANGED <<peer, inbox>>
    BY <1>5 DEF NotifyPublished
  <2>2. Talks(s, FALSE, <<>>) /\ Said(<<>>) = {}
    BY <1>1, <2>1, SilenceTalks, SaidAfter, EmptySeq
  <2>3. Tells(s, <<>>)
    BY <1>2, <2>2 DEF Tells, Speaks, core, Typed, LinksTyped
  <2> QED
    BY <1>5, <2>3
<1> QED
  BY <1>4, <1>5

(* What the change of a registry says is fit.                              *)
LEMMA ChangedSpeaks ==
  ASSUME Typed, ChangesSound, NEW d \in Devices, NEW n \in changing[d], NEW s \in n.todo,
         NotifyChanged(d, n, s)
  PROVE  \E said :
           /\ Tells(s, said)
           /\ (ready[s] /\ Applies(s, n.scope, bound[s])) => said = <<Control(s, n.op, n.type)>>
           /\ ~(ready[s] /\ Applies(s, n.scope, bound[s])) => said = <<>>
<1>1. /\ n.op \in {"Subscribe", "Unsubscribe"} /\ n.scope \in Scopes /\ n.type \in Types /\ s \in Sessions
  BY DEF Typed, NotesTyped, Change
<1>2. UNCHANGED <<core, ready, bound, subscribed, peer, rejected>>
  BY DEF NotifyChanged
<1> DEFINE c == Control(s, n.op, n.type)
<1>3. c \in Message /\ c.kind = n.op /\ c.device = Dev(s) /\ c.type = n.type
  BY <1>1, SentAreMessages DEF Control
<1>4. CASE ready[s] /\ Applies(s, n.scope, bound[s])
  <2>1. inbox' = Put(inbox, s, <<c>>)
    BY <1>4 DEF NotifyChanged
  <2>2. <<c>> \in Seq(Message) /\ Said(<<c>>) = {c}
    BY <1>3, SaidAfter, EmptySeq
  <2>3. Talks(s, FALSE, <<c>>)
    BY <1>1, <1>2, <2>1, <2>2, PutTalks
  <2>4. Dev(s) = d /\ (n.op = "Subscribe" <=> <<n.scope, n.type>> \in registry[d])
        /\ (n.op = "Unsubscribe" => Unsubscribes)
    BY DEF ChangesSound
  <2>5. Fit(s, c, bound[s], subscribed[s])
    <3>1. c.kind = "Subscribe" => \E scope \in Scopes : Applies(s, scope, bound[s]) /\ <<scope, c.type>> \in registry[Dev(s)]
      BY <1>1, <1>3, <1>4, <2>4
    <3>2. c.kind = "Unsubscribe" => Unsubscribes /\ \E scope \in Scopes : <<scope, c.type>> \notin registry[Dev(s)]
      BY <1>1, <1>3, <2>4
    <3> QED
      BY <1>1, <1>3, <3>1, <3>2 DEF Fit
  <2>6. Tells(s, <<c>>)
    BY <1>2, <2>2, <2>3, <2>5 DEF Tells, Speaks, core, Typed, LinksTyped
  <2> QED
    BY <1>4, <2>6
<1>5. CASE ~(ready[s] /\ Applies(s, n.scope, bound[s]))
  <2>1. UNCHANGED <<peer, inbox>>
    BY <1>5 DEF NotifyChanged
  <2>2. Talks(s, FALSE, <<>>) /\ Said(<<>>) = {}
    BY <1>1, <2>1, SilenceTalks, SaidAfter, EmptySeq
  <2>3. Tells(s, <<>>)
    BY <1>2, <2>2 DEF Tells, Speaks, core, Typed, LinksTyped
  <2> QED
    BY <1>5, <2>3
<1> QED
  BY <1>4, <1>5

(* And so is a request to resynchronize.                                   *)
LEMMA ResynchronizeTells ==
  ASSUME Typed, NEW c \in Clients, NEW t \in Types \cup {None}, Resynchronize(c, t)
  PROVE  \E said : Tells(c, said) /\ said = <<Control(c, "Resynchronize", t)>>
<1> DEFINE m == Control(c, "Resynchronize", t)
<1>1. c \in Sessions
  BY DEF Sessions
<1>2. m \in Message /\ m.kind = "Resynchronize" /\ m.device = Dev(c)
  <2>1. Dev(c) \in Devices
    BY <1>1, Owners
  <2> QED
    BY <2>1 DEF Control, Message
<1>3. <<m>> \in Seq(Message) /\ Said(<<m>>) = {m}
  BY <1>2, SaidAfter, EmptySeq
<1>4. UNCHANGED <<core, ready, bound, subscribed, peer, rejected>> /\ inbox' = Put(inbox, c, <<m>>)
  BY DEF Resynchronize
<1>5. Talks(c, FALSE, <<m>>)
  BY <1>1, <1>3, <1>4, PutTalks
<1>6. Fit(c, m, bound'[c], subscribed'[c])
  BY <1>2 DEF Fit
<1> QED
  BY <1>3, <1>4, <1>5, <1>6 DEF Tells, Speaks, core, Typed, LinksTyped

-----------------------------------------------------------------------------
(* Connections, and what is on its way on them.                            *)

\* A session that is not ready has nothing.
Idle ==
  \A s \in Sessions : ~ready[s] =>
    peer[s] = None /\ bound[s] = None /\ subscribed[s] = {} /\ ~rejected[s] /\ inbox[s] = <<>>

\* A connection joins a client and a slot, or waits to.
Paired ==
  /\ \A c \in Clients : peer[c] \in Slots \cup {Backlog(c), None}
  /\ \A k \in Slots : peer[k] \in Clients \cup {None}
  /\ \A s, x \in Sessions : peer[s] = x => peer[x] = s

\* Nothing reaches a client that waits, and only what it said waits with it.
Waiting ==
  \A c \in Clients :
    /\ peer[c] = Backlog(c) => inbox[c] = <<>> /\ ~rejected[c] /\ subscribed[c] = {}
    /\ peer[c] # Backlog(c) => inbox[Backlog(c)] = <<>>

\* A message, unless it acknowledges an update, names its sender.
Signed(e, o) == \A m \in At(e) : m.kind # "Acknowledgement" => m.device = o

\* A client hears from the server, a slot from one client.
Genuine ==
  /\ \A c \in Clients : bound[c] \in {None, Server} /\ Signed(c, Server) /\ Signed(Backlog(c), c)
  /\ \A k \in Slots : ready[k] => \E c \in Clients :
       peer[k] \in {None, c} /\ bound[k] \in {None, c} /\ Signed(k, c)

\* A goodbye is heard on a severed connection only.
NoGoodbye ==
  /\ \A s \in Sessions : peer[s] # None => \A m \in At(s) : m.kind # "Disconnect"
  /\ \A c \in Clients : \A m \in At(Backlog(c)) : m.kind # "Disconnect"

\* Nothing is said of a state but versions that its device published.
Published ==
  /\ \A e \in Ends : \A m \in At(e) : m.kind = "Update" => m.version =< version[m.device][m.type]
  /\ \A p \in publishing :
       p.version =< version[p.device][p.type] /\ \A s \in p.todo : Dev(s) = p.device
  /\ \A d, o \in Devices : \A t \in Types : remote[d][o][t] =< version[o][t]

Joined == Idle /\ Paired /\ Waiting /\ Genuine /\ NoGoodbye

BaseInv == Typed /\ ChangesSound /\ Joined /\ Published

(* The other end of a connection.                                          *)
LEMMA Opposite ==
  ASSUME NEW s \in Sessions, Typed, Idle, Paired, peer[s] # None
  PROVE  /\ ready[s] /\ peer[s] \in Ends /\ peer[s] # s
         /\ peer[s] \in Sessions => /\ peer[peer[s]] = s /\ ready[peer[s]]
                                    /\ s \in Clients <=> peer[s] \in Slots
         /\ peer[s] \notin Sessions => s \in Clients /\ peer[s] = Backlog(s)
         /\ \A x \in Sessions : peer[x] = peer[s] => x = s
<1>1. ready[s] /\ peer[s] \in Ends /\ peer[s] # s
  BY DEF Idle, Typed, LinksTyped
<1>2. s \in Clients \/ s \in Slots
  BY DEF Sessions
<1>3. /\ Clients \cap Slots = {} /\ Slots \subseteq Sessions /\ Clients \subseteq Sessions
      /\ \A c \in Clients : Backlog(c) \notin Sessions
  BY SessionAssumption DEF Sessions
<1>4. ASSUME peer[s] \in Sessions
      PROVE  /\ peer[peer[s]] = s /\ ready[peer[s]]
             /\ s \in Clients <=> peer[s] \in Slots
  <2>1. peer[peer[s]] = s
    BY <1>4 DEF Paired
  <2>2. ready[peer[s]]
    BY <1>4, <2>1, Owners DEF Idle
  <2>3. s \in Clients <=> peer[s] \in Slots
    BY <1>2, <1>3, <1>4 DEF Paired
  <2> QED
    BY <2>1, <2>2, <2>3
<1>5. peer[s] \notin Sessions => s \in Clients /\ peer[s] = Backlog(s)
  BY <1>2, <1>3 DEF Paired
<1>6. ASSUME NEW x \in Sessions, peer[x] = peer[s] PROVE x = s
  <2>1. CASE peer[s] \in Sessions
    BY <1>4, <1>6, <2>1 DEF Paired
  <2>2. CASE peer[s] \notin Sessions
    <3>1. x \in Clients \/ x \in Slots
      BY DEF Sessions
    <3>2. x \in Clients /\ peer[x] = Backlog(x)
      BY <1>3, <1>6, <2>2, <3>1 DEF Paired
    <3> QED
      BY <1>5, <1>6, <2>2, <3>2 DEF Backlog
  <2> QED
    BY <2>1, <2>2
<1> QED
  BY <1>1, <1>4, <1>5, <1>6

(* Ends.                                                                   *)
LEMMA EndsAre ==
  /\ Ends = Clients \cup Slots \cup {Backlog(c) : c \in Clients} /\ None \notin Ends
  /\ Sessions = Clients \cup Slots /\ Clients \cap Slots = {}
  /\ \A c \in Clients : Backlog(c) \in Ends \ Sessions
  /\ \A c, a \in Clients : Backlog(c) = Backlog(a) => c = a
BY SessionAssumption DEF Ends, Sessions, Backlog

(* A copy is replaced.                                                     *)
LEMMA CopyReplaced ==
  ASSUME Typed, NEW d \in Devices, NEW o \in Devices, NEW t \in Types, NEW v \in 0..MaxVersion,
         remote' = [remote EXCEPT ![d][o][t] = v]
  PROVE  /\ remote' \in [Devices -> [Devices -> [Types -> 0..MaxVersion]]]
         /\ \A x \in Devices, y \in Devices, z \in Types :
              remote'[x][y][z] = IF x = d /\ y = o /\ z = t THEN v ELSE remote[x][y][z]
<1> DEFINE V == 0..MaxVersion
           row == [remote[d][o] EXCEPT ![t] = v]
           page == [remote[d] EXCEPT ![o] = row]
<1>1. remote \in [Devices -> [Devices -> [Types -> V]]] /\ v \in V
  BY DEF Typed, StatesTyped
<1>2. remote' = [remote EXCEPT ![d] = page]
  OBVIOUS
<1> HIDE DEF V
<1>3. row \in [Types -> V] /\ \A z \in Types : row[z] = IF z = t THEN v ELSE remote[d][o][z]
  BY <1>1
<1> HIDE DEF row
<1>4. page \in [Devices -> [Types -> V]] /\ \A y \in Devices : page[y] = IF y = o THEN row ELSE remote[d][y]
  BY <1>1, <1>3
<1> HIDE DEF page
<1>5. /\ remote' \in [Devices -> [Devices -> [Types -> V]]]
      /\ \A x \in Devices : remote'[x] = IF x = d THEN page ELSE remote[x]
  BY <1>1, <1>2, <1>4
<1> QED
  BY <1>3, <1>4, <1>5 DEF V

(* Waiting, of the next state.                                             *)
LEMMA WaitingNext ==
  ASSUME \A c \in Clients :
           /\ peer'[c] = Backlog(c) => inbox'[c] = <<>> /\ ~rejected'[c] /\ subscribed'[c] = {}
           /\ peer'[c] # Backlog(c) => inbox'[Backlog(c)] = <<>>
  PROVE  Waiting'
BY DEF Waiting

(* Talking leaves the connections as they are.                             *)
LEMMA SpeaksIdle ==
  ASSUME BaseInv, NEW s \in Sessions, NEW hears \in BOOLEAN, NEW said, Speaks(s, hears, said),
         hears => Hears(s, said), ~hears => Tells(s, said)
  PROVE  Idle' /\ Paired' /\ Waiting'
<1>1. /\ UNCHANGED <<ready, peer>> /\ Talks(s, hears, said)
      /\ \A x \in Sessions \ {s} :
           bound'[x] = bound[x] /\ subscribed'[x] = subscribed[x] /\ rejected'[x] = rejected[x]
  BY DEF Speaks, Talks
<1>2. hears => ready[s]
  BY DEF Hears
<1>3. ~hears => UNCHANGED <<bound, subscribed, rejected>> /\ inbox'[s] = inbox[s]
  BY <1>1 DEF Tells, Talks
<1>4. Paired'
  BY <1>1 DEF BaseInv, Joined, Paired
<1>5. ASSUME NEW x \in Sessions, ~ready[x]
      PROVE  peer[x] = None /\ bound'[x] = None /\ subscribed'[x] = {} /\ ~rejected'[x] /\ inbox'[x] = <<>>
  <2>1. peer[x] = None /\ bound[x] = None /\ subscribed[x] = {} /\ ~rejected[x] /\ inbox[x] = <<>>
    BY <1>5 DEF BaseInv, Joined, Idle
  <2>2. CASE x = s
    BY <1>2, <1>3, <1>5, <2>1, <2>2
  <2>3. CASE x # s
    <3>1. peer[s] # x
      BY <1>5, Opposite, Owners DEF BaseInv, Joined
    <3>2. inbox'[x] = inbox[x]
      BY <1>1, <2>3, <3>1, Owners DEF Talks
    <3> QED
      BY <1>1, <2>1, <2>3, <3>2
  <2> QED
    BY <2>2, <2>3
<1>6. ASSUME NEW c \in Clients, peer[c] = Backlog(c)
      PROVE  inbox'[c] = <<>> /\ ~rejected'[c] /\ subscribed'[c] = {}
  <2>1. inbox[c] = <<>> /\ ~rejected[c] /\ subscribed[c] = {}
    BY <1>6 DEF BaseInv, Joined, Waiting
  <2>2. c \in Sessions /\ c \in Ends /\ Backlog(c) \notin Sessions
    BY EndsAre
  <2>3. peer[s] # c
    BY <1>6, <2>2 DEF BaseInv, Joined, Paired
  <2>4. CASE s = c
    BY <1>1, <1>3, <2>1, <2>4 DEF Talks
  <2>5. CASE s # c
    BY <1>1, <2>1, <2>2, <2>3, <2>5 DEF Talks
  <2> QED
    BY <2>4, <2>5
<1>7. ASSUME NEW c \in Clients, peer[c] # Backlog(c)
      PROVE  inbox'[Backlog(c)] = <<>>
  <2>1. inbox[Backlog(c)] = <<>> /\ Backlog(c) \in Ends /\ Backlog(c) \notin Sessions
    BY <1>7, EndsAre DEF BaseInv, Joined, Waiting
  <2>2. peer[s] # Backlog(c)
    BY <1>7, <2>1, EndsAre, Opposite DEF BaseInv, Joined
  <2> QED
    BY <1>1, <2>1, <2>2 DEF Talks
<1>8. Idle'
  BY <1>1, <1>5 DEF Idle
<1>9. Waiting'
  <2>1. UNCHANGED peer
    BY <1>1
  <2> QED
    BY <1>6, <1>7, <2>1, WaitingNext
<1> QED
  BY <1>4, <1>8, <1>9

(* Who talks signs, and is heard by the other end only.                    *)
LEMMA SpeaksGenuine ==
  ASSUME BaseInv, NEW s \in Sessions, NEW hears \in BOOLEAN, NEW said, Speaks(s, hears, said),
         hears => Hears(s, said), ~hears => Tells(s, said)
  PROVE  Genuine' /\ NoGoodbye'
<1> DEFINE m == Head(inbox[s])
<1>1. /\ UNCHANGED <<ready, peer>> /\ Talks(s, hears, said)
      /\ \A x \in Sessions \ {s} : bound'[x] = bound[x]
      /\ \A x \in Said(said) : /\ x.kind # "Disconnect"
                               /\ x.kind # "Acknowledgement" => x.device = Dev(s)
  BY DEF Speaks, Talks, Fit
<1>2. /\ hears => m \in At(s)
      /\ hears => bound'[s] = bound[s] \/ (m.kind # "Acknowledgement" /\ bound[s] = None /\ bound'[s] = m.device)
  BY <1>1, TalksAt DEF Hears, BaseInv
<1>3. ~hears => bound' = bound
  BY DEF Tells
<1>4. \A e \in Ends : At(e)' \subseteq At(e) \cup (IF e = peer[s] THEN Said(said) ELSE {})
  BY <1>1, TalksAt DEF BaseInv
<1>5. ASSUME NEW e \in Ends, NEW o, Signed(e, o), e = peer[s] => Dev(s) = o
      PROVE  Signed(e, o)'
  BY <1>1, <1>4, <1>5 DEF Signed
<1>6. ASSUME NEW c \in Clients
      PROVE  bound'[c] \in {None, Server} /\ Signed(c, Server)' /\ Signed(Backlog(c), c)'
  <2>1. /\ bound[c] \in {None, Server} /\ Signed(c, Server) /\ Signed(Backlog(c), c)
        /\ c \in Sessions /\ c \in Ends /\ Backlog(c) \in Ends /\ Backlog(c) \notin Sessions
    BY EndsAre DEF BaseInv, Joined, Genuine
  <2>2. bound'[c] \in {None, Server}
    <3>1. CASE c = s
      BY <1>2, <1>3, <2>1, <3>1 DEF Signed
    <3>2. CASE c # s
      BY <1>1, <2>1, <3>2
    <3> QED
      BY <3>1, <3>2
  <2>3. c = peer[s] => Dev(s) = Server
    BY <2>1, EndsAre, Opposite, Owners DEF BaseInv, Joined
  <2>4. Backlog(c) = peer[s] => Dev(s) = c
    BY <2>1, EndsAre, Opposite, Owners DEF BaseInv, Joined
  <2>5. Signed(c, Server)'
    BY <1>5, <2>1, <2>3
  <2> DEFINE b == Backlog(c)
  <2>6. Signed(b, c)'
    <3> HIDE DEF b
    <3> QED
      BY <1>5, <2>1, <2>4 DEF b
  <2> QED
    BY <2>2, <2>5, <2>6
<1>7. ASSUME NEW k \in Slots, ready[k]
      PROVE  \E c \in Clients : peer[k] \in {None, c} /\ bound'[k] \in {None, c} /\ Signed(k, c)'
  <2>1. k \in Sessions /\ k \in Ends
    BY EndsAre
  <2>2. PICK c \in Clients : peer[k] \in {None, c} /\ bound[k] \in {None, c} /\ Signed(k, c)
    BY <1>7 DEF BaseInv, Joined, Genuine
  <2>3. bound'[k] \in {None, c}
    <3>1. CASE k = s
      BY <1>2, <1>3, <2>2, <3>1 DEF Signed
    <3>2. CASE k # s
      BY <1>1, <2>1, <2>2, <3>2
    <3> QED
      BY <3>1, <3>2
  <2>4. k = peer[s] => Dev(s) = c
    <3> SUFFICES ASSUME k = peer[s] PROVE Dev(s) = c
      OBVIOUS
    <3>1. peer[k] = s /\ s \in Clients
      BY <2>1, EndsAre, Opposite DEF BaseInv, Joined
    <3>2. s # None
      BY Owners
    <3> QED
      BY <2>2, <3>1, <3>2, Owners
  <2>5. Signed(k, c)'
    BY <1>5, <2>1, <2>2, <2>4
  <2> QED
    BY <2>2, <2>3, <2>5
<1>8. Genuine'
  BY <1>1, <1>6, <1>7 DEF Genuine
<1>9. ASSUME NEW e \in Ends, \A x \in At(e) : x.kind # "Disconnect"
      PROVE  \A x \in At(e)' : x.kind # "Disconnect"
  BY <1>1, <1>4, <1>9
<1>10. \A x \in Sessions : peer[x] # None => \A y \in At(x)' : y.kind # "Disconnect"
  BY <1>9, Owners DEF BaseInv, Joined, NoGoodbye
<1>11. ASSUME NEW c \in Clients PROVE \A y \in At(Backlog(c))' : y.kind # "Disconnect"
  <2> DEFINE b == Backlog(c)
  <2>1. b \in Ends /\ \A x \in At(b) : x.kind # "Disconnect"
    BY EndsAre DEF BaseInv, Joined, NoGoodbye
  <2>2. \A y \in At(b)' : y.kind # "Disconnect"
    <3> HIDE DEF b
    <3> QED BY <1>9, <2>1
  <2> QED
    BY <2>2
<1> QED
  BY <1>1, <1>8, <1>10, <1>11 DEF NoGoodbye

(* What is said and copied are versions that were published.               *)
LEMMA SpeaksPublished ==
  ASSUME BaseInv, NEW s \in Sessions, NEW hears \in BOOLEAN, NEW said, Speaks(s, hears, said),
         hears => Hears(s, said), ~hears => Tells(s, said),
         \A n \in publishing' : \E p \in publishing :
           n.device = p.device /\ n.type = p.type /\ n.version = p.version /\ n.todo \subseteq p.todo
  PROVE  Published'
<1> DEFINE m == Head(inbox[s])
<1>1. /\ UNCHANGED <<version, peer>> /\ Talks(s, hears, said)
      /\ \A x \in Said(said) : Fit(s, x, bound'[s], subscribed'[s])
  BY DEF Speaks, Talks
<1>2. \A e \in Ends : At(e)' \subseteq At(e) \cup Said(said)
  BY <1>1, TalksAt DEF BaseInv
<1>3. ASSUME NEW x \in Said(said), x.kind = "Update" PROVE x.version =< version[x.device][x.type]
  <2>1. /\ x.device = Dev(s) /\ x \in Message
        /\ \/ x.version = version[Dev(s)][x.type]
           \/ \E p \in publishing : s \in p.todo /\ p.type = x.type /\ p.version = x.version
    BY <1>1, <1>3 DEF Fit
  <2>2. CASE x.version = version[Dev(s)][x.type]
    <3>1. x.type \in Types /\ x.device \in Devices
      BY <1>3, <2>1, MessageFields
    <3>2. version[x.device][x.type] \in Int
      BY <3>1, SessionAssumption DEF BaseInv, Typed, StatesTyped
    <3> QED
      BY <2>1, <2>2, <3>2
  <2>3. CASE \E p \in publishing : s \in p.todo /\ p.type = x.type /\ p.version = x.version
    BY <2>1, <2>3 DEF BaseInv, Published
  <2> QED
    BY <2>1, <2>2, <2>3
<1>4. \A e \in Ends : \A x \in At(e)' : x.kind = "Update" => x.version =< version[x.device][x.type]
  BY <1>2, <1>3 DEF BaseInv, Published
<1>5. \A n \in publishing' :
        n.version =< version[n.device][n.type] /\ \A x \in n.todo : Dev(x) = n.device
  BY DEF BaseInv, Published
<1>6. ASSUME NEW d \in Devices, NEW o \in Devices, NEW t \in Types
      PROVE  remote'[d][o][t] =< version[o][t]
  <2>1. remote[d][o][t] =< version[o][t]
    BY DEF BaseInv, Published
  <2>2. CASE remote' = remote
    BY <2>1, <2>2
  <2>3. CASE remote' # remote
    <3>1. /\ hears /\ m.kind = "Update"
          /\ remote' = [remote EXCEPT ![Dev(s)][m.device][m.type] = m.version]
      BY <2>3 DEF Hears, Tells
    <3>2. m \in At(s) /\ s \in Ends
      BY <1>1, <3>1, TalksAt, Owners DEF BaseInv
    <3>3. m.version =< version[m.device][m.type]
      BY <3>1, <3>2 DEF BaseInv, Published
    <3>4. remote \in [Devices -> [Devices -> [Types -> 0..MaxVersion]]]
      BY DEF BaseInv, Typed, StatesTyped
    <3> HIDE DEF m
    <3>5. CASE d = Dev(s) /\ o = m.device /\ t = m.type
      BY <3>1, <3>3, <3>4, <3>5
    <3>6. CASE ~(d = Dev(s) /\ o = m.device /\ t = m.type)
      BY <2>1, <3>1, <3>4, <3>6
    <3> QED
      BY <3>5, <3>6
  <2> QED
    BY <2>2, <2>3
<1> QED
  BY <1>1, <1>4, <1>5, <1>6 DEF Published

(* Types, but for those of the notifications.                              *)
LEMMA SpeaksTyped ==
  ASSUME BaseInv, NEW s \in Sessions, NEW hears \in BOOLEAN, NEW said, Speaks(s, hears, said),
         hears => Hears(s, said), ~hears => Tells(s, said)
  PROVE  StatesTyped' /\ LinksTyped' /\ inbox' \in [Ends -> Seq(Message)]
<1> DEFINE m == Head(inbox[s])
<1>1. /\ UNCHANGED <<version, registry, ready, peer>> /\ inbox' \in [Ends -> Seq(Message)]
      /\ Talks(s, hears, said)
  BY DEF Speaks, Talks
<1>2. LinksTyped'
  BY <1>1 DEF Speaks, BaseInv, Typed, LinksTyped
<1>3. hears => m \in Message
  BY <1>1, ReceivedMessage DEF Talks, BaseInv
<1>4. /\ available' \in [Devices -> [Devices -> {"Unknown", "Connected", "Disconnected"}]]
      /\ remote' \in [Devices -> [Devices -> [Types -> 0..MaxVersion]]]
  <2>1. /\ available \in [Devices -> [Devices -> {"Unknown", "Connected", "Disconnected"}]]
        /\ remote \in [Devices -> [Devices -> [Types -> 0..MaxVersion]]]
    BY DEF BaseInv, Typed, StatesTyped
  <2>2. CASE ~hears
    BY <2>1, <2>2 DEF Tells
  <2>3. CASE hears
    <3>1. /\ m.device \in Devices /\ Dev(s) \in Devices /\ bound[s] \in Devices \cup {None}
          /\ m.kind = "Update" => m.type \in Types /\ m.version \in 1..MaxVersion
      BY <1>3, <2>3, MessageFields, Owners DEF BaseInv, Typed, LinksTyped
    <3>2. remote' = remote \/ (m.kind = "Update" /\ remote' = [remote EXCEPT ![Dev(s)][m.device][m.type] = m.version])
      BY <2>3 DEF Hears
    <3>3. \/ available' = available
          \/ \E o \in Devices, a \in {"Connected", "Disconnected"} :
               available' = [available EXCEPT ![Dev(s)][o] = a]
      BY <2>3, <3>1 DEF Hears
    <3>4. m.kind = "Update" => m.version \in 0..MaxVersion
      BY <3>1, SessionAssumption
    <3> HIDE DEF m
    <3>5. remote' \in [Devices -> [Devices -> [Types -> 0..MaxVersion]]]
      <4>1. CASE remote' = remote
        BY <2>1, <4>1
      <4>2. CASE m.kind = "Update" /\ remote' = [remote EXCEPT ![Dev(s)][m.device][m.type] = m.version]
        <5> DEFINE d == Dev(s)
                   o == m.device
                   t == m.type
                   v == m.version
        <5>1. /\ d \in Devices /\ o \in Devices /\ t \in Types /\ v \in 0..MaxVersion
              /\ remote' = [remote EXCEPT ![d][o][t] = v]
          BY <3>1, <3>4, <4>2
        <5> HIDE DEF d, o, t, v
        <5> QED
          BY <5>1, CopyReplaced DEF BaseInv
      <4> QED
        BY <3>2, <4>1, <4>2
    <3>6. available' \in [Devices -> [Devices -> {"Unknown", "Connected", "Disconnected"}]]
      <4>1. CASE available' = available
        BY <2>1, <4>1
      <4>2. ASSUME NEW o \in Devices, NEW a \in {"Connected", "Disconnected"},
                   available' = [available EXCEPT ![Dev(s)][o] = a]
            PROVE  available' \in [Devices -> [Devices -> {"Unknown", "Connected", "Disconnected"}]]
        <5> DEFINE S == {"Unknown", "Connected", "Disconnected"}
        <5>1. a \in S /\ Dev(s) \in Devices /\ available \in [Devices -> [Devices -> S]]
          BY <2>1, <3>1
        <5> HIDE DEF S
        <5>2. [available EXCEPT ![Dev(s)][o] = a] \in [Devices -> [Devices -> S]]
          BY <5>1, TableEntry
        <5> QED
          BY <4>2, <5>2 DEF S
      <4> QED
        BY <3>3, <4>1, <4>2
    <3> QED
      BY <3>5, <3>6
  <2> QED
    BY <2>2, <2>3
<1> QED
  BY <1>1, <1>2, <1>4 DEF StatesTyped, BaseInv, Typed

(* Notifications become fewer.                                             *)
LEMMA WithoutTyped ==
  ASSUME NEW n, NEW s
  PROVE  \/ Without(n, s) = {}
         \/ Without(n, s) = {[n EXCEPT !.todo = n.todo \ {s}]}
BY DEF Without

(* Of a publication.                                                       *)
LEMMA PublicationLeft ==
  ASSUME Typed, NEW p \in publishing, NEW s \in p.todo,
         publishing' = (publishing \ {p}) \cup Without(p, s)
  PROVE  /\ publishing' \subseteq Publication
         /\ \A n \in publishing' : \E q \in publishing :
              n.device = q.device /\ n.type = q.type /\ n.version = q.version /\ n.todo \subseteq q.todo
         /\ \A q \in publishing : \A x : (q # p \/ x # s) /\ x \in q.todo =>
              \E n \in publishing' :
                n.device = q.device /\ n.type = q.type /\ n.version = q.version /\ x \in n.todo
<1> DEFINE l == [p EXCEPT !.todo = p.todo \ {s}]
<1>1. /\ p \in Publication
      /\ p = [device |-> p.device, type |-> p.type, version |-> p.version, todo |-> p.todo]
  BY DEF Typed, NotesTyped, Publication
<1>2. l = [device |-> p.device, type |-> p.type, version |-> p.version, todo |-> p.todo \ {s}]
  BY <1>1
<1>3. l \in Publication
  BY <1>1, <1>2 DEF Publication
<1>4. Without(p, s) = IF p.todo = {s} THEN {} ELSE {l}
  BY DEF Without
<1>5. publishing' \subseteq Publication
  BY <1>3, <1>4 DEF Typed, NotesTyped
<1>6. \A n \in publishing' : \E q \in publishing :
        n.device = q.device /\ n.type = q.type /\ n.version = q.version /\ n.todo \subseteq q.todo
  <2> TAKE n \in publishing'
  <2>1. n \in publishing \/ n = l
    BY <1>4
  <2> HIDE DEF l
  <2> QED
    BY <1>2, <2>1
<1>7. ASSUME NEW q \in publishing, NEW x, q # p \/ x # s, x \in q.todo
      PROVE  \E n \in publishing' :
               n.device = q.device /\ n.type = q.type /\ n.version = q.version /\ x \in n.todo
  <2>1. CASE q # p
    BY <1>7, <2>1
  <2>2. CASE q = p
    <3>1. x # s /\ p.todo # {s} /\ l \in publishing'
      BY <1>4, <1>7, <2>2
    <3> HIDE DEF l
    <3> QED
      BY <1>2, <1>7, <2>2, <3>1
  <2> QED
    BY <2>1, <2>2
<1> QED
  BY <1>5, <1>6, <1>7

(* Of a change.                                                            *)
LEMMA ChangeLeft ==
  ASSUME Typed, NEW d \in Devices, NEW n \in changing[d], NEW s \in n.todo,
         changing' = [changing EXCEPT ![d] = Without(n, s)]
  PROVE  /\ changing' \in [Devices -> SUBSET Change]
         /\ \A e \in Devices : changing'[e] = {} \/ \E x \in changing'[e] : changing'[e] = {x}
         /\ \A e \in Devices : e # d => changing'[e] = changing[e]
         /\ \A x \in changing'[d] : x.op = n.op /\ x.scope = n.scope /\ x.type = n.type /\ x.todo = n.todo \ {s}
         /\ n.todo # {s} => changing'[d] # {}
         /\ changing[d] = {n}
<1> DEFINE l == [n EXCEPT !.todo = n.todo \ {s}]
<1>1. /\ n \in Change /\ changing \in [Devices -> SUBSET Change]
      /\ n = [op |-> n.op, scope |-> n.scope, type |-> n.type, todo |-> n.todo]
      /\ \A e \in Devices : changing[e] = {} \/ \E x \in changing[e] : changing[e] = {x}
  BY DEF Typed, NotesTyped, Change
<1>2. l = [op |-> n.op, scope |-> n.scope, type |-> n.type, todo |-> n.todo \ {s}]
  BY <1>1
<1>3. l \in Change
  BY <1>1, <1>2 DEF Change
<1>4. Without(n, s) = IF n.todo = {s} THEN {} ELSE {l}
  BY DEF Without
<1>5. l.op = n.op /\ l.scope = n.scope /\ l.type = n.type /\ l.todo = n.todo \ {s}
  BY <1>2
<1> HIDE DEF l
<1>6. changing'[d] = Without(n, s) /\ \A e \in Devices : e # d => changing'[e] = changing[e]
  BY <1>1
<1>7. changing' \in [Devices -> SUBSET Change]
  BY <1>1, <1>3, <1>4
<1>8. \A e \in Devices : changing'[e] = {} \/ \E x \in changing'[e] : changing'[e] = {x}
  BY <1>1, <1>4, <1>6
<1> QED
  BY <1>1, <1>4, <1>5, <1>6, <1>7, <1>8

(* Handling a message keeps the invariant.                                 *)
LEMMA HandleKeeps ==
  ASSUME BaseInv, NEW s \in Sessions, Handle(s)
  PROVE  BaseInv'
<1>1. PICK said : Speaks(s, TRUE, said) /\ Hears(s, said)
  BY HandleSpeaks DEF BaseInv
<1>2. UNCHANGED <<notes, limits, registry>>
  BY <1>1 DEF Speaks, Hears
<1>3. NotesTyped' /\ LimitsTyped' /\ ChangesSound'
  BY <1>2 DEF BaseInv, Typed, NotesTyped, LimitsTyped, ChangesSound, notes, limits
<1>4. \A n \in publishing' : \E p \in publishing :
        n.device = p.device /\ n.type = p.type /\ n.version = p.version /\ n.todo \subseteq p.todo
  BY <1>2 DEF notes
<1> QED
  BY <1>1, <1>3, <1>4, SpeaksIdle, SpeaksGenuine, SpeaksPublished, SpeaksTyped DEF BaseInv, Joined, Typed

(* So does what applications cause.                                        *)
LEMMA TellsKeeps ==
  ASSUME BaseInv, NEW s \in Sessions, NEW said, Tells(s, said),
         NotesTyped', LimitsTyped', ChangesSound',
         \A n \in publishing' : \E p \in publishing :
           n.device = p.device /\ n.type = p.type /\ n.version = p.version /\ n.todo \subseteq p.todo
  PROVE  BaseInv'
<1>1. Speaks(s, FALSE, said)
  BY DEF Tells
<1> QED
  BY <1>1, SpeaksIdle, SpeaksGenuine, SpeaksPublished, SpeaksTyped DEF BaseInv, Joined, Typed

(* A notification of a publication.                                        *)
LEMMA NotifyPublishedKeeps ==
  ASSUME BaseInv, NEW p \in publishing, NEW s \in p.todo, NotifyPublished(p, s)
  PROVE  BaseInv'
<1>1. PICK said : Tells(s, said)
  BY PublishedSpeaks DEF BaseInv
<1>2. /\ publishing' = (publishing \ {p}) \cup Without(p, s)
      /\ UNCHANGED <<changing, limits, registry>> /\ s \in Sessions
  BY DEF NotifyPublished, core, BaseInv, Typed, NotesTyped, Publication
<1>3. /\ publishing' \subseteq Publication
      /\ \A n \in publishing' : \E q \in publishing :
           n.device = q.device /\ n.type = q.type /\ n.version = q.version /\ n.todo \subseteq q.todo
  BY <1>2, PublicationLeft DEF BaseInv
<1>4. NotesTyped' /\ LimitsTyped' /\ ChangesSound'
  BY <1>2, <1>3 DEF BaseInv, Typed, NotesTyped, LimitsTyped, ChangesSound, limits
<1> QED
  BY <1>1, <1>2, <1>3, <1>4, TellsKeeps

(* A notification of a change.                                             *)
LEMMA NotifyChangedKeeps ==
  ASSUME BaseInv, NEW d \in Devices, NEW n \in changing[d], NEW s \in n.todo, NotifyChanged(d, n, s)
  PROVE  BaseInv'
<1>1. PICK said : Tells(s, said)
  BY ChangedSpeaks DEF BaseInv
<1>2. /\ changing' = [changing EXCEPT ![d] = Without(n, s)]
      /\ UNCHANGED <<publishing, limits, registry>> /\ s \in Sessions
  BY DEF NotifyChanged, core, BaseInv, Typed, NotesTyped, Change
<1>3. /\ changing' \in [Devices -> SUBSET Change]
      /\ \A e \in Devices : changing'[e] = {} \/ \E x \in changing'[e] : changing'[e] = {x}
      /\ \A e \in Devices : e # d => changing'[e] = changing[e]
      /\ \A x \in changing'[d] : x.op = n.op /\ x.scope = n.scope /\ x.type = n.type /\ x.todo = n.todo \ {s}
  <2>1. Typed /\ changing' = [changing EXCEPT ![d] = Without(n, s)]
    BY <1>2 DEF BaseInv
  <2>2. /\ changing' \in [Devices -> SUBSET Change]
        /\ \A e \in Devices : changing'[e] = {} \/ \E x \in changing'[e] : changing'[e] = {x}
        /\ \A e \in Devices : e # d => changing'[e] = changing[e]
        /\ \A x \in changing'[d] : x.op = n.op /\ x.scope = n.scope /\ x.type = n.type /\ x.todo = n.todo \ {s}
        /\ n.todo # {s} => changing'[d] # {}
        /\ changing[d] = {n}
    BY <2>1, ChangeLeft
  <2> QED
    BY <2>2
<1>4. NotesTyped' /\ LimitsTyped'
  BY <1>2, <1>3 DEF BaseInv, Typed, NotesTyped, LimitsTyped, limits
<1>5. ASSUME NEW e \in Devices, NEW x \in changing'[e]
      PROVE  /\ x.op = "Subscribe" <=> <<x.scope, x.type>> \in registry[e]
             /\ x.op = "Unsubscribe" => Unsubscribes
             /\ \A y \in x.todo : Dev(y) = e
  <2>1. CASE e = d
    BY <1>3, <1>5, <2>1 DEF BaseInv, ChangesSound
  <2>2. CASE e # d
    BY <1>3, <1>5, <2>2 DEF BaseInv, ChangesSound
  <2> QED
    BY <2>1, <2>2
<1>6. ChangesSound'
  BY <1>2, <1>5 DEF BaseInv, ChangesSound
<1> QED
  BY <1>1, <1>2, <1>4, <1>6, TellsKeeps

(* A request to resynchronize.                                             *)
LEMMA ResynchronizeKeeps ==
  ASSUME BaseInv, NEW c \in Clients, NEW t \in Types \cup {None}, Resynchronize(c, t)
  PROVE  BaseInv'
<1>1. PICK said : Tells(c, said)
  BY ResynchronizeTells DEF BaseInv
<1>2. /\ UNCHANGED <<notes, changes, drops, registry>> /\ c \in Sessions
      /\ resyncs < MaxResyncs /\ resyncs' = resyncs + 1
  BY EndsAre DEF Resynchronize, core
<1>3. LimitsTyped'
  BY <1>2, SessionAssumption DEF BaseInv, Typed, LimitsTyped
<1>4. NotesTyped' /\ ChangesSound'
  BY <1>2 DEF BaseInv, Typed, NotesTyped, ChangesSound, notes
<1> QED
  BY <1>1, <1>2, <1>3, <1>4, TellsKeeps DEF notes

-----------------------------------------------------------------------------
(* Sessions end.                                                           *)

\* Session s ends, its peer hears a goodbye.
Resets(s) ==
  /\ ready[s] /\ (rejected[s] \/ peer[s] = None) /\ peer[s] \in Sessions \cup {None}
  /\ inbox' \in [Ends -> Seq(Message)] /\ inbox'[s] = <<>>
  /\ \A e \in Ends : e # s /\ e # peer[s] => inbox'[e] = inbox[e]
  /\ \A e \in Ends : e = peer[s] =>
       /\ e # s /\ At(e) \subseteq At(e)'
       /\ \E goodbye \in Seq(Message) : /\ inbox'[e] = inbox[e] \o goodbye
                                       /\ \A m \in Said(goodbye) : m.kind = "Disconnect" /\ m.device = Dev(s)
       /\ \A m \in At(e)' : m \in At(e) \/ (m.kind = "Disconnect" /\ m.device = Dev(s))
  /\ peer' \in [Sessions -> Ends \cup {None}] /\ peer'[s] = None
  /\ \A x \in Sessions \ {s} : peer'[x] = IF x = peer[s] THEN None ELSE peer[x]
  /\ ~ready'[s] /\ bound'[s] = None /\ subscribed'[s] = {} /\ ~rejected'[s]
  /\ \A x \in Sessions \ {s} : /\ ready'[x] = ready[x] /\ bound'[x] = bound[x]
                               /\ subscribed'[x] = subscribed[x] /\ rejected'[x] = rejected[x]
  /\ available' = IF bound[s] # None THEN [available EXCEPT ![Dev(s)][bound[s]] = "Disconnected"]
                  ELSE available
  /\ UNCHANGED <<version, remote, registry, notes, limits>>

(* What the end of a session changes.                                      *)
LEMMA ResetChanges ==
  ASSUME BaseInv, NEW s \in Sessions, ResetSession(s)
  PROVE  Resets(s)
<1> DEFINE goodbye == IF bound[s] # None THEN <<[kind |-> "Disconnect", device |-> Dev(s)]>> ELSE <<>>
           box == Put(inbox, s, goodbye)
<1>1. /\ ready[s] /\ (rejected[s] \/ peer[s] = None)
      /\ UNCHANGED <<version, remote, registry, notes, limits>>
      /\ inbox' = [box EXCEPT ![s] = <<>>]
  BY DEF ResetSession, EndSession
<1>2. /\ available' = IF bound[s] # None THEN [available EXCEPT ![Dev(s)][bound[s]] = "Disconnected"]
                      ELSE available
      /\ bound' = [bound EXCEPT ![s] = None]
      /\ subscribed' = [subscribed EXCEPT ![s] = {}]
      /\ ready' = [ready EXCEPT ![s] = FALSE]
      /\ rejected' = [rejected EXCEPT ![s] = FALSE]
      /\ peer' = [x \in Sessions |-> IF x = s \/ x = peer[s] THEN None ELSE peer[x]]
  BY DEF ResetSession, EndSession
<1>3. goodbye \in Seq(Message) /\ \A m \in Said(goodbye) : m.kind = "Disconnect" /\ m.device = Dev(s)
  <2> DEFINE g == [kind |-> "Disconnect", device |-> Dev(s)]
  <2>1. g \in Message /\ g.kind = "Disconnect" /\ g.device = Dev(s)
    BY Owners DEF Message
  <2> HIDE DEF g
  <2>2. Said(<<g>>) = {g} /\ <<g>> \in Seq(Message) /\ Said(<<>>) = {} /\ <<>> \in Seq(Message)
    BY <2>1, SaidAfter, EmptySeq
  <2>3. goodbye = IF bound[s] # None THEN <<g>> ELSE <<>>
    BY DEF g
  <2> HIDE DEF goodbye
  <2> QED
    BY <2>1, <2>2, <2>3
<1> HIDE DEF goodbye
<1>4. /\ box \in [Ends -> Seq(Message)]
      /\ peer[s] # None => box[peer[s]] = inbox[peer[s]] \o goodbye
      /\ \A e \in Ends : e # peer[s] => box[e] = inbox[e]
  BY <1>3, PutAppends DEF BaseInv, Typed
<1> HIDE DEF box
<1>5. s \in Ends /\ s # None /\ peer[s] # s /\ <<>> \in Seq(Message)
  BY Owners, EmptySeq DEF BaseInv, Typed, LinksTyped
<1>6. /\ inbox' \in [Ends -> Seq(Message)] /\ inbox'[s] = <<>>
      /\ \A e \in Ends : e # s => inbox'[e] = box[e]
  BY <1>1, <1>4, <1>5
<1>7. peer[s] \in Sessions \cup {None}
  <2>1. ASSUME peer[s] \notin Sessions, peer[s] # None PROVE FALSE
    <3>1. s \in Clients /\ peer[s] = Backlog(s)
      BY <2>1, Opposite DEF BaseInv, Joined
    <3> QED
      BY <1>1, <2>1, <3>1 DEF BaseInv, Joined, Waiting
  <2> QED
    BY <2>1
<1>8. ASSUME NEW e \in Ends, e = peer[s]
      PROVE  /\ e # s /\ At(e) \subseteq At(e)'
             /\ inbox'[e] = inbox[e] \o goodbye
             /\ \A m \in At(e)' : m \in At(e) \/ (m.kind = "Disconnect" /\ m.device = Dev(s))
  <2>1. e # s /\ inbox'[e] = inbox[e] \o goodbye /\ inbox[e] \in Seq(Message)
    BY <1>4, <1>5, <1>6, <1>8, EndsAre DEF BaseInv, Typed
  <2>2. Said(inbox'[e]) = Said(inbox[e]) \cup Said(goodbye)
    BY <1>3, <2>1, SaidAfter
  <2>3. At(e)' = Said(inbox'[e]) /\ At(e) = Said(inbox[e])
    BY DEF At, Said
  <2> QED
    BY <1>3, <2>1, <2>2, <2>3
<1>9. /\ ~ready'[s] /\ bound'[s] = None /\ subscribed'[s] = {} /\ ~rejected'[s]
      /\ \A x \in Sessions \ {s} : /\ ready'[x] = ready[x] /\ bound'[x] = bound[x]
                                   /\ subscribed'[x] = subscribed[x] /\ rejected'[x] = rejected[x]
  BY <1>2 DEF BaseInv, Typed, LinksTyped
<1>10. /\ peer' \in [Sessions -> Ends \cup {None}] /\ peer'[s] = None
       /\ \A x \in Sessions \ {s} : peer'[x] = IF x = peer[s] THEN None ELSE peer[x]
  BY <1>2 DEF BaseInv, Typed, LinksTyped
<1> QED
  BY <1>1, <1>2, <1>3, <1>4, <1>6, <1>7, <1>8, <1>9, <1>10 DEF Resets

(* The connections that are left.                                          *)
LEMMA ResetJoined ==
  ASSUME BaseInv, NEW s \in Sessions, ResetSession(s)
  PROVE  Joined'
<1>1. /\ ready[s] /\ (rejected[s] \/ peer[s] = None) /\ peer[s] \in Sessions \cup {None}
      /\ inbox'[s] = <<>>
      /\ \A e \in Ends : e # s /\ e # peer[s] => inbox'[e] = inbox[e]
      /\ \A e \in Ends : e = peer[s] => /\ e # s
                                        /\ \A m \in At(e)' : \/ m \in At(e)
                                                             \/ m.kind = "Disconnect" /\ m.device = Dev(s)
      /\ peer'[s] = None
      /\ \A x \in Sessions \ {s} : peer'[x] = IF x = peer[s] THEN None ELSE peer[x]
      /\ ~ready'[s] /\ bound'[s] = None /\ subscribed'[s] = {} /\ ~rejected'[s]
      /\ \A x \in Sessions \ {s} : /\ ready'[x] = ready[x] /\ bound'[x] = bound[x]
                                   /\ subscribed'[x] = subscribed[x] /\ rejected'[x] = rejected[x]
  BY ResetChanges DEF Resets
<1>2. /\ Idle /\ Paired /\ Waiting /\ Genuine /\ NoGoodbye /\ Typed
      /\ \A x \in Sessions : x \in Ends /\ x # None
  BY Owners DEF BaseInv, Joined
<1>3. \A e \in Ends : e # s /\ e # peer[s] => At(e)' = At(e)
  BY <1>1 DEF At
<1>4. At(s)' = {}
  BY <1>1 DEF At
<1>5. Idle'
  <2> SUFFICES ASSUME NEW x \in Sessions, ~ready'[x]
               PROVE  peer'[x] = None /\ bound'[x] = None /\ subscribed'[x] = {} /\ ~rejected'[x] /\ inbox'[x] = <<>>
    BY DEF Idle
  <2>1. CASE x = s
    BY <1>1, <2>1
  <2>2. CASE x # s
    <3>1. ~ready[x] /\ peer[x] = None /\ bound[x] = None /\ subscribed[x] = {} /\ ~rejected[x] /\ inbox[x] = <<>>
      BY <1>1, <1>2, <2>2 DEF Idle
    <3>2. x # peer[s]
      BY <1>2, <3>1, Opposite
    <3> QED
      BY <1>1, <1>2, <2>2, <3>1, <3>2
  <2> QED
    BY <2>1, <2>2
<1>6. \A x, y \in Sessions : peer'[x] = y => peer[x] = y /\ x # s /\ y # s /\ peer'[y] = x
  <2> TAKE x, y \in Sessions
  <2> HAVE peer'[x] = y
  <2>1. x # s /\ x # peer[s] /\ peer[x] = y
    BY <1>1, <1>2
  <2>2. peer[y] = x
    BY <1>2, <2>1 DEF Paired
  <2>3. y # s /\ y # peer[s]
    BY <1>2, <2>1, <2>2 DEF Paired
  <2> QED
    BY <1>1, <2>1, <2>2, <2>3
<1>7. \A x \in Sessions : peer'[x] \in {None, peer[x]}
  BY <1>1
<1>8. Paired'
  <2>1. \A c \in Clients : peer'[c] \in Slots \cup {Backlog(c), None}
    BY <1>2, <1>7, EndsAre DEF Paired
  <2>2. \A k \in Slots : peer'[k] \in Clients \cup {None}
    BY <1>2, <1>7, EndsAre DEF Paired
  <2> QED
    BY <1>6, <2>1, <2>2 DEF Paired, Backlog
<1>9. \A c \in Clients : Backlog(c) \in Ends /\ Backlog(c) # s /\ Backlog(c) # peer[s] /\ Backlog(c) # None
  BY <1>1, <1>2, EndsAre
<1>10. ASSUME NEW c \in Clients
       PROVE  /\ peer'[c] = Backlog(c) => inbox'[c] = <<>> /\ ~rejected'[c] /\ subscribed'[c] = {}
              /\ peer'[c] # Backlog(c) => inbox'[Backlog(c)] = <<>>
  <2>1. c \in Sessions /\ c \in Ends
    BY EndsAre
  <2>2. ASSUME peer'[c] = Backlog(c) PROVE inbox'[c] = <<>> /\ ~rejected'[c] /\ subscribed'[c] = {}
    <3>1. c # s /\ c # peer[s] /\ peer[c] = Backlog(c)
      BY <1>1, <1>9, <2>1, <2>2
    <3> QED
      BY <1>1, <1>2, <2>1, <3>1 DEF Waiting
  <2>3. ASSUME peer'[c] # Backlog(c) PROVE inbox'[Backlog(c)] = <<>>
    <3>1. peer[c] # Backlog(c)
      <4> SUFFICES ASSUME peer[c] = Backlog(c) PROVE FALSE
        OBVIOUS
      <4>1. c # s
        BY <1>1, <1>2, <1>9, EndsAre DEF Waiting
      <4>2. c # peer[s]
        BY <1>2, <1>9, <2>1 DEF Paired
      <4> QED
        BY <1>1, <2>1, <2>3, <4>1, <4>2
    <3> QED
      BY <1>1, <1>2, <1>9, <3>1 DEF Waiting
  <2> QED
    BY <2>2, <2>3
<1>11. ASSUME NEW e \in Ends, NEW o, Signed(e, o), e = peer[s] => Dev(s) = o
       PROVE  Signed(e, o)'
  <2>1. CASE e = s
    BY <1>4, <2>1 DEF Signed
  <2>2. CASE e = peer[s]
    BY <1>1, <1>11, <2>2 DEF Signed
  <2>3. CASE e # s /\ e # peer[s]
    BY <1>3, <1>11, <2>3 DEF Signed
  <2> QED
    BY <2>1, <2>2, <2>3
<1>12. ASSUME NEW c \in Clients
       PROVE  bound'[c] \in {None, Server} /\ Signed(c, Server)' /\ Signed(Backlog(c), c)'
  <2>1. /\ bound[c] \in {None, Server} /\ Signed(c, Server) /\ Signed(Backlog(c), c)
        /\ c \in Sessions /\ c \in Ends
    BY <1>2, EndsAre DEF Genuine
  <2>2. bound'[c] \in {None, Server}
    BY <1>1, <2>1
  <2>3. c = peer[s] => Dev(s) = Server
    BY <1>2, <2>1, EndsAre, Opposite, Owners
  <2>4. Signed(c, Server)'
    BY <1>11, <2>1, <2>3
  <2> DEFINE b == Backlog(c)
  <2>5. Signed(b, c)'
    <3>1. b \in Ends /\ b # peer[s] /\ Signed(b, c)
      BY <1>9, <2>1
    <3> HIDE DEF b
    <3> QED
      BY <1>11, <3>1
  <2> QED
    BY <2>2, <2>4, <2>5
<1>13. ASSUME NEW k \in Slots, ready'[k]
       PROVE  \E c \in Clients : peer'[k] \in {None, c} /\ bound'[k] \in {None, c} /\ Signed(k, c)'
  <2>1. k \in Sessions /\ k \in Ends /\ ready[k]
    BY <1>1, <1>13, EndsAre
  <2>2. PICK c \in Clients : peer[k] \in {None, c} /\ bound[k] \in {None, c} /\ Signed(k, c)
    BY <1>2, <2>1 DEF Genuine
  <2>3. peer'[k] \in {None, c} /\ bound'[k] \in {None, c}
    BY <1>1, <1>7, <2>1, <2>2
  <2>4. k = peer[s] => Dev(s) = c
    <3> SUFFICES ASSUME k = peer[s] PROVE Dev(s) = c
      OBVIOUS
    <3>1. peer[k] = s /\ s \in Clients
      BY <1>2, <2>1, EndsAre, Opposite
    <3> QED
      BY <1>2, <2>2, <3>1, Owners
  <2>5. Signed(k, c)'
    BY <1>11, <2>1, <2>2, <2>4
  <2> QED
    BY <2>3, <2>5
<1>14. Genuine'
  BY <1>12, <1>13 DEF Genuine, Backlog
<1>15. \A x \in Sessions : peer'[x] # None => \A m \in At(x)' : m.kind # "Disconnect"
  <2> SUFFICES ASSUME NEW x \in Sessions, peer'[x] # None PROVE \A m \in At(x)' : m.kind # "Disconnect"
    OBVIOUS
  <2>1. x # s /\ x # peer[s] /\ peer[x] # None /\ x \in Ends
    BY <1>1, <1>2
  <2> QED
    BY <1>2, <1>3, <2>1 DEF NoGoodbye
<1>16. ASSUME NEW c \in Clients PROVE \A m \in At(Backlog(c))' : m.kind # "Disconnect"
  <2> DEFINE b == Backlog(c)
  <2>1. b \in Ends /\ b # s /\ b # peer[s] /\ \A m \in At(b) : m.kind # "Disconnect"
    BY <1>2, <1>9 DEF NoGoodbye
  <2>2. \A m \in At(b)' : m.kind # "Disconnect"
    <3> HIDE DEF b
    <3> QED BY <1>3, <2>1
  <2> QED
    BY <2>2
<1>17. NoGoodbye'
  BY <1>15, <1>16 DEF NoGoodbye, Backlog
<1>18. Waiting'
  BY <1>10, WaitingNext
<1> QED
  BY <1>5, <1>8, <1>14, <1>17, <1>18 DEF Joined

(* The end of a session keeps the invariant.                               *)
LEMMA ResetKeeps ==
  ASSUME BaseInv, NEW s \in Sessions, ResetSession(s)
  PROVE  BaseInv'
<1>1. /\ inbox' \in [Ends -> Seq(Message)] /\ inbox'[s] = <<>>
      /\ \A e \in Ends : e # s /\ e # peer[s] => inbox'[e] = inbox[e]
      /\ \A e \in Ends : e = peer[s] => \A m \in At(e)' : m \in At(e) \/ m.kind = "Disconnect"
      /\ available' = IF bound[s] # None THEN [available EXCEPT ![Dev(s)][bound[s]] = "Disconnected"]
                      ELSE available
      /\ UNCHANGED <<version, remote, registry, notes, limits>>
      /\ peer' \in [Sessions -> Ends \cup {None}] /\ peer'[s] = None
      /\ \A x \in Sessions \ {s} : peer'[x] = IF x = peer[s] THEN None ELSE peer[x]
  BY ResetChanges DEF Resets
<1>2. LinksTyped'
  <2>1. LinksTyped /\ None \notin Sessions /\ IsFiniteSet({})
    BY Owners, FS_EmptySet DEF BaseInv, Typed
  <2>2. /\ bound' = [bound EXCEPT ![s] = None]
        /\ subscribed' = [subscribed EXCEPT ![s] = {}]
        /\ ready' = [ready EXCEPT ![s] = FALSE]
        /\ rejected' = [rejected EXCEPT ![s] = FALSE]
    BY DEF ResetSession, EndSession
  <2>3. \A x \in Sessions : peer'[x] # x
    BY <1>1, <2>1 DEF LinksTyped
  <2> QED
    BY <1>1, <2>1, <2>2, <2>3 DEF LinksTyped
<1>3. StatesTyped'
  <2>1. available' \in [Devices -> [Devices -> {"Unknown", "Connected", "Disconnected"}]]
    <3> DEFINE S == {"Unknown", "Connected", "Disconnected"}
               o == bound[s]
    <3>1. "Disconnected" \in S /\ Dev(s) \in Devices /\ available \in [Devices -> [Devices -> S]]
      BY Owners DEF BaseInv, Typed, StatesTyped
    <3>2. o \in Devices \cup {None}
      BY DEF BaseInv, Typed, LinksTyped
    <3>3. available' = IF o # None THEN [available EXCEPT ![Dev(s)][o] = "Disconnected"] ELSE available
      BY <1>1
    <3> HIDE DEF S, o
    <3>4. o \in Devices => [available EXCEPT ![Dev(s)][o] = "Disconnected"] \in [Devices -> [Devices -> S]]
      BY <3>1, TableEntry
    <3>5. available' \in [Devices -> [Devices -> S]]
      BY <3>1, <3>2, <3>3, <3>4
    <3> QED
      BY <3>5 DEF S
  <2> QED
    BY <1>1, <2>1 DEF BaseInv, Typed, StatesTyped
<1>4. NotesTyped' /\ LimitsTyped' /\ ChangesSound'
  BY <1>1 DEF BaseInv, Typed, NotesTyped, LimitsTyped, ChangesSound, notes, limits
<1>5. \A e \in Ends : \A m \in At(e)' : m \in At(e) \/ m.kind = "Disconnect"
  <2> TAKE e \in Ends
  <2>1. CASE e = s
    BY <1>1, <2>1 DEF At
  <2>2. CASE e = peer[s]
    BY <1>1, <2>2
  <2>3. CASE e # s /\ e # peer[s]
    BY <1>1, <2>3 DEF At
  <2> QED
    BY <2>1, <2>2, <2>3
<1>6. Published'
  BY <1>1, <1>5 DEF BaseInv, Published, notes
<1> QED
  BY <1>1, <1>2, <1>3, <1>4, <1>6, ResetJoined DEF BaseInv, Typed

-----------------------------------------------------------------------------
(* Sessions start, and connections are lost.                               *)

\* What a session says when it starts.
Welcome(s) ==
  IF Expected(s) # None THEN Current(s, Expected(s)) \o Current(s, Expected(s)) ELSE Current(s, None)

(* It asks for what the registry of the device wants.                      *)
LEMMA WelcomeSubscribes ==
  ASSUME NEW s \in Sessions, StatesTyped
  PROVE  /\ Welcome(s) \in Seq(Message)
         /\ Said(Welcome(s)) = Said(Current(s, Expected(s)))
         /\ \A m \in Said(Welcome(s)) : /\ m \in Message /\ m.kind = "Subscribe" /\ m.device = Dev(s)
                                        /\ \E x \in registry[Dev(s)] : /\ Applies(s, x[1], Expected(s))
                                                                       /\ m.type = x[2]
<1> DEFINE q == Current(s, Expected(s))
<1>1. Expected(s) \in Devices \cup {None}
  BY Owners
<1>2. /\ q \in Seq(Message)
      /\ \A m \in Said(q) : \E x \in registry[Dev(s)] : /\ Applies(s, x[1], Expected(s))
                                                        /\ m = Control(s, "Subscribe", x[2])
  BY <1>1, CurrentSubscribes
<1>3. Welcome(s) = IF Expected(s) # None THEN q \o q ELSE q
  BY DEF Welcome
<1>4. \A m \in Said(q) : Fit(s, m, Expected(s), {})
  BY <1>1, CurrentFit
<1> HIDE DEF q
<1>5. q \o q \in Seq(Message) /\ Said(q \o q) = Said(q)
  <2>1. q \in Seq(Message)
    BY <1>2
  <2>2. Said(q \o q) = Said(q) \cup Said(q)
    BY <2>1, SaidAfter
  <2> QED
    BY <2>1, <2>2, ConcatProperties
<1>6. Welcome(s) \in Seq(Message) /\ Said(Welcome(s)) = Said(q)
  BY <1>2, <1>3, <1>5
<1>7. ASSUME NEW m \in Said(q)
      PROVE  /\ m \in Message /\ m.kind = "Subscribe" /\ m.device = Dev(s)
             /\ \E x \in registry[Dev(s)] : Applies(s, x[1], Expected(s)) /\ m.type = x[2]
  <2>1. PICK x \in registry[Dev(s)] : Applies(s, x[1], Expected(s)) /\ m = Control(s, "Subscribe", x[2])
    BY <1>2
  <2>2. m.kind = "Subscribe" /\ m.device = Dev(s) /\ m.type = x[2]
    BY <2>1 DEF Control
  <2> QED
    BY <1>4, <2>1, <2>2 DEF Fit
<1> QED
  BY <1>6, <1>7 DEF q

\* The availability that the start of a session records.
Expects(s) ==
  available' = IF Expected(s) # None THEN [available EXCEPT ![Dev(s)][Expected(s)] = "Connected"]
               ELSE available

\* Session s starts; it has not received anything.
Starts(s) ==
  /\ ~ready[s] /\ peer[s] = None /\ bound[s] = None /\ subscribed[s] = {} /\ ~rejected[s]
  /\ inbox[s] = <<>>
  /\ ready' = [ready EXCEPT ![s] = TRUE] /\ bound' = [bound EXCEPT ![s] = Expected(s)] /\ Expects(s)
  /\ inbox' \in [Ends -> Seq(Message)]
  /\ UNCHANGED <<version, remote, registry, subscribed, rejected, notes, limits>>

\* Client c connects; its welcome waits with it.
Connects(c) ==
  /\ Starts(c) /\ peer' = [peer EXCEPT ![c] = Backlog(c)]
  /\ inbox[Backlog(c)] = <<>> /\ inbox'[Backlog(c)] = Welcome(c)
  /\ \A e \in Ends : e # Backlog(c) => inbox'[e] = inbox[e]

\* Slot k receives what waited with client c, and welcomes it.
Accepts(k, c) ==
  /\ Starts(k) /\ peer[c] = Backlog(c) /\ peer' = [peer EXCEPT ![c] = k, ![k] = c]
  /\ ready[c] /\ inbox[c] = <<>> /\ inbox'[c] = Welcome(k)
  /\ inbox'[k] = inbox[Backlog(c)] /\ inbox'[Backlog(c)] = <<>>
  /\ \A e \in Ends : e \notin {c, k, Backlog(c)} => inbox'[e] = inbox[e]

(* A client connects.                                                      *)
LEMMA ConnectStarts ==
  ASSUME BaseInv, NEW c \in Clients, Connect(c)
  PROVE  Connects(c)
<1> DEFINE b == Backlog(c)
<1>1. c \in Sessions /\ b \in Ends /\ b # None /\ b \notin Sessions
  BY EndsAre
<1>2. ~ready[c] /\ Open(c, b, inbox) /\ peer' = [peer EXCEPT ![c] = b]
  BY DEF Connect
<1>3. /\ peer[c] = None /\ bound[c] = None /\ subscribed[c] = {} /\ ~rejected[c] /\ inbox[c] = <<>>
      /\ inbox[b] = <<>> /\ inbox \in [Ends -> Seq(Message)]
  BY <1>1, <1>2 DEF BaseInv, Joined, Idle, Waiting, Typed
<1> HIDE DEF b
<1>4. /\ ready' = [ready EXCEPT ![c] = TRUE] /\ bound' = [bound EXCEPT ![c] = Expected(c)] /\ Expects(c)
      /\ inbox' = [inbox EXCEPT ![b] = inbox[b] \o Welcome(c)]
      /\ UNCHANGED <<version, remote, registry, subscribed, rejected, notes, limits>>
  BY <1>2 DEF Open, Welcome, Expects
<1>5. Welcome(c) \in Seq(Message) /\ <<>> \o Welcome(c) = Welcome(c)
  BY <1>1, WelcomeSubscribes, ConcatEmptySeq DEF BaseInv, Typed
<1>6. inbox' = [inbox EXCEPT ![b] = Welcome(c)]
  BY <1>3, <1>4, <1>5
<1>7. /\ inbox' \in [Ends -> Seq(Message)] /\ inbox'[b] = Welcome(c)
      /\ \A e \in Ends : e # b => inbox'[e] = inbox[e]
  BY <1>1, <1>3, <1>5, <1>6
<1>8. Starts(c)
  BY <1>2, <1>3, <1>4, <1>7 DEF Starts
<1> QED
  BY <1>2, <1>3, <1>7, <1>8 DEF b, Connects

(* The server accepts it.                                                  *)
LEMMA AcceptStarts ==
  ASSUME BaseInv, NEW c \in Clients, NEW k \in Slots, Accept(k, c)
  PROVE  Accepts(k, c)
<1> DEFINE b == Backlog(c)
<1>1. /\ c \in Sessions /\ k \in Sessions /\ b \in Ends /\ b # None /\ b \notin Sessions /\ k # c
      /\ c \in Ends /\ k \in Ends
  BY EndsAre, Owners
<1>2. /\ peer[c] = b /\ ~ready[k] /\ peer' = [peer EXCEPT ![c] = k, ![k] = c]
      /\ Open(k, c, [inbox EXCEPT ![k] = inbox[b], ![b] = <<>>])
  BY DEF Accept
<1>3. /\ peer[k] = None /\ bound[k] = None /\ subscribed[k] = {} /\ ~rejected[k] /\ inbox[k] = <<>>
      /\ inbox[c] = <<>> /\ ready[c] /\ inbox \in [Ends -> Seq(Message)]
  BY <1>1, <1>2 DEF BaseInv, Joined, Idle, Waiting, Typed
<1> HIDE DEF b
<1> DEFINE box == [inbox EXCEPT ![k] = inbox[b], ![b] = <<>>]
<1>4. /\ ready' = [ready EXCEPT ![k] = TRUE] /\ bound' = [bound EXCEPT ![k] = Expected(k)] /\ Expects(k)
      /\ inbox' = [box EXCEPT ![c] = box[c] \o Welcome(k)]
      /\ UNCHANGED <<version, remote, registry, subscribed, rejected, notes, limits>>
  BY <1>2 DEF Open, Welcome, Expects
<1>5. Welcome(k) \in Seq(Message) /\ <<>> \o Welcome(k) = Welcome(k) /\ <<>> \in Seq(Message)
  BY <1>1, WelcomeSubscribes, ConcatEmptySeq, EmptySeq DEF BaseInv, Typed
<1>6. /\ box \in [Ends -> Seq(Message)] /\ box[c] = <<>> /\ box[k] = inbox[b] /\ box[b] = <<>>
      /\ \A e \in Ends : e \notin {k, b} => box[e] = inbox[e]
  BY <1>1, <1>3, <1>5
<1> HIDE DEF box
<1>7. inbox' = [box EXCEPT ![c] = Welcome(k)]
  BY <1>4, <1>5, <1>6
<1>8. /\ inbox' \in [Ends -> Seq(Message)] /\ inbox'[c] = Welcome(k)
      /\ inbox'[k] = inbox[b] /\ inbox'[b] = <<>>
      /\ \A e \in Ends : e \notin {c, k, b} => inbox'[e] = inbox[e]
  BY <1>1, <1>5, <1>6, <1>7
<1>9. Starts(k)
  BY <1>2, <1>3, <1>4, <1>8 DEF Starts
<1> QED
  BY <1>2, <1>3, <1>8, <1>9 DEF b, Accepts

(* A start keeps the types.                                                *)
LEMMA StartTyped ==
  ASSUME BaseInv, NEW s \in Sessions, Starts(s), peer' \in [Sessions -> Ends \cup {None}],
         \A x \in Sessions : peer'[x] # x
  PROVE  Typed' /\ ChangesSound'
<1>1. /\ UNCHANGED <<version, remote, registry, subscribed, rejected, notes, limits>>
      /\ ready' = [ready EXCEPT ![s] = TRUE] /\ bound' = [bound EXCEPT ![s] = Expected(s)] /\ Expects(s)
      /\ inbox' \in [Ends -> Seq(Message)]
  BY DEF Starts
<1>2. Dev(s) \in Devices /\ Expected(s) \in Devices \cup {None}
  BY Owners
<1>3. LinksTyped'
  BY <1>1, <1>2 DEF BaseInv, Typed, LinksTyped
<1>4. available' \in [Devices -> [Devices -> {"Unknown", "Connected", "Disconnected"}]]
  <2> DEFINE S == {"Unknown", "Connected", "Disconnected"}
             o == Expected(s)
  <2>1. "Connected" \in S /\ available \in [Devices -> [Devices -> S]]
    BY DEF BaseInv, Typed, StatesTyped
  <2>2. available' = IF o # None THEN [available EXCEPT ![Dev(s)][o] = "Connected"] ELSE available
    BY <1>1 DEF Expects
  <2>3. o # None => o \in Devices
    BY <1>2
  <2> HIDE DEF S, o
  <2>4. CASE o = None
    BY <2>1, <2>2, <2>4 DEF S
  <2>5. CASE o # None
    <3>1. [available EXCEPT ![Dev(s)][o] = "Connected"] \in [Devices -> [Devices -> S]]
      BY <1>2, <2>1, <2>3, <2>5, TableEntry
    <3> QED
      BY <2>2, <2>5, <3>1 DEF S
  <2> QED
    BY <2>4, <2>5
<1>5. StatesTyped' /\ NotesTyped' /\ LimitsTyped' /\ ChangesSound'
  BY <1>1, <1>4 DEF BaseInv, Typed, StatesTyped, NotesTyped, LimitsTyped, ChangesSound, notes, limits
<1> QED
  BY <1>1, <1>3, <1>5 DEF Typed

(* Moving messages keeps their versions published.                         *)
LEMMA MovedPublished ==
  ASSUME Published, UNCHANGED <<version, remote, publishing>>,
         \A e \in Ends : \A m \in At(e)' : m.kind = "Update" => \E x \in Ends : m \in At(x)
  PROVE  Published'
BY DEF Published

(* A connecting client keeps the invariant.                                *)
LEMMA ConnectKeeps ==
  ASSUME BaseInv, NEW c \in Clients, Connect(c)
  PROVE  BaseInv'
<1> DEFINE b == Backlog(c)
<1>1. /\ Starts(c) /\ peer' = [peer EXCEPT ![c] = b]
      /\ inbox[b] = <<>> /\ inbox'[b] = Welcome(c)
      /\ \A e \in Ends : e # b => inbox'[e] = inbox[e]
  BY ConnectStarts DEF Connects
<1>2. /\ ~ready[c] /\ peer[c] = None /\ bound[c] = None /\ subscribed[c] = {} /\ ~rejected[c]
      /\ inbox[c] = <<>>
      /\ UNCHANGED <<version, remote, publishing, subscribed, rejected>>
      /\ ready' = [ready EXCEPT ![c] = TRUE] /\ bound' = [bound EXCEPT ![c] = Expected(c)]
  BY <1>1 DEF Starts, notes
<1>3. /\ Idle /\ Paired /\ Waiting /\ Genuine /\ NoGoodbye /\ Typed /\ Published
      /\ Sessions \subseteq Ends /\ c \in Sessions /\ b \in Ends /\ b \notin Sessions /\ b # None
      /\ \A a \in Clients : Backlog(a) = b => a = c
  BY EndsAre DEF BaseInv, Joined, Ends
<1>4. /\ \A x \in Sessions : ready'[x] = IF x = c THEN TRUE ELSE ready[x]
      /\ \A x \in Sessions : bound'[x] = IF x = c THEN Expected(c) ELSE bound[x]
      /\ \A x \in Sessions : peer'[x] = IF x = c THEN b ELSE peer[x]
      /\ peer' \in [Sessions -> Ends \cup {None}]
  BY <1>1, <1>2, <1>3 DEF Typed, LinksTyped
<1>5. \A e \in Ends : e # b => At(e)' = At(e)
  BY <1>1 DEF At
<1>6. At(b)' = Said(Welcome(c))
  BY <1>1 DEF At, Said
<1>7. \A m \in Said(Welcome(c)) : m.kind = "Subscribe" /\ m.device = c
  BY <1>3, WelcomeSubscribes, Owners DEF Typed
<1> HIDE DEF b
<1>8. \A x \in Sessions : peer'[x] # x
  BY <1>3, <1>4 DEF Typed, LinksTyped
<1>9. Typed' /\ ChangesSound'
  BY <1>1, <1>3, <1>4, <1>8, StartTyped
<1>10. ASSUME NEW x \in Sessions, ~ready'[x]
       PROVE  peer'[x] = None /\ bound'[x] = None /\ subscribed'[x] = {} /\ ~rejected'[x] /\ inbox'[x] = <<>>
  <2>1. x # c /\ ~ready[x] /\ x \in Ends /\ x # b
    BY <1>3, <1>4, <1>10
  <2>2. peer[x] = None /\ bound[x] = None /\ subscribed[x] = {} /\ ~rejected[x] /\ inbox[x] = <<>>
    BY <1>3, <2>1 DEF Idle
  <2> QED
    BY <1>1, <1>2, <1>4, <2>1, <2>2
<1>11. \A s, x \in Sessions : peer'[s] = x => peer'[x] = s
  <2> TAKE s, x \in Sessions
  <2> HAVE peer'[s] = x
  <2>1. s # c /\ peer[s] = x
    BY <1>3, <1>4
  <2>2. peer[x] = s
    BY <1>3, <2>1 DEF Paired
  <2>3. x # c
    BY <1>2, <1>3, <2>2, EndsAre, Owners
  <2> QED
    BY <1>4, <2>2, <2>3
<1>12. Paired'
  <2>1. \A a \in Clients : peer'[a] \in Slots \cup {Backlog(a), None}
    BY <1>3, <1>4, EndsAre DEF Paired, b
  <2>2. \A k \in Slots : peer'[k] \in Clients \cup {None}
    BY <1>3, <1>4, EndsAre DEF Paired
  <2> QED
    BY <1>11, <2>1, <2>2 DEF Paired, Backlog
<1>13. ASSUME NEW a \in Clients
       PROVE  /\ peer'[a] = Backlog(a) => inbox'[a] = <<>> /\ ~rejected'[a] /\ subscribed'[a] = {}
              /\ peer'[a] # Backlog(a) => inbox'[Backlog(a)] = <<>>
  <2>1. a \in Sessions /\ a \in Ends /\ a # b /\ Backlog(a) \in Ends
    BY <1>3, EndsAre
  <2>2. CASE a = c
    BY <1>1, <1>2, <1>4, <2>1, <2>2 DEF b
  <2>3. CASE a # c
    BY <1>1, <1>2, <1>3, <1>4, <2>1, <2>3 DEF Waiting
  <2> QED
    BY <2>2, <2>3
<1>14. \A e \in Ends : \A o : e # b /\ Signed(e, o) => Signed(e, o)'
  BY <1>5 DEF Signed
<1>15. Signed(b, c)'
  BY <1>6, <1>7 DEF Signed
<1>16. Genuine'
  <2>1. ASSUME NEW a \in Clients
        PROVE  bound'[a] \in {None, Server} /\ Signed(a, Server)' /\ Signed(Backlog(a), a)'
    <3>1. a \in Sessions /\ a \in Ends /\ a # b /\ Backlog(a) \in Ends /\ Expected(c) \in {None, Server}
      BY <1>3, EndsAre DEF Expected
    <3>2. bound[a] \in {None, Server} /\ Signed(a, Server) /\ Signed(Backlog(a), a)
      BY <1>3 DEF Genuine
    <3>3. bound'[a] \in {None, Server}
      BY <1>4, <3>1, <3>2
    <3>4. Signed(a, Server)'
      BY <1>14, <3>1, <3>2
    <3> DEFINE y == Backlog(a)
    <3>5. y \in Ends /\ Signed(y, a) /\ (y = b => a = c)
      BY <1>3, <3>1, <3>2
    <3>6. Signed(y, a)'
      <4> HIDE DEF y
      <4>1. CASE y = b
        BY <1>15, <3>5, <4>1
      <4>2. CASE y # b
        BY <1>14, <3>5, <4>2
      <4> QED
        BY <4>1, <4>2
    <3> QED
      BY <3>3, <3>4, <3>6
  <2>2. ASSUME NEW k \in Slots, ready'[k]
        PROVE  \E a \in Clients : peer'[k] \in {None, a} /\ bound'[k] \in {None, a} /\ Signed(k, a)'
    <3>3. k \in Sessions /\ k \in Ends /\ k # b /\ k # c
      BY <1>3, EndsAre, Owners
    <3>1. k \in Sessions /\ k \in Ends /\ k # b /\ k # c /\ ready[k]
      BY <1>4, <2>2, <3>3
    <3>2. PICK a \in Clients : peer[k] \in {None, a} /\ bound[k] \in {None, a} /\ Signed(k, a)
      BY <1>3, <3>1 DEF Genuine
    <3> QED
      BY <1>4, <1>14, <3>1, <3>2
  <2> QED
    BY <2>1, <2>2 DEF Genuine, Backlog
<1>17. NoGoodbye'
  <2>1. ASSUME NEW x \in Sessions, peer'[x] # None PROVE \A m \in At(x)' : m.kind # "Disconnect"
    <3>1. At(x)' = At(x)
      BY <1>3, <1>5
    <3>2. x # c => peer[x] # None
      BY <1>4, <2>1
    <3>3. x = c => At(x) = {}
      BY <1>2 DEF At
    <3> QED
      BY <1>3, <3>1, <3>2, <3>3 DEF NoGoodbye
  <2>2. ASSUME NEW a \in Clients PROVE \A m \in At(Backlog(a))' : m.kind # "Disconnect"
    <3> DEFINE y == Backlog(a)
    <3>1. y \in Ends /\ \A m \in At(y) : m.kind # "Disconnect"
      BY <1>3, EndsAre DEF NoGoodbye
    <3>2. \A m \in At(y)' : m.kind # "Disconnect"
      <4> HIDE DEF y
      <4> QED BY <1>5, <1>6, <1>7, <3>1
    <3> QED
      BY <3>2
  <2> QED
    BY <2>1, <2>2 DEF NoGoodbye, Backlog
<1>18. Published'
  <2>1. \A e \in Ends : \A m \in At(e)' : m.kind = "Update" => \E x \in Ends : m \in At(x)
    BY <1>5, <1>6, <1>7
  <2> QED
    BY <1>2, <1>3, <2>1, MovedPublished
<1>19. Idle'
  BY <1>10 DEF Idle
<1>20. Waiting'
  BY <1>13, WaitingNext
<1> QED
  BY <1>9, <1>12, <1>16, <1>17, <1>18, <1>19, <1>20 DEF BaseInv, Joined

(* An accepted client does.                                                *)
LEMMA AcceptKeeps ==
  ASSUME BaseInv, NEW c \in Clients, NEW k \in Slots, Accept(k, c)
  PROVE  BaseInv'
<1> DEFINE b == Backlog(c)
<1>1. /\ Starts(k) /\ peer[c] = b /\ peer' = [peer EXCEPT ![c] = k, ![k] = c]
      /\ ready[c] /\ inbox[c] = <<>> /\ inbox'[c] = Welcome(k)
      /\ inbox'[k] = inbox[b] /\ inbox'[b] = <<>>
      /\ \A e \in Ends : e \notin {c, k, b} => inbox'[e] = inbox[e]
  BY AcceptStarts DEF Accepts
<1>2. /\ ~ready[k] /\ peer[k] = None /\ bound[k] = None /\ subscribed[k] = {} /\ ~rejected[k]
      /\ inbox[k] = <<>>
      /\ UNCHANGED <<version, remote, publishing, subscribed, rejected>>
      /\ ready' = [ready EXCEPT ![k] = TRUE] /\ bound' = [bound EXCEPT ![k] = Expected(k)]
  BY <1>1 DEF Starts, notes
<1>3. /\ Idle /\ Paired /\ Waiting /\ Genuine /\ NoGoodbye /\ Typed /\ Published
      /\ Sessions \subseteq Ends /\ c \in Sessions /\ k \in Sessions /\ c # k
      /\ b \in Ends /\ b \notin Sessions /\ b # None
      /\ \A a \in Clients : Backlog(a) = b => a = c
      /\ None \notin Sessions
  BY EndsAre, Owners DEF BaseInv, Joined, Ends
<1>4. /\ \A x \in Sessions : ready'[x] = IF x = k THEN TRUE ELSE ready[x]
      /\ \A x \in Sessions : bound'[x] = IF x = k THEN None ELSE bound[x]
      /\ \A x \in Sessions : peer'[x] = IF x = c THEN k ELSE IF x = k THEN c ELSE peer[x]
      /\ peer' \in [Sessions -> Ends \cup {None}]
  BY <1>1, <1>2, <1>3, Owners DEF Typed, LinksTyped
<1>5. \A e \in Ends : e \notin {c, k, b} => At(e)' = At(e)
  BY <1>1 DEF At
<1>6. At(c)' = Said(Welcome(k)) /\ At(k)' = At(b) /\ At(b)' = {}
  BY <1>1 DEF At, Said
<1>7. \A m \in Said(Welcome(k)) : m.kind = "Subscribe" /\ m.device = Server
  BY <1>3, WelcomeSubscribes, Owners DEF Typed
<1> HIDE DEF b
<1>8. \A x \in Sessions : peer'[x] # x
  BY <1>3, <1>4 DEF Typed, LinksTyped
<1>9. Typed' /\ ChangesSound'
  BY <1>1, <1>3, <1>4, <1>8, StartTyped
<1>10. ASSUME NEW x \in Sessions, ~ready'[x]
       PROVE  peer'[x] = None /\ bound'[x] = None /\ subscribed'[x] = {} /\ ~rejected'[x] /\ inbox'[x] = <<>>
  <2>1. x # c /\ x # k /\ ~ready[x] /\ x \in Ends /\ x # b
    BY <1>1, <1>3, <1>4, <1>10
  <2>2. peer[x] = None /\ bound[x] = None /\ subscribed[x] = {} /\ ~rejected[x] /\ inbox[x] = <<>>
    BY <1>3, <2>1 DEF Idle
  <2> QED
    BY <1>1, <1>2, <1>4, <2>1, <2>2
<1>11. \A s, x \in Sessions : peer'[s] = x => peer'[x] = s
  <2> TAKE s, x \in Sessions
  <2> HAVE peer'[s] = x
  <2>1. CASE s \in {c, k}
    BY <1>3, <1>4, <2>1
  <2>2. CASE s \notin {c, k}
    <3>1. peer[s] = x /\ peer[x] = s
      BY <1>3, <1>4, <2>2 DEF Paired
    <3>2. x # c /\ x # k
      BY <1>1, <1>2, <1>3, <3>1
    <3> QED
      BY <1>4, <3>1, <3>2
  <2> QED
    BY <2>1, <2>2
<1>12. Paired'
  <2>1. \A a \in Clients : peer'[a] \in Slots \cup {Backlog(a), None}
    BY <1>3, <1>4, EndsAre DEF Paired
  <2>2. \A x \in Slots : peer'[x] \in Clients \cup {None}
    BY <1>3, <1>4, EndsAre DEF Paired
  <2> QED
    BY <1>11, <2>1, <2>2 DEF Paired, Backlog
<1>13. ASSUME NEW a \in Clients
       PROVE  /\ peer'[a] = Backlog(a) => inbox'[a] = <<>> /\ ~rejected'[a] /\ subscribed'[a] = {}
              /\ peer'[a] # Backlog(a) => inbox'[Backlog(a)] = <<>>
  <2>1. /\ a \in Sessions /\ a \in Ends /\ a # b /\ a # k
        /\ Backlog(a) \in Ends /\ Backlog(a) # c /\ Backlog(a) # k
    BY <1>3, EndsAre
  <2>2. CASE a = c
    BY <1>1, <1>3, <1>4, <2>2 DEF b
  <2>3. CASE a # c
    BY <1>1, <1>2, <1>3, <1>4, <2>1, <2>3 DEF Waiting
  <2> QED
    BY <2>2, <2>3
<1>14. \A e \in Ends : \A o : e \notin {c, k, b} /\ Signed(e, o) => Signed(e, o)'
  BY <1>5 DEF Signed
<1>15. Signed(c, Server)' /\ Signed(b, c)' /\ Signed(k, c)'
  <2>1. Signed(b, c)
    BY <1>3 DEF Genuine, b
  <2> QED
    BY <1>6, <1>7, <2>1 DEF Signed
<1>16. Genuine'
  <2>1. ASSUME NEW a \in Clients
        PROVE  bound'[a] \in {None, Server} /\ Signed(a, Server)' /\ Signed(Backlog(a), a)'
    <3>1. /\ a \in Sessions /\ a \in Ends /\ a # b /\ a # k
          /\ Backlog(a) \in Ends /\ Backlog(a) # c /\ Backlog(a) # k
      BY <1>3, EndsAre
    <3>2. bound[a] \in {None, Server} /\ Signed(a, Server) /\ Signed(Backlog(a), a)
      BY <1>3 DEF Genuine
    <3>3. bound'[a] \in {None, Server}
      BY <1>4, <3>1, <3>2
    <3>4. Signed(a, Server)'
      <4>1. CASE a = c
        BY <1>15, <4>1
      <4>2. CASE a # c
        BY <1>14, <3>1, <3>2, <4>2
      <4> QED
        BY <4>1, <4>2
    <3> DEFINE y == Backlog(a)
    <3>5. y \in Ends /\ Signed(y, a) /\ (y = b => a = c) /\ y # c /\ y # k
      BY <1>3, <3>1, <3>2
    <3>6. Signed(y, a)'
      <4> HIDE DEF y
      <4>1. CASE y = b
        BY <1>15, <3>5, <4>1
      <4>2. CASE y # b
        BY <1>14, <3>5, <4>2
      <4> QED
        BY <4>1, <4>2
    <3> QED
      BY <3>3, <3>4, <3>6
  <2>2. ASSUME NEW l \in Slots, ready'[l]
        PROVE  \E a \in Clients : peer'[l] \in {None, a} /\ bound'[l] \in {None, a} /\ Signed(l, a)'
    <3>1. l \in Sessions /\ l \in Ends /\ l # b /\ l # c
      BY <1>3, EndsAre, Owners
    <3>3. CASE l = k
      BY <1>4, <1>15, <3>1, <3>3
    <3>4. CASE l # k
      <4>1. ready[l]
        BY <1>4, <2>2, <3>1, <3>4
      <4>2. PICK a \in Clients : peer[l] \in {None, a} /\ bound[l] \in {None, a} /\ Signed(l, a)
        BY <1>3, <4>1 DEF Genuine
      <4> QED
        BY <1>4, <1>14, <3>1, <3>4, <4>2
    <3> QED
      BY <3>3, <3>4
  <2> QED
    BY <2>1, <2>2 DEF Genuine, Backlog
<1>17. \A m \in At(b) : m.kind # "Disconnect"
  BY <1>3 DEF NoGoodbye, b
<1>18. NoGoodbye'
  <2>1. ASSUME NEW x \in Sessions, peer'[x] # None PROVE \A m \in At(x)' : m.kind # "Disconnect"
    <3>1. CASE x = c
      BY <1>6, <1>7, <3>1
    <3>2. CASE x = k
      BY <1>6, <1>17, <3>2
    <3>3. CASE x # c /\ x # k
      <4>1. peer[x] # None /\ At(x)' = At(x)
        BY <1>3, <1>4, <1>5, <2>1, <3>3
      <4> QED
        BY <1>3, <4>1 DEF NoGoodbye
    <3> QED
      BY <3>1, <3>2, <3>3
  <2>2. ASSUME NEW a \in Clients PROVE \A m \in At(Backlog(a))' : m.kind # "Disconnect"
    <3> DEFINE y == Backlog(a)
    <3>1. y \in Ends /\ y # c /\ y # k /\ \A m \in At(y) : m.kind # "Disconnect"
      BY <1>3, EndsAre DEF NoGoodbye
    <3>2. \A m \in At(y)' : m.kind # "Disconnect"
      <4> HIDE DEF y
      <4> QED BY <1>5, <1>6, <3>1
    <3> QED
      BY <3>2
  <2> QED
    BY <2>1, <2>2 DEF NoGoodbye, Backlog
<1>19. Published'
  <2>1. \A e \in Ends : \A m \in At(e)' : m.kind = "Update" => \E x \in Ends : m \in At(x)
    BY <1>3, <1>5, <1>6, <1>7
  <2> QED
    BY <1>2, <1>3, <2>1, MovedPublished
<1>20. Idle'
  BY <1>10 DEF Idle
<1>21. Waiting'
  BY <1>13, WaitingNext
<1> QED
  BY <1>9, <1>12, <1>16, <1>18, <1>19, <1>20, <1>21 DEF BaseInv, Joined

\* A first part of a list.
FirstPartOf(part, list) ==
  Len(part) =< Len(list) /\ \A i \in 1..Len(part) : part[i] = list[i]

(* First parts.                                                            *)
LEMMA FirstParts ==
  ASSUME NEW q \in Seq(Message)
  PROVE  /\ FirstPartOf(q, q) /\ FirstPartOf(<<>>, q)
         /\ \A i \in 0..Len(q) : SubSeq(q, 1, i) \in Seq(Message) /\ FirstPartOf(SubSeq(q, 1, i), q)
         /\ \A part \in Seq(Message) : FirstPartOf(part, q) => Said(part) \subseteq Said(q)
<1>1. Len(q) \in Nat /\ DOMAIN q = 1..Len(q) /\ \A i \in 1..Len(q) : q[i] \in Message
  BY ElementOfSeq, LenProperties
<1>2. ASSUME NEW i \in 0..Len(q)
      PROVE  SubSeq(q, 1, i) \in Seq(Message) /\ FirstPartOf(SubSeq(q, 1, i), q)
  <2>1. i \in Int /\ 1 \in Int /\ \A n \in 1..i : q[n] \in Message
    BY <1>1
  <2>2. /\ SubSeq(q, 1, i) \in Seq(Message)
        /\ Len(SubSeq(q, 1, i)) = IF 1 =< i THEN i - 1 + 1 ELSE 0
        /\ \A n \in 1..(i - 1 + 1) : SubSeq(q, 1, i)[n] = q[1 + n - 1]
    BY <2>1, SubSeqProperties
  <2> DEFINE part == SubSeq(q, 1, i)
  <2>3. part \in Seq(Message) /\ Len(part) = i /\ \A n \in 1..i : part[n] = q[n]
    BY <2>1, <2>2
  <2> HIDE DEF part
  <2>4. FirstPartOf(part, q)
    BY <1>1, <2>3 DEF FirstPartOf
  <2> QED
    BY <2>2, <2>4 DEF part
<1>3. ASSUME NEW part \in Seq(Message), FirstPartOf(part, q) PROVE Said(part) \subseteq Said(q)
  <2>1. Len(part) \in Nat /\ DOMAIN part = 1..Len(part)
    BY LenProperties
  <2> QED
    BY <1>1, <1>3, <2>1 DEF Said, FirstPartOf
<1>4. FirstPartOf(q, q) /\ FirstPartOf(<<>>, q)
  BY <1>1 DEF FirstPartOf
<1> QED
  BY <1>2, <1>3, <1>4

\* The connection of client c is lost, with all but a first part of what was on its way.
Severs(c) ==
  /\ peer[c] # None /\ peer' \in [Sessions -> Ends \cup {None}]
  /\ \A x \in Sessions : peer'[x] = IF x = c \/ x = peer[c] THEN None ELSE peer[x]
  /\ inbox' \in [Ends -> Seq(Message)] /\ inbox'[Backlog(c)] = <<>>
  /\ \A e \in Ends : /\ FirstPartOf(inbox'[e], inbox[e]) /\ At(e)' \subseteq At(e)
                     /\ e \notin {c, peer[c], Backlog(c)} => inbox'[e] = inbox[e]
  /\ UNCHANGED <<core, ready, bound, subscribed, rejected, notes, changes, resyncs>>
  /\ drops' \in 0..MaxDrops

(* A refused connection is.                                                *)
LEMMA RefuseSevers ==
  ASSUME BaseInv, NEW c \in Clients, Refuse(c)
  PROVE  Severs(c)
<1> DEFINE b == Backlog(c)
<1>1. /\ peer[c] = b /\ peer' = [peer EXCEPT ![c] = None] /\ inbox' = [inbox EXCEPT ![b] = <<>>]
      /\ UNCHANGED <<core, ready, bound, subscribed, rejected, notes, limits>>
  BY DEF Refuse
<1>2. c \in Sessions /\ b \in Ends /\ b \notin Sessions /\ b # None
  BY EndsAre
<1>3. inbox \in [Ends -> Seq(Message)] /\ <<>> \in Seq(Message) /\ peer \in [Sessions -> Ends \cup {None}]
  BY EmptySeq DEF BaseInv, Typed, LinksTyped
<1> HIDE DEF b
<1>4. /\ inbox' \in [Ends -> Seq(Message)] /\ inbox'[b] = <<>>
      /\ \A e \in Ends : e # b => inbox'[e] = inbox[e]
  BY <1>1, <1>2, <1>3
<1>5. /\ peer' \in [Sessions -> Ends \cup {None}]
      /\ \A x \in Sessions : peer'[x] = IF x = c \/ x = peer[c] THEN None ELSE peer[x]
  BY <1>1, <1>2, <1>3
<1>6. ASSUME NEW e \in Ends PROVE FirstPartOf(inbox'[e], inbox[e]) /\ At(e)' \subseteq At(e)
  <2> DEFINE q == inbox[e]
             part == inbox'[e]
  <2>1. q \in Seq(Message) /\ part \in {q, <<>>} /\ part \in Seq(Message)
    BY <1>3, <1>4
  <2>2. At(e) = Said(q) /\ At(e)' = Said(part)
    BY DEF At, Said
  <2> HIDE DEF q, part
  <2>3. FirstPartOf(part, q) /\ Said(part) \subseteq Said(q)
    BY <2>1, FirstParts
  <2> QED
    BY <2>2, <2>3 DEF q, part
<1>7. drops' \in 0..MaxDrops /\ UNCHANGED <<changes, resyncs>>
  BY <1>1 DEF BaseInv, Typed, LimitsTyped, limits
<1> QED
  BY <1>1, <1>2, <1>4, <1>5, <1>6, <1>7 DEF Severs, b

(* So is a dropped one.                                                    *)
LEMMA DropSevers ==
  ASSUME BaseInv, NEW c \in Clients, Drop(c)
  PROVE  Severs(c)
<1> DEFINE k == peer[c]
           b == Backlog(c)
           FirstPart(e) == 0..(IF e \in Sessions THEN Len(inbox[e]) ELSE 0)
<1>1. /\ drops < MaxDrops /\ k # None /\ drops' = drops + 1
      /\ peer' = [s \in Sessions |-> IF s = c \/ s = k THEN None ELSE peer[s]]
      /\ UNCHANGED <<core, ready, bound, subscribed, rejected, notes, changes, resyncs>>
  BY DEF Drop
<1>2. PICK i \in FirstPart(c), j \in FirstPart(k) :
        inbox' = [inbox EXCEPT ![c] = SubSeq(@, 1, i), ![k] = SubSeq(@, 1, j)]
  BY DEF Drop
<1>3. /\ c \in Sessions /\ c \in Ends /\ b \in Ends /\ b \notin Sessions /\ b # None
      /\ k \in Ends /\ k # c /\ k \in Slots \cup {b}
      /\ k \notin Sessions => k = b
  BY <1>1, EndsAre, Opposite DEF BaseInv, Joined, Paired
<1>4. /\ inbox \in [Ends -> Seq(Message)] /\ <<>> \in Seq(Message)
      /\ peer \in [Sessions -> Ends \cup {None}]
  BY EmptySeq DEF BaseInv, Typed, LinksTyped
<1>5. k # b => inbox[b] = <<>>
  BY DEF BaseInv, Joined, Waiting
<1> DEFINE q == SubSeq(inbox[c], 1, i)
           r == SubSeq(inbox[k], 1, j)
<1>6. i \in 0..Len(inbox[c]) /\ j \in 0..Len(inbox[k]) /\ (k \notin Sessions => j = 0)
  <2>1. Len(inbox[c]) \in Nat /\ Len(inbox[k]) \in Nat
    BY <1>3, <1>4, LenProperties
  <2> QED
    BY <1>3, <2>1
<1>7. q \in Seq(Message) /\ r \in Seq(Message) /\ FirstPartOf(q, inbox[c]) /\ FirstPartOf(r, inbox[k])
  <2> DEFINE y == inbox[c]
             z == inbox[k]
  <2>1. y \in Seq(Message) /\ z \in Seq(Message) /\ i \in 0..Len(y) /\ j \in 0..Len(z)
    BY <1>3, <1>4, <1>6
  <2>2. q = SubSeq(y, 1, i) /\ r = SubSeq(z, 1, j)
    OBVIOUS
  <2> HIDE DEF y, z, q, r
  <2>3. q \in Seq(Message) /\ r \in Seq(Message) /\ FirstPartOf(q, y) /\ FirstPartOf(r, z)
    BY <2>1, <2>2, FirstParts
  <2> QED
    BY <2>3 DEF y, z
<1>8. k \notin Sessions => r = <<>>
  BY <1>6, SubSeqEmpty
<1>9. inbox' = [inbox EXCEPT ![c] = q, ![k] = r]
  BY <1>2, <1>3
<1> HIDE DEF q, r, k, b
<1>10. /\ inbox' \in [Ends -> Seq(Message)] /\ inbox'[c] = q /\ inbox'[k] = r
       /\ \A e \in Ends : e \notin {c, k} => inbox'[e] = inbox[e]
  BY <1>3, <1>4, <1>7, <1>9
<1>11. inbox'[b] = <<>>
  BY <1>3, <1>5, <1>8, <1>10
<1>12. ASSUME NEW e \in Ends PROVE FirstPartOf(inbox'[e], inbox[e]) /\ At(e)' \subseteq At(e)
  <2> DEFINE y == inbox[e]
             part == inbox'[e]
  <2>1. y \in Seq(Message) /\ part \in Seq(Message) /\ (part = y \/ FirstPartOf(part, y))
    BY <1>3, <1>4, <1>7, <1>10
  <2>2. At(e) = Said(y) /\ At(e)' = Said(part)
    BY DEF At, Said
  <2> HIDE DEF y, part
  <2>3. FirstPartOf(part, y) /\ Said(part) \subseteq Said(y)
    BY <2>1, FirstParts
  <2> QED
    BY <2>2, <2>3 DEF y, part
<1>13. drops' \in 0..MaxDrops
  BY <1>1, SessionAssumption DEF BaseInv, Typed, LimitsTyped
<1>14. /\ peer' \in [Sessions -> Ends \cup {None}]
       /\ \A x \in Sessions : peer'[x] = IF x = c \/ x = k THEN None ELSE peer[x]
  BY <1>1, <1>4
<1>15. k = peer[c] /\ b = Backlog(c)
  BY DEF k, b
<1> QED
  BY <1>1, <1>10, <1>11, <1>12, <1>13, <1>14, <1>15 DEF Severs


(* The loss of a connection keeps the invariant.                           *)
LEMMA SeversKeeps ==
  ASSUME BaseInv, NEW c \in Clients, Severs(c)
  PROVE  BaseInv'
<1>1. /\ peer[c] # None /\ peer' \in [Sessions -> Ends \cup {None}]
      /\ \A x \in Sessions : peer'[x] = IF x = c \/ x = peer[c] THEN None ELSE peer[x]
      /\ inbox' \in [Ends -> Seq(Message)] /\ inbox'[Backlog(c)] = <<>>
      /\ \A e \in Ends : At(e)' \subseteq At(e)
      /\ \A e \in Ends : FirstPartOf(inbox'[e], inbox[e])
      /\ UNCHANGED <<version, remote, available, registry, ready, bound, subscribed, rejected,
                     publishing, changing, changes, resyncs>>
      /\ drops' \in 0..MaxDrops
  BY DEF Severs, core, notes
<1>2. /\ Idle /\ Paired /\ Waiting /\ Genuine /\ NoGoodbye /\ Typed /\ Published /\ ChangesSound
      /\ Sessions \subseteq Ends /\ c \in Sessions /\ None \notin Sessions
  BY EndsAre, Owners DEF BaseInv, Joined, Ends
<1>3. Typed' /\ ChangesSound'
  BY <1>1, <1>2 DEF Typed, StatesTyped, LinksTyped, NotesTyped, LimitsTyped, ChangesSound
<1>4. \A e \in Ends : inbox[e] = <<>> => inbox'[e] = <<>>
  <2> TAKE e \in Ends
  <2> HAVE inbox[e] = <<>>
  <2> DEFINE part == inbox'[e]
  <2>1. part \in Seq(Message) /\ FirstPartOf(part, <<>>)
    BY <1>1
  <2> HIDE DEF part
  <2>2. Len(part) = 0
    BY <2>1, LenProperties DEF FirstPartOf
  <2>3. part = <<>>
    BY <2>1, <2>2, EmptySeq
  <2> QED
    BY <2>3 DEF part
<1>5. ASSUME NEW x \in Sessions, ~ready'[x]
      PROVE  peer'[x] = None /\ bound'[x] = None /\ subscribed'[x] = {} /\ ~rejected'[x] /\ inbox'[x] = <<>>
  <2>1. peer[x] = None /\ bound[x] = None /\ subscribed[x] = {} /\ ~rejected[x] /\ inbox[x] = <<>>
    BY <1>1, <1>2, <1>5 DEF Idle
  <2> QED
    BY <1>1, <1>2, <1>4, <2>1
<1>6. \A x \in Sessions : peer'[x] \in {None, peer[x]}
  BY <1>1
<1>7. \A s, x \in Sessions : peer'[s] = x => peer'[x] = s
  <2> TAKE s, x \in Sessions
  <2> HAVE peer'[s] = x
  <2>1. s # c /\ s # peer[c] /\ peer[s] = x
    BY <1>1, <1>2
  <2>2. peer[x] = s
    BY <1>2, <2>1 DEF Paired
  <2>3. x # c /\ x # peer[c]
    BY <1>2, <2>1, <2>2 DEF Paired
  <2> QED
    BY <1>1, <2>2, <2>3
<1>8. Paired'
  <2>1. \A a \in Clients : peer'[a] \in Slots \cup {Backlog(a), None}
    BY <1>2, <1>6, EndsAre DEF Paired
  <2>2. \A k \in Slots : peer'[k] \in Clients \cup {None}
    BY <1>2, <1>6, EndsAre DEF Paired
  <2> QED
    BY <1>7, <2>1, <2>2 DEF Paired, Backlog
<1>9. ASSUME NEW a \in Clients
      PROVE  /\ peer'[a] = Backlog(a) => inbox'[a] = <<>> /\ ~rejected'[a] /\ subscribed'[a] = {}
             /\ peer'[a] # Backlog(a) => inbox'[Backlog(a)] = <<>>
  <2>1. a \in Sessions /\ a \in Ends /\ Backlog(a) \in Ends /\ Backlog(a) # None
    BY <1>2, EndsAre
  <2>2. peer'[a] = Backlog(a) => inbox'[a] = <<>> /\ ~rejected'[a] /\ subscribed'[a] = {}
    BY <1>1, <1>2, <1>4, <1>6, <2>1 DEF Waiting
  <2>3. peer'[a] # Backlog(a) => inbox'[Backlog(a)] = <<>>
    <3>1. CASE a = c
      BY <1>1, <3>1
    <3>2. CASE a # c
      <4>1. a # peer[c]
        BY <1>2, EndsAre DEF Paired
      <4>2. peer'[a] = peer[a]
        BY <1>1, <2>1, <3>2, <4>1
      <4> QED
        BY <1>2, <1>4, <2>1, <4>2 DEF Waiting
    <3> QED
      BY <3>1, <3>2
  <2> QED
    BY <2>2, <2>3
<1>10. \A e \in Ends : \A o : Signed(e, o) => Signed(e, o)'
  BY <1>1 DEF Signed
<1>11. Genuine'
  <2>1. ASSUME NEW a \in Clients
        PROVE  bound'[a] \in {None, Server} /\ Signed(a, Server)' /\ Signed(Backlog(a), a)'
    <3>1. a \in Sessions /\ a \in Ends /\ Backlog(a) \in Ends
      BY <1>2, EndsAre
    <3>2. bound[a] \in {None, Server} /\ Signed(a, Server) /\ Signed(Backlog(a), a)
      BY <1>2 DEF Genuine
    <3>3. Signed(a, Server)'
      BY <1>10, <3>1, <3>2
    <3> DEFINE y == Backlog(a)
    <3>4. y \in Ends /\ Signed(y, a)
      BY <3>1, <3>2
    <3>5. Signed(y, a)'
      <4> HIDE DEF y
      <4> QED BY <1>10, <3>4
    <3> QED
      BY <1>1, <3>2, <3>3, <3>5
  <2>2. ASSUME NEW k \in Slots, ready'[k]
        PROVE  \E a \in Clients : peer'[k] \in {None, a} /\ bound'[k] \in {None, a} /\ Signed(k, a)'
    <3>1. k \in Sessions /\ k \in Ends
      BY <1>2, EndsAre
    <3>2. PICK a \in Clients : peer[k] \in {None, a} /\ bound[k] \in {None, a} /\ Signed(k, a)
      BY <1>1, <1>2, <2>2 DEF Genuine
    <3>3. Signed(k, a)'
      BY <1>10, <3>1, <3>2
    <3> QED
      BY <1>1, <1>6, <3>1, <3>2, <3>3
  <2> QED
    BY <2>1, <2>2 DEF Genuine, Backlog
<1>12. NoGoodbye'
  <2>1. ASSUME NEW x \in Sessions, peer'[x] # None PROVE \A m \in At(x)' : m.kind # "Disconnect"
    <3>1. peer[x] # None /\ At(x)' \subseteq At(x)
      BY <1>1, <1>2, <1>6, <2>1
    <3> QED
      BY <1>2, <3>1 DEF NoGoodbye
  <2>2. ASSUME NEW a \in Clients PROVE \A m \in At(Backlog(a))' : m.kind # "Disconnect"
    <3> DEFINE y == Backlog(a)
    <3>1. y \in Ends /\ \A m \in At(y) : m.kind # "Disconnect"
      BY <1>2, EndsAre DEF NoGoodbye
    <3>2. \A m \in At(y)' : m.kind # "Disconnect"
      <4> HIDE DEF y
      <4> QED BY <1>1, <3>1
    <3> QED
      BY <3>2
  <2> QED
    BY <2>1, <2>2 DEF NoGoodbye, Backlog
<1>13. Published'
  <2>1. \A e \in Ends : \A m \in At(e)' : m.kind = "Update" => \E x \in Ends : m \in At(x)
    BY <1>1
  <2> QED
    BY <1>1, <1>2, <2>1, MovedPublished
<1>14. Idle'
  BY <1>5 DEF Idle
<1>15. Waiting'
  BY <1>9, WaitingNext
<1> QED
  BY <1>3, <1>8, <1>11, <1>12, <1>13, <1>14, <1>15 DEF BaseInv, Joined

-----------------------------------------------------------------------------
(* What applications do.                                                   *)

(* The sessions of a device.                                               *)
LEMMA SessionsOfDevice ==
  ASSUME NEW d \in Devices
  PROVE  SessionsOf(d) \in SUBSET Sessions /\ \A s \in SessionsOf(d) : Dev(s) = d /\ ready[s]
BY DEF SessionsOf

\* A publication makes a newer version, and a notification of it.
Publishes(d, t) ==
  /\ version[d][t] < MaxVersion /\ version[d][t] + 1 \in 1..MaxVersion
  /\ Cardinality({p \in publishing : p.device = d}) < Threads
  /\ version' = [version EXCEPT ![d][t] = @ + 1]
  /\ version' \in [Devices -> [Types -> 1..MaxVersion]]
  /\ \A o \in Devices, z \in Types :
       version'[o][z] = IF o = d /\ z = t THEN version[d][t] + 1 ELSE version[o][z]
  /\ \A p \in publishing' : \/ p \in publishing
                            \/ /\ p \in Publication /\ p.device = d /\ p.type = t
                               /\ p.version = version[d][t] + 1 /\ p.todo = SessionsOf(d)
  /\ publishing \subseteq publishing'
  /\ SessionsOf(d) # {} => \E p \in publishing' : /\ p.device = d /\ p.type = t /\ p.todo = SessionsOf(d)
                                                  /\ p.version = version[d][t] + 1
  /\ UNCHANGED <<remote, available, registry, links, changing, limits>>

(* What a publication changes.                                             *)
LEMMA PublishChanges ==
  ASSUME BaseInv, NEW d \in Devices, NEW t \in Types, Publish(d, t)
  PROVE  Publishes(d, t)
<1> DEFINE v == version[d][t] + 1
           new == [device |-> d, type |-> t, version |-> v, todo |-> SessionsOf(d)]
           N == 1..MaxVersion
<1>1. /\ version[d][t] < MaxVersion /\ version' = [version EXCEPT ![d][t] = @ + 1]
      /\ Cardinality({p \in publishing : p.device = d}) < Threads
      /\ publishing' = IF SessionsOf(d) = {} THEN publishing ELSE publishing \cup {new}
      /\ UNCHANGED <<remote, available, registry, links, changing, limits>>
  BY DEF Publish
<1>2. version \in [Devices -> [Types -> N]] /\ version[d][t] \in 1..MaxVersion /\ MaxVersion \in Nat
  BY SessionAssumption DEF BaseInv, Typed, StatesTyped
<1>3. v \in N
  BY <1>1, <1>2
<1>4. version' = [version EXCEPT ![d][t] = v]
  BY <1>1
<1>5. SessionsOf(d) \in SUBSET Sessions
  BY SessionsOfDevice
<1>6. new \in Publication
  BY <1>3, <1>5 DEF Publication
<1>7. new.device = d /\ new.type = t /\ new.version = v /\ new.todo = SessionsOf(d)
  OBVIOUS
<1> HIDE DEF N, v, new
<1>8. /\ version' \in [Devices -> [Types -> N]]
      /\ \A o \in Devices, z \in Types : version'[o][z] = IF o = d /\ z = t THEN v ELSE version[o][z]
  BY <1>2, <1>3, <1>4, TableEntry
<1>9. /\ \A p \in publishing' : p \in publishing \/ p = new
      /\ publishing \subseteq publishing' /\ (SessionsOf(d) # {} => new \in publishing')
  BY <1>1
<1> QED
  BY <1>1, <1>3, <1>6, <1>7, <1>8, <1>9 DEF N, v, Publishes

(* A publication keeps the invariant.                                      *)
LEMMA PublishKeeps ==
  ASSUME BaseInv, NEW d \in Devices, NEW t \in Types, Publish(d, t)
  PROVE  BaseInv'
<1>1. /\ version' \in [Devices -> [Types -> 1..MaxVersion]]
      /\ \A o \in Devices, z \in Types :
           version'[o][z] = IF o = d /\ z = t THEN version[d][t] + 1 ELSE version[o][z]
      /\ \A p \in publishing' : \/ p \in publishing
                                \/ /\ p \in Publication /\ p.device = d /\ p.type = t
                                   /\ p.version = version[d][t] + 1 /\ p.todo = SessionsOf(d)
      /\ UNCHANGED <<remote, available, registry, ready, bound, subscribed, peer, inbox, rejected,
                     changing, changes, resyncs, drops>>
  <2>1. Publishes(d, t)
    BY PublishChanges
  <2> QED
    BY <2>1 DEF Publishes, links, limits
<1>2. Typed' /\ ChangesSound'
  BY <1>1 DEF BaseInv, Typed, StatesTyped, LinksTyped, NotesTyped, LimitsTyped, ChangesSound
<1>3. Joined'
  BY <1>1 DEF BaseInv, Joined, Idle, Paired, Waiting, Genuine, NoGoodbye, Signed, At, Backlog
<1>4. \A o \in Devices, z \in Types : version[o][z] =< version'[o][z] /\ version[o][z] \in Nat /\ version'[o][z] \in Nat
  <2> TAKE o \in Devices, z \in Types
  <2> DEFINE v == version[o][z]
             w == version'[o][z]
             a == version[d][t]
  <2>1. version \in [Devices -> [Types -> 1..MaxVersion]] /\ version' \in [Devices -> [Types -> 1..MaxVersion]]
    BY <1>1 DEF BaseInv, Typed, StatesTyped
  <2>2. v \in 1..MaxVersion /\ w \in 1..MaxVersion
    BY <2>1
  <2>3. w = v \/ (v = a /\ w = a + 1)
    BY <1>1
  <2> HIDE DEF v, w, a
  <2>4. v =< w /\ v \in Nat /\ w \in Nat
    BY <2>2, <2>3
  <2> QED
    BY <2>4 DEF v, w
<1>5. \A e \in Ends : \A m \in At(e)' : m.kind = "Update" => m.version =< version'[m.device][m.type]
  <2> SUFFICES ASSUME NEW e \in Ends, NEW m \in At(e), m.kind = "Update"
               PROVE  m.version =< version'[m.device][m.type]
    BY <1>1 DEF At
  <2>1. m \in Message
    BY ElementOfSeq, LenProperties DEF At, BaseInv, Typed
  <2>2. m.device \in Devices /\ m.type \in Types /\ m.version \in Nat
    BY <2>1, MessageFields
  <2>3. m.version =< version[m.device][m.type]
    BY DEF BaseInv, Published
  <2> QED
    BY <1>4, <2>2, <2>3
<1>6. ASSUME NEW p \in publishing' PROVE p.version =< version'[p.device][p.type] /\ \A s \in p.todo : Dev(s) = p.device
  <2>1. CASE p \in publishing
    <3>1. p.device \in Devices /\ p.type \in Types /\ p.version \in Nat
      BY <2>1 DEF BaseInv, Typed, NotesTyped, Publication
    <3> QED
      BY <1>4, <2>1, <3>1 DEF BaseInv, Published
  <2>2. CASE p \notin publishing
    <3>1. p.version = version'[p.device][p.type] /\ p.device \in Devices /\ p.type \in Types
      BY <1>1, <2>2
    <3> QED
      BY <1>1, <1>4, <2>2, <3>1, SessionsOfDevice
  <2> QED
    BY <2>1, <2>2
<1>7. \A x, o \in Devices : \A z \in Types : remote'[x][o][z] =< version'[o][z]
  <2> TAKE x, o \in Devices
  <2> TAKE z \in Types
  <2>1. remote[x][o][z] =< version[o][z] /\ remote[x][o][z] \in Nat
    BY DEF BaseInv, Published, Typed, StatesTyped
  <2> QED
    BY <1>1, <1>4, <2>1
<1>8. Published'
  BY <1>5, <1>6, <1>7 DEF Published
<1> QED
  BY <1>2, <1>3, <1>8 DEF BaseInv


\* A change of the registry of d, of which its sessions are to be notified.
Changes(d, op, x) ==
  /\ x \in Scopes \X Types /\ x = <<x[1], x[2]>> /\ x[1] # d
  /\ op \in {"Subscribe", "Unsubscribe"} /\ (op = "Unsubscribe" => Unsubscribes)
  /\ changing[d] = {} /\ (op = "Subscribe" <=> x \notin registry[d])
  /\ registry' = [registry EXCEPT ![d] = IF op = "Subscribe" THEN @ \cup {x} ELSE @ \ {x}]
  /\ \A o \in Devices : registry'[o] = IF o # d THEN registry[o]
                                       ELSE IF op = "Subscribe" THEN registry[d] \cup {x}
                                       ELSE registry[d] \ {x}
  /\ changing' \in [Devices -> SUBSET Change]
  /\ \A o \in Devices \ {d} : changing'[o] = changing[o]
  /\ SessionsOf(d) = {} => changing'[d] = {}
  /\ SessionsOf(d) # {} => \E n \in changing'[d] :
                             /\ changing'[d] = {n} /\ n.op = op /\ n.scope = x[1] /\ n.type = x[2]
                             /\ n.todo = SessionsOf(d)
  /\ UNCHANGED <<version, remote, available, links, publishing, resyncs, drops>>

(* What a change of a registry changes.                                    *)
LEMMA RegistryChanges ==
  ASSUME Typed, NEW d \in Devices, NEW op \in {"Subscribe", "Unsubscribe"},
         NEW x \in Scopes \X Types, ChangeRegistry(d, op, x)
  PROVE  Changes(d, op, x)
<1> DEFINE new == [op |-> op, scope |-> x[1], type |-> x[2], todo |-> SessionsOf(d)]
<1>1. /\ x = <<x[1], x[2]>> /\ x[1] \in Scopes /\ x[2] \in Types /\ x[1] # d
      /\ op = "Unsubscribe" => Unsubscribes
      /\ changing[d] = {} /\ (op = "Subscribe" <=> x \notin registry[d])
      /\ UNCHANGED <<version, remote, available, links, publishing, resyncs, drops>>
  BY DEF ChangeRegistry
<1>2. /\ registry' = [registry EXCEPT ![d] = IF op = "Subscribe" THEN @ \cup {x} ELSE @ \ {x}]
      /\ changing' = [changing EXCEPT ![d] = IF SessionsOf(d) = {} THEN {} ELSE {new}]
  BY DEF ChangeRegistry
<1>3. registry \in [Devices -> SUBSET (Scopes \X Types)] /\ changing \in [Devices -> SUBSET Change]
  BY DEF Typed, StatesTyped, NotesTyped
<1>4. new \in Change /\ new.op = op /\ new.scope = x[1] /\ new.type = x[2] /\ new.todo = SessionsOf(d)
  BY <1>1, SessionsOfDevice DEF Change
<1> HIDE DEF new
<1>5. \A o \in Devices : registry'[o] = IF o # d THEN registry[o]
                                        ELSE IF op = "Subscribe" THEN registry[d] \cup {x}
                                        ELSE registry[d] \ {x}
  BY <1>2, <1>3
<1>6. /\ changing' \in [Devices -> SUBSET Change]
      /\ changing'[d] = IF SessionsOf(d) = {} THEN {} ELSE {new}
      /\ \A o \in Devices \ {d} : changing'[o] = changing[o]
  BY <1>2, <1>3, <1>4
<1>7. SessionsOf(d) # {} => \E n \in changing'[d] :
                              /\ changing'[d] = {n} /\ n.op = op /\ n.scope = x[1] /\ n.type = x[2]
                              /\ n.todo = SessionsOf(d)
  BY <1>4, <1>6
<1> QED
  BY <1>1, <1>2, <1>5, <1>6, <1>7 DEF Changes

(* A change of a registry keeps the invariant.                             *)
LEMMA RegistryKeeps ==
  ASSUME BaseInv, NEW d \in Devices, NEW op \in {"Subscribe", "Unsubscribe"},
         NEW x \in Scopes \X Types, ChangeRegistry(d, op, x)
  PROVE  BaseInv'
<1>1. Changes(d, op, x)
  BY RegistryChanges DEF BaseInv
<1>2. /\ x = <<x[1], x[2]>> /\ x[1] # d /\ (op = "Unsubscribe" => Unsubscribes)
      /\ op \in {"Subscribe", "Unsubscribe"} /\ (op = "Subscribe" <=> x \notin registry[d])
      /\ \A o \in Devices : registry'[o] = IF o # d THEN registry[o]
                                           ELSE IF op = "Subscribe" THEN registry[d] \cup {x}
                                           ELSE registry[d] \ {x}
      /\ changing' \in [Devices -> SUBSET Change]
      /\ \A o \in Devices \ {d} : changing'[o] = changing[o]
      /\ SessionsOf(d) = {} => changing'[d] = {}
      /\ SessionsOf(d) # {} => \E n \in changing'[d] :
                                 /\ changing'[d] = {n} /\ n.op = op /\ n.scope = x[1] /\ n.type = x[2]
                                 /\ n.todo = SessionsOf(d)
  BY <1>1 DEF Changes
<1>3. UNCHANGED <<version, remote, available, ready, bound, subscribed, peer, inbox, rejected,
                  publishing, resyncs, drops>>
  BY <1>1 DEF Changes, links
<1>4. registry' \in [Devices -> SUBSET (Scopes \X Types)] /\ \A o \in Devices : IsFiniteSet(registry'[o])
  <2>1. registry \in [Devices -> SUBSET (Scopes \X Types)] /\ \A o \in Devices : IsFiniteSet(registry[o])
    BY DEF BaseInv, Typed, StatesTyped
  <2>2. IsFiniteSet(registry[d] \cup {x}) /\ IsFiniteSet(registry[d] \ {x})
    BY <2>1, FS_AddElement, FS_RemoveElement
  <2>3. registry' = [registry EXCEPT ![d] = IF op = "Subscribe" THEN @ \cup {x} ELSE @ \ {x}]
    BY <1>1 DEF Changes
  <2> QED
    BY <1>2, <2>1, <2>2, <2>3
<1>5. \A o \in Devices : changing'[o] = {} \/ \E n \in changing'[o] : changing'[o] = {n}
  BY <1>2 DEF BaseInv, Typed, NotesTyped
<1>6. changes' \in 0..MaxChanges
  <2>1. changes < MaxChanges /\ changes' = changes + 1
    BY DEF ChangeRegistry
  <2> QED
    BY <2>1, SessionAssumption DEF BaseInv, Typed, LimitsTyped
<1>7. Typed'
  BY <1>2, <1>3, <1>4, <1>5, <1>6 DEF BaseInv, Typed, StatesTyped, LinksTyped, NotesTyped, LimitsTyped
<1>8. ASSUME NEW e \in Devices, NEW n \in changing'[e]
      PROVE  /\ n.op = "Subscribe" <=> <<n.scope, n.type>> \in registry'[e]
             /\ n.op = "Unsubscribe" => Unsubscribes
             /\ \A s \in n.todo : Dev(s) = e
  <2>1. CASE e # d
    BY <1>2, <1>8, <2>1 DEF BaseInv, ChangesSound
  <2>2. CASE e = d
    <3>1. n.op = op /\ n.scope = x[1] /\ n.type = x[2] /\ n.todo = SessionsOf(d)
      BY <1>2, <1>8, <2>2
    <3>2. <<n.scope, n.type>> = x
      BY <1>2, <3>1
    <3>3. \A s \in SessionsOf(d) : Dev(s) = d
      BY SessionsOfDevice
    <3> QED
      BY <1>2, <2>2, <3>1, <3>2, <3>3
  <2> QED
    BY <2>1, <2>2
<1>9. \A e \in Devices : \A y \in registry'[e] : y[1] # e
  BY <1>2 DEF BaseInv, ChangesSound
<1>10. ChangesSound'
  BY <1>8, <1>9 DEF ChangesSound
<1>11. Joined' /\ Published'
  BY <1>3 DEF BaseInv, Joined, Idle, Paired, Waiting, Genuine, NoGoodbye, Signed, At, Backlog, Published
<1> QED
  BY <1>7, <1>10, <1>11 DEF BaseInv

-----------------------------------------------------------------------------
(* The invariant.                                                          *)

(* Initially nothing is connected.                                         *)
LEMMA BaseInit == Init => BaseInv
<1> SUFFICES ASSUME Init PROVE BaseInv
  OBVIOUS
<1>1. Typed
  BY TypedInit
<1>2. ChangesSound
  BY DEF Init, ChangesSound
<1>3. /\ \A s \in Sessions : peer[s] = None /\ bound[s] = None /\ subscribed[s] = {} /\ ~rejected[s]
      /\ \A e \in Ends : inbox[e] = <<>> /\ At(e) = {}
      /\ publishing = {}
      /\ version = [d \in Devices |-> [t \in Types |-> 1]]
      /\ remote = [d \in Devices |-> [o \in Devices |-> [t \in Types |-> 0]]]
  BY DEF Init, At
<1>4. /\ Clients \subseteq Sessions /\ Slots \subseteq Sessions /\ Sessions \subseteq Ends
      /\ \A c \in Clients : Backlog(c) \in Ends /\ Backlog(c) # None
      /\ \A s \in Sessions : s # None
  BY EndsAre, Owners
<1>5. Idle
  BY <1>3, <1>4 DEF Idle
<1>6. Paired
  BY <1>3, <1>4 DEF Paired
<1>7. Waiting
  BY <1>3, <1>4 DEF Waiting
<1>8. \A e \in Ends : \A o : Signed(e, o)
  BY <1>3 DEF Signed
<1>9. Genuine
  <2>1. \A k \in Slots : ~ready[k]
    BY <1>4 DEF Init
  <2> QED
    BY <1>3, <1>4, <1>8, <2>1 DEF Genuine
<1>10. NoGoodbye /\ Published
  BY <1>3, <1>4 DEF NoGoodbye, Published
<1> QED
  BY <1>1, <1>2, <1>5, <1>6, <1>7, <1>9, <1>10 DEF BaseInv, Joined


(* Every step keeps it.                                                    *)
LEMMA BaseStep == BaseInv /\ [Next]_vars => BaseInv'
<1> SUFFICES ASSUME BaseInv, [Next]_vars PROVE BaseInv'
  OBVIOUS
<1>1. ASSUME NEW s \in Sessions, Handle(s) PROVE BaseInv'
  BY <1>1, HandleKeeps
<1>2. ASSUME NEW s \in Sessions, ResetSession(s) PROVE BaseInv'
  BY <1>2, ResetKeeps
<1>3. ASSUME NEW c \in Clients, Connect(c) PROVE BaseInv'
  BY <1>3, ConnectKeeps
<1>4. ASSUME NEW c \in Clients, Drop(c) PROVE BaseInv'
  BY <1>4, DropSevers, SeversKeeps
<1>5. ASSUME NEW c \in Clients, Refuse(c) PROVE BaseInv'
  BY <1>5, RefuseSevers, SeversKeeps
<1>6. ASSUME NEW c \in Clients, NEW k \in Slots, Accept(k, c) PROVE BaseInv'
  BY <1>6, AcceptKeeps
<1>7. ASSUME NEW p \in publishing, NEW s \in p.todo, NotifyPublished(p, s) PROVE BaseInv'
  BY <1>7, NotifyPublishedKeeps
<1>8. ASSUME NEW d \in Devices, NEW n \in changing[d], NEW s \in n.todo, NotifyChanged(d, n, s)
      PROVE  BaseInv'
  BY <1>8, NotifyChangedKeeps
<1>9. ASSUME NEW d \in Publishers, NEW t \in Types, Publish(d, t) PROVE BaseInv'
  BY <1>9, PublishKeeps, SessionAssumption
<1>10. ASSUME NEW d \in Devices, NEW op \in {"Subscribe", "Unsubscribe"}, NEW x \in Scopes \X Types,
              ChangeRegistry(d, op, x)
       PROVE  BaseInv'
  BY <1>10, RegistryKeeps
<1>11. ASSUME NEW c \in Clients, NEW t \in Types \cup {None}, Resynchronize(c, t) PROVE BaseInv'
  BY <1>11, ResynchronizeKeeps
<1>12. ASSUME UNCHANGED vars PROVE BaseInv'
  <2>1. UNCHANGED <<version, remote, available, registry, ready, bound, subscribed, peer, inbox, rejected,
                    publishing, changing, changes, resyncs, drops>>
    BY <1>12 DEF vars, core, links, notes, limits
  <2>2. Typed' /\ ChangesSound'
    BY <2>1 DEF BaseInv, Typed, StatesTyped, LinksTyped, NotesTyped, LimitsTyped, ChangesSound
  <2>3. Joined' /\ Published'
    BY <2>1 DEF BaseInv, Joined, Idle, Paired, Waiting, Genuine, NoGoodbye, Signed, At, Backlog, Published
  <2> QED
    BY <2>2, <2>3 DEF BaseInv
<1> QED
  BY <1>1, <1>2, <1>3, <1>4, <1>5, <1>6, <1>7, <1>8, <1>9, <1>10, <1>11, <1>12
  DEF Next, AcceptAny, Notify, Application

(* The sessions' state always makes sense: connections join a client and a *)
(* slot, what is on its way is signed, published and fit to be handled.    *)
THEOREM Invariance == Spec => []BaseInv
<1>1. Init => BaseInv
  BY BaseInit
<1>2. BaseInv /\ [Next]_vars => BaseInv'
  BY BaseStep
<1> QED
  BY <1>1, <1>2, PTL DEF Spec

(* Type correctness of the sessions and adapters.                          *)
THEOREM Typing == Spec => []TypeOK
<1>1. BaseInv => TypeOK
  BY TypedIsTyped DEF BaseInv
<1> QED
  BY <1>1, Invariance, PTL


-----------------------------------------------------------------------------
(* Steps, by what they do to the messages on their way.                    *)

\* Session s handles a message and replies.
Answers(s, said) == Speaks(s, TRUE, said) /\ Hears(s, said)

\* Session s delivers publication p.
Delivers(p, s, said) ==
  /\ s \in Sessions /\ Tells(s, said)
  /\ said = IF ready[s] /\ p.type \in subscribed[s] THEN <<Update(s, p.type, p.version)>> ELSE <<>>
  /\ publishing' = (publishing \ {p}) \cup Without(p, s)
  /\ UNCHANGED <<changing, limits>>

\* Session s passes change n of its device's registry on.
Passes(d, n, s, said) ==
  /\ s \in Sessions /\ Dev(s) = d /\ Tells(s, said)
  /\ said = IF ready[s] /\ Applies(s, n.scope, bound[s]) THEN <<Control(s, n.op, n.type)>> ELSE <<>>
  /\ changing' = [changing EXCEPT ![d] = Without(n, s)]
  /\ UNCHANGED <<publishing, limits>>

\* Client c asks for states again.
Requests(c, t, said) ==
  Tells(c, said) /\ said = <<Control(c, "Resynchronize", t)>> /\ UNCHANGED <<notes, changes, drops>>

Step ==
  \/ \E s \in Sessions : \E said : Answers(s, said)
  \/ \E p \in publishing : \E s \in p.todo : \E said : Delivers(p, s, said)
  \/ \E d \in Devices : \E n \in changing[d] : \E s \in n.todo : \E said : Passes(d, n, s, said)
  \/ \E c \in Clients, t \in Types \cup {None} : \E said : Requests(c, t, said)
  \/ \E s \in Sessions : Resets(s)
  \/ \E c \in Clients : Connects(c) \/ Severs(c) \/ \E k \in Slots : Accepts(k, c)
  \/ \E d \in Devices, t \in Types : Publishes(d, t)
  \/ \E d \in Devices, op \in {"Subscribe", "Unsubscribe"}, x \in Scopes \X Types : Changes(d, op, x)
  \/ UNCHANGED vars

(* These are all.                                                          *)
LEMMA Steps ==
  ASSUME BaseInv, [Next]_vars
  PROVE  Step
<1>1. Typed /\ ChangesSound
  BY DEF BaseInv
<1>2. ASSUME NEW s \in Sessions, Handle(s) PROVE \E said : Answers(s, said)
  BY <1>1, <1>2, HandleSpeaks DEF Answers
<1>3. ASSUME NEW p \in publishing, NEW s \in p.todo, NotifyPublished(p, s)
      PROVE  \E said : Delivers(p, s, said)
  <2>1. s \in Sessions
    BY <1>1 DEF Typed, NotesTyped, Publication
  <2>2. PICK said : /\ Tells(s, said)
                    /\ (ready[s] /\ p.type \in subscribed[s]) => said = <<Update(s, p.type, p.version)>>
                    /\ ~(ready[s] /\ p.type \in subscribed[s]) => said = <<>>
    BY <1>1, <1>3, PublishedSpeaks
  <2>3. Delivers(p, s, said)
    BY <1>3, <2>1, <2>2 DEF Delivers, NotifyPublished
  <2> QED
    BY <2>3
<1>4. ASSUME NEW d \in Devices, NEW n \in changing[d], NEW s \in n.todo, NotifyChanged(d, n, s)
      PROVE  \E said : Passes(d, n, s, said)
  <2>1. s \in Sessions
    BY <1>1 DEF Typed, NotesTyped, Change
  <2>3. Dev(s) = d
    BY <1>1 DEF ChangesSound
  <2>2. PICK said : /\ Tells(s, said)
                    /\ (ready[s] /\ Applies(s, n.scope, bound[s])) => said = <<Control(s, n.op, n.type)>>
                    /\ ~(ready[s] /\ Applies(s, n.scope, bound[s])) => said = <<>>
    BY <1>1, <1>4, ChangedSpeaks
  <2>4. Passes(d, n, s, said)
    BY <1>4, <2>1, <2>2, <2>3 DEF Passes, NotifyChanged
  <2> QED
    BY <2>4
<1>5. ASSUME NEW c \in Clients, NEW t \in Types \cup {None}, Resynchronize(c, t)
      PROVE  \E said : Requests(c, t, said)
  BY <1>1, <1>5, ResynchronizeTells DEF Requests, Resynchronize
<1>6. ASSUME NEW d \in Publishers, NEW t \in Types, Publish(d, t)
      PROVE  \E o \in Devices, z \in Types : Publishes(o, z)
  BY <1>6, PublishChanges, SessionAssumption
<1>7. ASSUME NEW d \in Devices, NEW op \in {"Subscribe", "Unsubscribe"}, NEW x \in Scopes \X Types,
             ChangeRegistry(d, op, x)
      PROVE  Changes(d, op, x)
  BY <1>1, <1>7, RegistryChanges
<1>8. ASSUME NEW s \in Sessions, ResetSession(s) PROVE Resets(s)
  BY <1>8, ResetChanges
<1>9. ASSUME NEW c \in Clients, Connect(c) PROVE Connects(c)
  BY <1>9, ConnectStarts
<1>10. ASSUME NEW c \in Clients, NEW k \in Slots, Accept(k, c) PROVE Accepts(k, c)
  BY <1>10, AcceptStarts
<1>11. ASSUME NEW c \in Clients, Refuse(c) \/ Drop(c) PROVE Severs(c)
  BY <1>11, RefuseSevers, DropSevers
<1> QED
  BY <1>2, <1>3, <1>4, <1>5, <1>6, <1>7, <1>8, <1>9, <1>10, <1>11
  DEF Step, Next, AcceptAny, Notify, Application


-----------------------------------------------------------------------------
(* State replication.                                                      *)

(* What is handled comes from another device.                              *)
LEMMA FromAnother ==
  ASSUME BaseInv, NEW s \in Sessions, ready[s], NEW m \in At(s), m.kind # "Acknowledgement"
  PROVE  m.device \in Devices \ {Dev(s)}
<1>1. Genuine /\ Clients \cap Slots = {} /\ Server \notin Clients
  BY SessionAssumption DEF BaseInv, Joined
<1>2. CASE s \in Clients
  <2>1. m.device = Server /\ Dev(s) = s
    BY <1>1, <1>2, Owners DEF Genuine, Signed
  <2> QED
    BY <1>1, <1>2, <2>1 DEF Devices
<1>3. CASE s \in Slots
  <2>1. PICK c \in Clients : Signed(s, c)
    BY <1>1, <1>3 DEF Genuine
  <2>2. m.device = c /\ Dev(s) = Server
    BY <1>3, <2>1, Owners DEF Signed
  <2> QED
    BY <1>1, <2>2 DEF Devices
<1> QED
  BY <1>2, <1>3 DEF Sessions

(* Handling a message leaves the copies, or one learns a newer version.    *)
LEMMA AnswerLearns ==
  ASSUME BaseInv, NEW s \in Sessions, NEW said, Answers(s, said)
  PROVE  UNCHANGED <<version, remote>> \/ Replication!Next
<1> DEFINE m == Head(inbox[s])
           d == Dev(s)
           o == m.device
           t == m.type
           v == m.version
<1>1. UNCHANGED version /\ ready[s] /\ inbox[s] # <<>>
  BY DEF Answers, Speaks, Talks, Hears
<1>2. m \in Message /\ m \in At(s)
  <2>1. Talks(s, TRUE, said) /\ Typed
    BY DEF Answers, Speaks, BaseInv
  <2> QED
    BY <1>1, <2>1, ReceivedMessage, TalksAt
<1>3. CASE remote' = remote
  BY <1>1, <1>3
<1>4. CASE remote' # remote
  <2>1. /\ m.kind = "Update" /\ v >= remote[d][o][t]
        /\ remote' = [remote EXCEPT ![d][o][t] = v]
    BY <1>4 DEF Answers, Hears
  <2>2. o \in Devices \ {d} /\ d \in Devices /\ t \in Types /\ v \in 1..MaxVersion
    BY <1>1, <1>2, <2>1, FromAnother, MessageFields, Owners
  <2>3. v =< version[o][t]
    BY <1>2, <2>1, Owners DEF BaseInv, Published
  <2>4. /\ remote \in [Devices -> [Devices -> [Types -> 0..MaxVersion]]]
        /\ remote[d][o][t] \in 0..MaxVersion
        /\ version[o][t] \in 1..MaxVersion
    BY <2>2 DEF BaseInv, Typed, StatesTyped
  <2> HIDE DEF m, d, o, t, v
  <2>5. v # remote[d][o][t]
    <3> SUFFICES ASSUME v = remote[d][o][t] PROVE remote' = remote
      BY <1>4
    <3>1. remote[d][o] = [remote[d][o] EXCEPT ![t] = v]
      BY <2>2, <2>4
    <3>2. remote[d] = [remote[d] EXCEPT ![o] = [remote[d][o] EXCEPT ![t] = v]]
      BY <2>2, <2>4, <3>1
    <3>3. remote = [remote EXCEPT ![d] = [remote[d] EXCEPT ![o] = [remote[d][o] EXCEPT ![t] = v]]]
      BY <2>2, <2>4, <3>2
    <3> QED
      BY <2>1, <3>3
  <2>6. v \in (remote[d][o][t] + 1)..version[o][t]
    <3> DEFINE h == remote[d][o][t]
               w == version[o][t]
    <3>1. v \in Nat /\ h \in Nat /\ w \in Nat /\ v >= h /\ v # h /\ v =< w
      BY <2>1, <2>2, <2>3, <2>4, <2>5
    <3> HIDE DEF h, w
    <3>2. v \in (h + 1)..w
      BY <3>1
    <3> QED
      BY <3>2 DEF h, w
  <2>7. Replication!Learn(d, o, t)
    BY <1>1, <2>1, <2>6 DEF Replication!Learn
  <2> QED
    BY <2>2, <2>7 DEF Replication!Next
<1> QED
  BY <1>3, <1>4

(* Whatever is lost, reordered or sent twice, the sessions implement state *)
(* replication: a copy is a version its device published, and never goes   *)
(* back.                                                                   *)
THEOREM Refinement == Spec => ImplementsReplication
<1>1. Init => Replication!Init
  BY DEF Init, Replication!Init
<1>2. BaseInv /\ [Next]_vars => [Replication!Next]_(Replication!vars)
  <2> SUFFICES ASSUME BaseInv, [Next]_vars PROVE UNCHANGED <<version, remote>> \/ Replication!Next
    BY DEF Replication!vars
  <2>1. Step
    BY Steps
  <2>2. ASSUME NEW s \in Sessions, NEW said, Answers(s, said)
        PROVE  UNCHANGED <<version, remote>> \/ Replication!Next
    BY <2>2, AnswerLearns
  <2>3. ASSUME NEW s \in Sessions, NEW said, Tells(s, said) PROVE UNCHANGED <<version, remote>>
    BY <2>3 DEF Tells, Speaks
  <2>4. ASSUME NEW s \in Sessions, Resets(s) PROVE UNCHANGED <<version, remote>>
    BY <2>4 DEF Resets
  <2>5. ASSUME NEW c \in Clients, Connects(c) \/ Severs(c) \/ \E k \in Slots : Accepts(k, c)
        PROVE  UNCHANGED <<version, remote>>
    BY <2>5 DEF Connects, Severs, Accepts, Starts, core
  <2>6. ASSUME NEW d \in Devices, NEW t \in Types, Publishes(d, t) PROVE Replication!Next
    BY <2>6 DEF Publishes, Replication!Next, Replication!Publish
  <2>7. ASSUME NEW d \in Devices, NEW op, NEW x, Changes(d, op, x) PROVE UNCHANGED <<version, remote>>
    BY <2>7 DEF Changes
  <2>8. UNCHANGED vars => UNCHANGED <<version, remote>>
    BY DEF vars, core
  <2>9. Clients \subseteq Sessions
    BY EndsAre
  <2> QED
    BY <2>1, <2>2, <2>3, <2>4, <2>5, <2>6, <2>7, <2>8, <2>9 DEF Step, Delivers, Passes, Requests
<1> QED
  BY <1>1, <1>2, Invariance, PTL DEF Spec, ImplementsReplication, Replication!Spec


-----------------------------------------------------------------------------
(* Availability.                                                           *)

(* The availabilities are a table.                                         *)
LEMMA AvailabilityTable ==
  ASSUME Typed
  PROVE  \E S : available \in [Devices -> [Devices -> S]]
BY DEF Typed, StatesTyped

(* What handling a message does to the availabilities.                     *)
LEMMA AnswerAvailability ==
  ASSUME BaseInv, NEW s \in Sessions, NEW said, Answers(s, said)
  PROVE  /\ ready[s] /\ UNCHANGED <<ready, peer>> /\ \A x \in Sessions \ {s} : bound'[x] = bound[x]
         /\ bound[s] # None => bound'[s] = bound[s]
         /\ \A d, o \in Devices : \/ available'[d][o] = available[d][o]
                                  \/ d = Dev(s) /\ available'[d][o] = "Connected" /\ bound'[s] = o
                                  \/ /\ d = Dev(s) /\ available'[d][o] = "Disconnected" /\ bound'[s] = o
                                     /\ \E m \in At(s) : m.kind = "Disconnect"
         /\ (bound[s] = None /\ bound'[s] # None /\ (\A m \in At(s) : m.kind # "Disconnect"))
              => available'[Dev(s)][bound'[s]] = "Connected"
<1> DEFINE m == Head(inbox[s])
           to == IF bound[s] # None THEN bound[s] ELSE m.device
<1>1. Talks(s, TRUE, said) /\ Typed /\ ready[s]
  BY DEF Answers, Speaks, Hears, BaseInv
<1>2. m \in Message /\ m \in At(s) /\ bound[s] \in Devices \cup {None} /\ None \notin Devices
  BY <1>1, ReceivedMessage, TalksAt, SessionAssumption DEF Talks, Typed, LinksTyped
<1>3. to \in Devices /\ Dev(s) \in Devices
  BY <1>2, MessageFields, Owners
<1>4. /\ bound'[s] = IF m.kind = "Acknowledgement" THEN bound[s] ELSE to
      /\ available' =
           IF m.kind = "Disconnect" THEN [available EXCEPT ![Dev(s)][to] = "Disconnected"]
           ELSE IF m.kind = "Acknowledgement" \/ bound[s] # None THEN available
           ELSE [available EXCEPT ![Dev(s)][to] = "Connected"]
  BY DEF Answers, Hears
<1>5. /\ UNCHANGED <<ready, peer>> /\ \A x \in Sessions \ {s} : bound'[x] = bound[x]
      /\ bound[s] # None => bound'[s] = bound[s]
  BY <1>4 DEF Answers, Speaks, Talks
<1> DEFINE o1 == to
<1>6. m.kind = "Disconnect" =>
        /\ bound'[s] = to
        /\ \A x, y \in Devices : available'[x][y] = IF x = Dev(s) /\ y = to THEN "Disconnected" ELSE available[x][y]
  <2> SUFFICES ASSUME m.kind = "Disconnect"
               PROVE  \A x, y \in Devices :
                        available'[x][y] = IF x = Dev(s) /\ y = to THEN "Disconnected" ELSE available[x][y]
    BY <1>4
  <2>1. available' = [available EXCEPT ![Dev(s)][to] = "Disconnected"]
    BY <1>4
  <2>2. PICK S : available \in [Devices -> [Devices -> S]]
    BY <1>1, AvailabilityTable
  <2> HIDE DEF to
  <2> QED
    BY <1>3, <2>1, <2>2
<1>7. (m.kind \notin {"Disconnect", "Acknowledgement"} /\ bound[s] = None) =>
        /\ bound'[s] = to
        /\ \A x, y \in Devices : available'[x][y] = IF x = Dev(s) /\ y = to THEN "Connected" ELSE available[x][y]
  <2> SUFFICES ASSUME m.kind \notin {"Disconnect", "Acknowledgement"}, bound[s] = None
               PROVE  \A x, y \in Devices :
                        available'[x][y] = IF x = Dev(s) /\ y = to THEN "Connected" ELSE available[x][y]
    BY <1>4
  <2>1. available' = [available EXCEPT ![Dev(s)][to] = "Connected"]
    BY <1>4
  <2>2. PICK S : available \in [Devices -> [Devices -> S]]
    BY <1>1, AvailabilityTable
  <2> HIDE DEF to
  <2> QED
    BY <1>3, <2>1, <2>2
<1>8. (m.kind = "Acknowledgement" \/ (m.kind # "Disconnect" /\ bound[s] # None))
        => available' = available /\ bound'[s] = bound[s]
  BY <1>4
<1> HIDE DEF m, to
<1>9. ASSUME NEW d \in Devices, NEW o \in Devices
      PROVE  \/ available'[d][o] = available[d][o]
             \/ d = Dev(s) /\ available'[d][o] = "Connected" /\ bound'[s] = o
             \/ /\ d = Dev(s) /\ available'[d][o] = "Disconnected" /\ bound'[s] = o
                /\ \E x \in At(s) : x.kind = "Disconnect"
  BY <1>2, <1>6, <1>7, <1>8
<1>10. (bound[s] = None /\ bound'[s] # None /\ (\A x \in At(s) : x.kind # "Disconnect"))
         => available'[Dev(s)][bound'[s]] = "Connected"
  BY <1>2, <1>3, <1>7, <1>8
<1> QED
  BY <1>1, <1>5, <1>9, <1>10


(* Where the end or the start of a session changes them.                   *)
LEMMA ResetAvailability ==
  ASSUME BaseInv, NEW s \in Sessions, Resets(s)
  PROVE  \A d, o \in Devices :
           available'[d][o] = IF d = Dev(s) /\ o = bound[s] THEN "Disconnected" ELSE available[d][o]
<1>1. /\ available' = IF bound[s] # None THEN [available EXCEPT ![Dev(s)][bound[s]] = "Disconnected"]
                      ELSE available
      /\ bound[s] \in Devices \cup {None} /\ None \notin Devices /\ Dev(s) \in Devices /\ Typed
  BY SessionAssumption, Owners DEF Resets, BaseInv, Typed, LinksTyped
<1>2. CASE bound[s] = None
  BY <1>1, <1>2
<1>3. CASE bound[s] # None
  <2> DEFINE b == bound[s]
             e == Dev(s)
  <2>1. Typed /\ e \in Devices /\ b \in Devices /\ available' = [available EXCEPT ![e][b] = "Disconnected"]
    BY <1>1, <1>3
  <2> HIDE DEF b, e
  <2>2. \A x, y \in Devices : available'[x][y] = IF x = e /\ y = b THEN "Disconnected" ELSE available[x][y]
    <3>1. PICK S : available \in [Devices -> [Devices -> S]]
      BY <2>1, AvailabilityTable
    <3> QED
      BY <2>1, <3>1
  <2> QED
    BY <2>2 DEF b, e
<1> QED
  BY <1>2, <1>3

(* Likewise.                                                               *)
LEMMA StartAvailability ==
  ASSUME BaseInv, NEW s \in Sessions, Starts(s)
  PROVE  \A d, o \in Devices :
           available'[d][o] = IF d = Dev(s) /\ o = Expected(s) THEN "Connected" ELSE available[d][o]
<1>1. /\ available' = IF Expected(s) # None THEN [available EXCEPT ![Dev(s)][Expected(s)] = "Connected"]
                      ELSE available
      /\ Expected(s) \in Devices \cup {None} /\ None \notin Devices /\ Dev(s) \in Devices /\ Typed
  BY SessionAssumption, Owners DEF Starts, Expects, BaseInv
<1>2. CASE Expected(s) = None
  BY <1>1, <1>2
<1>3. CASE Expected(s) # None
  <2> DEFINE b == Expected(s)
             e == Dev(s)
  <2>1. Typed /\ e \in Devices /\ b \in Devices /\ available' = [available EXCEPT ![e][b] = "Connected"]
    BY <1>1, <1>3
  <2> HIDE DEF b, e
  <2>2. \A x, y \in Devices : available'[x][y] = IF x = e /\ y = b THEN "Connected" ELSE available[x][y]
    <3>1. PICK S : available \in [Devices -> [Devices -> S]]
      BY <2>1, AvailabilityTable
    <3> QED
      BY <2>1, <3>1
  <2> QED
    BY <2>2 DEF b, e
<1> QED
  BY <1>2, <1>3

(* A device is recorded as Connected only while a session is bound to it:  *)
(* every path that ends or unbinds a session corrects the record.          *)
THEOREM ConnectedHasSession == Spec => []AvailabilityHasSession
<1> DEFINE Has(d, o) == \E s \in Sessions : Dev(s) = d /\ ready[s] /\ bound[s] = o
<1>1. Init => AvailabilityHasSession
  BY DEF Init, AvailabilityHasSession
<1>2. BaseInv /\ AvailabilityHasSession /\ [Next]_vars => AvailabilityHasSession'
  <2> SUFFICES ASSUME BaseInv, AvailabilityHasSession, [Next]_vars,
                      NEW d \in Devices, NEW o \in Devices, available'[d][o] = "Connected"
               PROVE  \E x \in Sessions : Dev(x) = d /\ ready'[x] /\ bound'[x] = o
    BY DEF AvailabilityHasSession, Dev
  <2>1. Step /\ None \notin Devices
    BY Steps, SessionAssumption
  <2>2. available[d][o] = "Connected" => \E x \in Sessions : Dev(x) = d /\ ready[x] /\ bound[x] = o
    BY DEF AvailabilityHasSession
  <2>3. ASSUME NEW s \in Sessions, NEW said, Answers(s, said)
        PROVE  \E x \in Sessions : Dev(x) = d /\ ready'[x] /\ bound'[x] = o
    <3>1. /\ ready[s] /\ UNCHANGED <<ready, peer>> /\ \A x \in Sessions \ {s} : bound'[x] = bound[x]
          /\ bound[s] # None => bound'[s] = bound[s]
          /\ \A y, z \in Devices : \/ available'[y][z] = available[y][z]
                                   \/ y = Dev(s) /\ available'[y][z] = "Connected" /\ bound'[s] = z
                                   \/ /\ y = Dev(s) /\ available'[y][z] = "Disconnected" /\ bound'[s] = z
                                      /\ \E m \in At(s) : m.kind = "Disconnect"
          /\ (bound[s] = None /\ bound'[s] # None /\ (\A m \in At(s) : m.kind # "Disconnect"))
               => available'[Dev(s)][bound'[s]] = "Connected"
      BY <2>3, AnswerAvailability
    <3>2. CASE available'[d][o] = available[d][o]
      BY <2>1, <2>2, <3>1, <3>2
    <3>3. CASE available'[d][o] # available[d][o]
      BY <3>1, <3>3
    <3> QED
      BY <3>2, <3>3
  <2>4. ASSUME NEW s \in Sessions, NEW said, Tells(s, said)
        PROVE  \E x \in Sessions : Dev(x) = d /\ ready'[x] /\ bound'[x] = o
    BY <2>2, <2>4 DEF Tells, Speaks
  <2>5. ASSUME NEW s \in Sessions, Resets(s)
        PROVE  \E x \in Sessions : Dev(x) = d /\ ready'[x] /\ bound'[x] = o
    <3>1. available[d][o] = "Connected" /\ ~(d = Dev(s) /\ o = bound[s])
      BY <2>5, ResetAvailability
    <3>2. PICK x \in Sessions : Dev(x) = d /\ ready[x] /\ bound[x] = o
      BY <2>2, <3>1
    <3>3. x # s
      BY <3>1, <3>2
    <3> QED
      BY <2>5, <3>2, <3>3 DEF Resets
  <2>6. ASSUME NEW s \in Sessions, Starts(s)
        PROVE  \E x \in Sessions : Dev(x) = d /\ ready'[x] /\ bound'[x] = o
    <3>1. /\ ~ready[s] /\ \A x \in Sessions : ready'[x] = IF x = s THEN TRUE ELSE ready[x]
          /\ \A x \in Sessions : bound'[x] = IF x = s THEN Expected(s) ELSE bound[x]
      BY <2>6 DEF Starts, BaseInv, Typed, LinksTyped
    <3>2. CASE d = Dev(s) /\ o = Expected(s)
      BY <3>1, <3>2
    <3>3. CASE ~(d = Dev(s) /\ o = Expected(s))
      <4>1. available[d][o] = "Connected"
        BY <2>6, <3>3, StartAvailability
      <4> QED
        BY <2>2, <3>1, <4>1
    <3> QED
      BY <3>2, <3>3
  <2>7. ASSUME UNCHANGED <<available, ready, bound>>
        PROVE  \E x \in Sessions : Dev(x) = d /\ ready'[x] /\ bound'[x] = o
    BY <2>2, <2>7
  <2>8. ASSUME NEW c \in Clients, Severs(c) PROVE UNCHANGED <<available, ready, bound>>
    BY <2>8 DEF Severs, core
  <2>9. ASSUME NEW y, NEW t, Publishes(y, t) PROVE UNCHANGED <<available, ready, bound>>
    BY <2>9 DEF Publishes, links
  <2>10. ASSUME NEW y, NEW op, NEW x, Changes(y, op, x) PROVE UNCHANGED <<available, ready, bound>>
    BY <2>10 DEF Changes, links
  <2>11. UNCHANGED vars => UNCHANGED <<available, ready, bound>>
    BY DEF vars, core, links
  <2>12. Clients \subseteq Sessions /\ Slots \subseteq Sessions
    BY EndsAre
  <2> QED
    BY <2>1, <2>3, <2>4, <2>5, <2>6, <2>7, <2>8, <2>9, <2>10, <2>11, <2>12
    DEF Step, Delivers, Passes, Requests, Connects, Accepts
<1> QED
  BY <1>1, <1>2, Invariance, PTL DEF Spec


\* A client records the server it is connected to, a single slot its client.
Recorded ==
  \A s \in Sessions :
    (peer[s] # None /\ bound[s] # None /\ (s \in Clients \/ \A k, l \in Slots : k = l))
      => available[Dev(s)][bound[s]] = "Connected"

(* Of such sessions a device has one.                                      *)
LEMMA OnlySession ==
  ASSUME NEW s \in Sessions, NEW x \in Sessions, x \in Clients \/ \A k, l \in Slots : k = l, x # s
  PROVE  Dev(x) # Dev(s)
<1>1. Server \notin Clients /\ (s \in Clients \/ s \in Slots) /\ (x \in Clients \/ x \in Slots)
  BY SessionAssumption DEF Sessions
<1> QED
  BY <1>1, Owners

(* What the records of the client and of the single slot rest on.          *)
LEMMA RecordedStep == BaseInv /\ Recorded /\ [Next]_vars => Recorded'
<1> SUFFICES ASSUME BaseInv, Recorded, [Next]_vars,
                    NEW x \in Sessions, peer'[x] # None, bound'[x] # None,
                    x \in Clients \/ \A k, l \in Slots : k = l
             PROVE  available'[Dev(x)][bound'[x]] = "Connected"
  BY DEF Recorded, Dev
<1>1. Step /\ None \notin Devices /\ Dev(x) \in Devices
  BY Steps, Owners, SessionAssumption
<1>2. (peer[x] # None /\ bound[x] # None) => available[Dev(x)][bound[x]] = "Connected"
  BY DEF Recorded
<1>3. bound[x] \in Devices \cup {None}
  BY DEF BaseInv, Typed, LinksTyped
<1>4. ASSUME NEW s \in Sessions, NEW said, Answers(s, said)
      PROVE  available'[Dev(x)][bound'[x]] = "Connected"
  <2>1. /\ ready[s] /\ UNCHANGED <<ready, peer>> /\ \A y \in Sessions \ {s} : bound'[y] = bound[y]
        /\ bound[s] # None => bound'[s] = bound[s]
        /\ \A y, z \in Devices : \/ available'[y][z] = available[y][z]
                                 \/ y = Dev(s) /\ available'[y][z] = "Connected" /\ bound'[s] = z
                                 \/ /\ y = Dev(s) /\ available'[y][z] = "Disconnected" /\ bound'[s] = z
                                    /\ \E m \in At(s) : m.kind = "Disconnect"
        /\ (bound[s] = None /\ bound'[s] # None /\ (\A m \in At(s) : m.kind # "Disconnect"))
             => available'[Dev(s)][bound'[s]] = "Connected"
    BY <1>4, AnswerAvailability
  <2>2. CASE x = s
    <3>1. peer[s] # None /\ \A m \in At(s) : m.kind # "Disconnect"
      BY <2>1, <2>2 DEF BaseInv, Joined, NoGoodbye
    <3>2. CASE bound[s] = None
      BY <2>1, <2>2, <3>1, <3>2
    <3>3. CASE bound[s] # None
      BY <1>1, <1>2, <1>3, <2>1, <2>2, <3>1, <3>3
    <3> QED
      BY <3>2, <3>3
  <2>3. CASE x # s
    <3>1. Dev(x) # Dev(s)
      BY <2>3, OnlySession
    <3>2. bound'[x] = bound[x] /\ peer[x] # None /\ bound[x] \in Devices
      BY <1>3, <2>1, <2>3
    <3> QED
      BY <1>1, <1>2, <2>1, <3>1, <3>2
  <2> QED
    BY <2>2, <2>3
<1>5. ASSUME NEW s \in Sessions, NEW said, Tells(s, said)
      PROVE  available'[Dev(x)][bound'[x]] = "Connected"
  BY <1>2, <1>5 DEF Tells, Speaks, Talks
<1>6. ASSUME NEW s \in Sessions, Resets(s) PROVE available'[Dev(x)][bound'[x]] = "Connected"
  <2>1. x # s /\ peer[x] # None /\ bound'[x] = bound[x]
    BY <1>6 DEF Resets
  <2>2. Dev(x) # Dev(s)
    BY <2>1, OnlySession
  <2>3. \A d, o \in Devices :
          available'[d][o] = IF d = Dev(s) /\ o = bound[s] THEN "Disconnected" ELSE available[d][o]
    BY <1>6, ResetAvailability
  <2>4. bound[x] \in Devices
    BY <1>3, <2>1
  <2> QED
    BY <1>1, <1>2, <2>1, <2>2, <2>3, <2>4
<1>7. ASSUME NEW s \in Sessions, Starts(s), x # s => peer[x] # None
      PROVE  available'[Dev(x)][bound'[x]] = "Connected"
  <2>1. \A y \in Sessions : bound'[y] = IF y = s THEN Expected(s) ELSE bound[y]
    BY <1>7 DEF Starts, BaseInv, Typed, LinksTyped
  <2>2. \A d, o \in Devices :
          available'[d][o] = IF d = Dev(s) /\ o = Expected(s) THEN "Connected" ELSE available[d][o]
    BY <1>7, StartAvailability
  <2>3. CASE x = s
    <3>1. Expected(s) \in Devices
      BY <2>1, <2>3, Owners
    <3> QED
      BY <1>1, <2>1, <2>2, <2>3, <3>1
  <2>4. CASE x # s
    <3>1. Dev(x) # Dev(s)
      BY <2>4, OnlySession
    <3>2. bound'[x] = bound[x] /\ bound[x] \in Devices
      BY <1>3, <2>1, <2>4
    <3> QED
      BY <1>1, <1>2, <1>7, <2>2, <2>4, <3>1, <3>2
  <2> QED
    BY <2>3, <2>4
<1>8. ASSUME UNCHANGED <<available, bound>>, peer[x] # None
      PROVE  available'[Dev(x)][bound'[x]] = "Connected"
  BY <1>2, <1>8
<1>9. ASSUME NEW c \in Clients, Connects(c) PROVE available'[Dev(x)][bound'[x]] = "Connected"
  <2>1. c \in Sessions /\ Starts(c) /\ peer' = [peer EXCEPT ![c] = Backlog(c)]
    BY <1>9, EndsAre DEF Connects
  <2>2. x # c => peer[x] # None
    BY <2>1 DEF BaseInv, Typed, LinksTyped
  <2> QED
    BY <1>7, <2>1, <2>2
<1>10. ASSUME NEW c \in Clients, NEW k \in Slots, Accepts(k, c)
       PROVE  available'[Dev(x)][bound'[x]] = "Connected"
  <2>1. /\ c \in Sessions /\ k \in Sessions /\ Starts(k) /\ peer' = [peer EXCEPT ![c] = k, ![k] = c]
        /\ peer[c] = Backlog(c) /\ Backlog(c) # None
    BY <1>10, EndsAre DEF Accepts
  <2>2. x # k => peer[x] # None
    BY <2>1 DEF BaseInv, Typed, LinksTyped
  <2> QED
    BY <1>7, <2>1, <2>2
<1>11. ASSUME NEW c \in Clients, Severs(c) PROVE available'[Dev(x)][bound'[x]] = "Connected"
  <2>1. UNCHANGED <<available, bound>> /\ peer[x] # None
    BY <1>11 DEF Severs, core
  <2> QED
    BY <1>8, <2>1
<1>12. ASSUME NEW y, NEW t, Publishes(y, t) PROVE available'[Dev(x)][bound'[x]] = "Connected"
  BY <1>8, <1>12 DEF Publishes, links
<1>13. ASSUME NEW y, NEW op, NEW z, Changes(y, op, z) PROVE available'[Dev(x)][bound'[x]] = "Connected"
  BY <1>8, <1>13 DEF Changes, links
<1>14. UNCHANGED vars => available'[Dev(x)][bound'[x]] = "Connected"
  BY <1>8 DEF vars, core, links
<1>15. Clients \subseteq Sessions
  BY EndsAre
<1> QED
  BY <1>1, <1>4, <1>5, <1>6, <1>9, <1>10, <1>11, <1>12, <1>13, <1>14, <1>15
  DEF Step, Delivers, Passes, Requests

(* However many slots the server has, a client that is connected and knows *)
(* the server records it as Connected: it ends the session of a connection *)
(* it has lost before it starts the next one, and has no other.            *)
THEOREM ClientAvailability ==
  Spec => [](\A c \in Clients :
               peer[c] # None /\ bound[c] # None => available[c][Server] = "Connected")
<1>1. Init => Recorded
  BY DEF Init, Recorded
<1>2. BaseInv /\ Recorded =>
        \A c \in Clients : peer[c] # None /\ bound[c] # None => available[c][Server] = "Connected"
  <2> SUFFICES ASSUME BaseInv, Recorded, NEW c \in Clients, peer[c] # None, bound[c] # None
               PROVE  available[c][Server] = "Connected"
    OBVIOUS
  <2>1. c \in Sessions /\ Dev(c) = c
    BY EndsAre, Owners
  <2>2. bound[c] = Server
    BY DEF BaseInv, Joined, Genuine
  <2> QED
    BY <2>1, <2>2 DEF Recorded
<1>3. BaseInv /\ Recorded /\ [Next]_vars => Recorded'
  BY RecordedStep
<1> QED
  BY <1>1, <1>2, <1>3, Invariance, PTL DEF Spec

(* Where the server has a single slot, both sides of a settled connection  *)
(* record each other as Connected: whatever connections were lost before,  *)
(* no late end of an old session overwrites the record of the new one.     *)
THEOREM CurrentAvailability ==
  ASSUME \A k, l \in Slots : k = l
  PROVE  Spec => []AvailabilityCurrent
<1>1. Init => Recorded
  BY DEF Init, Recorded
<1>2. BaseInv /\ Recorded => AvailabilityCurrent
  <2> SUFFICES ASSUME BaseInv, Recorded, NEW c \in Clients, NEW k \in Slots, Settled(c, k)
               PROVE  /\ bound[c] # None => available[c][Server] = "Connected"
                      /\ bound[k] # None => available[Server][c] = "Connected"
    BY DEF AvailabilityCurrent
  <2>1. peer[c] = k /\ ready[k] /\ c \in Sessions /\ k \in Sessions /\ c # None /\ k # None
    BY EndsAre, Owners DEF Settled
  <2>2. peer[k] = c /\ Genuine
    BY <2>1 DEF BaseInv, Joined, Paired
  <2>3. bound[c] \in {None, Server} /\ bound[k] \in {None, c}
    <3>1. PICK a \in Clients : peer[k] \in {None, a} /\ bound[k] \in {None, a}
      BY <2>1, <2>2 DEF Genuine
    <3>2. a = c
      BY <2>1, <2>2, <3>1
    <3> QED
      BY <2>2, <3>1, <3>2 DEF Genuine
  <2>4. Dev(c) = c /\ Dev(k) = Server
    BY <2>1, Owners
  <2>5. \A s \in {c, k} : (peer[s] # None /\ bound[s] # None) => available[Dev(s)][bound[s]] = "Connected"
    BY <2>1 DEF Recorded
  <2> QED
    BY <2>1, <2>2, <2>3, <2>4, <2>5
<1>3. BaseInv /\ Recorded /\ [Next]_vars => Recorded'
  BY RecordedStep
<1> QED
  BY <1>1, <1>2, <1>3, Invariance, PTL DEF Spec

-----------------------------------------------------------------------------
(* What session x has said, where connections start and end.               *)

\* It starts: all it has said is its welcome, to an end that is subscribed to nothing.
Greets(x) ==
  /\ peer[x] = None /\ inbox[x] = <<>> /\ subscribed'[x] = {} /\ ~rejected'[x] /\ bound'[x] = Expected(x)
  /\ inbox'[peer'[x]] = Welcome(x)
  /\ peer'[x] \in Sessions => subscribed'[peer'[x]] = {} /\ ~rejected'[peer'[x]]

\* It is accepted: what it has said waits for a slot that is subscribed to nothing.
Enters(x) ==
  /\ peer[x] = Backlog(x) /\ x \in Clients /\ peer'[x] \in Slots
  /\ subscribed[x] = {} /\ subscribed'[x] = {} /\ ~rejected'[x] /\ bound'[x] = bound[x]
  /\ inbox'[peer'[x]] = inbox[peer[x]] /\ inbox[x] = <<>>
  /\ subscribed'[peer'[x]] = {} /\ ~rejected'[peer'[x]]

\* It stays as it was.
Stays(x) ==
  /\ peer[x] # None /\ peer'[x] = peer[x] /\ inbox'[peer[x]] = inbox[peer[x]]
  /\ subscribed'[x] = subscribed[x] /\ bound'[x] = bound[x] /\ rejected'[x] = rejected[x]
  /\ peer[x] \in Sessions => /\ subscribed'[peer[x]] = subscribed[peer[x]]
                             /\ rejected'[peer[x]] = rejected[peer[x]]

\* Connections start or end.
Links ==
  \/ \E s \in Sessions : Resets(s)
  \/ \E c \in Clients : Connects(c) \/ Severs(c) \/ \E k \in Slots : Accepts(k, c)

(* Nothing else happens to a connection that is up.                        *)
LEMMA LinksMove ==
  ASSUME BaseInv, Links, NEW x \in Sessions, peer'[x] # None
  PROVE  /\ Greets(x) \/ Enters(x) \/ Stays(x)
         /\ UNCHANGED <<version, remote, registry, notes>>
<1>1. /\ Typed /\ Idle /\ Paired /\ Waiting /\ None \notin Ends
      /\ Sessions \subseteq Ends /\ Slots \subseteq Sessions /\ Clients \subseteq Sessions
      /\ \A c \in Clients : Backlog(c) \notin Sessions
  BY EndsAre DEF BaseInv, Joined
<1>2. ASSUME peer[x] # None
      PROVE  /\ peer[x] \in Ends /\ peer[x] # x
             /\ \A y \in Sessions : (peer[y] = peer[x] => y = x) /\ (peer[x] = y => peer[y] = x)
             /\ \A c \in Clients : peer[x] = Backlog(c) => x = c
  <2>1. \A y \in Sessions : peer[y] = peer[x] => y = x
    BY <1>1, <1>2, Opposite
  <2>2. peer[x] \in Ends /\ peer[x] # x
    BY <1>1, <1>2, Opposite
  <2>3. \A y \in Sessions : peer[x] = y => peer[y] = x
    BY <1>1 DEF Paired
  <2>4. \A c \in Clients : peer[x] = Backlog(c) => x = c
    <3> TAKE c \in Clients
    <3> HAVE peer[x] = Backlog(c)
    <3>1. peer[x] \notin Sessions
      BY <1>1
    <3>2. x \in Clients /\ peer[x] = Backlog(x)
      BY <1>1, <1>2, <3>1, Opposite
    <3> QED
      BY <3>2, EndsAre
  <2> QED
    BY <2>1, <2>2, <2>3, <2>4
<1>3. ASSUME NEW s \in Sessions, Resets(s)
      PROVE  Stays(x) /\ UNCHANGED <<version, remote, registry, notes>>
  <2>1. /\ x # s /\ x # peer[s] /\ peer'[x] = peer[x] /\ peer[x] # None
        /\ bound'[x] = bound[x] /\ subscribed'[x] = subscribed[x]
        /\ \A e \in Ends : e # s /\ e # peer[s] => inbox'[e] = inbox[e]
        /\ \A y \in Sessions \ {s} : subscribed'[y] = subscribed[y] /\ rejected'[y] = rejected[y]
        /\ UNCHANGED <<version, remote, registry, notes>>
    BY <1>3 DEF Resets
  <2>2. peer[x] # s /\ peer[x] # peer[s] /\ peer[x] \in Ends
    BY <1>2, <2>1
  <2> QED
    BY <2>1, <2>2 DEF Stays
<1>4. ASSUME NEW c \in Clients, Connects(c)
      PROVE  (Greets(x) \/ Stays(x)) /\ UNCHANGED <<version, remote, registry, notes>>
  <2> DEFINE b == Backlog(c)
  <2>1. /\ Starts(c) /\ peer' = [peer EXCEPT ![c] = b] /\ inbox'[b] = Welcome(c)
        /\ \A e \in Ends : e # b => inbox'[e] = inbox[e]
    BY <1>4 DEF Connects
  <2>2. b \notin Sessions /\ c \in Sessions
    BY <1>1
  <2>3. (peer[x] # None /\ peer[x] = b) => x = c
    BY <1>2
  <2> HIDE DEF b
  <2>4. /\ peer[c] = None /\ inbox[c] = <<>> /\ subscribed[c] = {} /\ ~rejected[c]
        /\ bound' = [bound EXCEPT ![c] = Expected(c)]
        /\ UNCHANGED <<version, remote, registry, subscribed, rejected, notes>>
    BY <2>1 DEF Starts
  <2>5. /\ peer \in [Sessions -> Ends \cup {None}] /\ bound \in [Sessions -> Devices \cup {None}]
    BY <1>1 DEF Typed, LinksTyped
  <2>6. peer'[c] = b /\ bound'[c] = Expected(c)
        /\ \A y \in Sessions \ {c} : peer'[y] = peer[y] /\ bound'[y] = bound[y]
    BY <2>1, <2>2, <2>4, <2>5
  <2>7. CASE x = c
    BY <2>1, <2>2, <2>4, <2>6, <2>7 DEF Greets
  <2>8. CASE x # c
    <3>1. peer[x] # None /\ peer[x] # b /\ peer[x] \in Ends
      BY <1>2, <2>3, <2>6, <2>8
    <3> QED
      BY <2>1, <2>4, <2>6, <2>8, <3>1 DEF Stays
  <2> QED
    BY <2>4, <2>7, <2>8
<1>5. ASSUME NEW c \in Clients, Severs(c)
      PROVE  Stays(x) /\ UNCHANGED <<version, remote, registry, notes>>
  <2>1. /\ peer[c] # None /\ x # c /\ x # peer[c] /\ peer'[x] = peer[x] /\ peer[x] # None
        /\ \A e \in Ends : e \notin {c, peer[c], Backlog(c)} => inbox'[e] = inbox[e]
        /\ UNCHANGED <<core, bound, subscribed, rejected, notes>>
    BY <1>5 DEF Severs
  <2>2. peer[x] # c /\ peer[x] # peer[c] /\ peer[x] # Backlog(c) /\ peer[x] \in Ends
    BY <1>1, <1>2, <2>1
  <2> QED
    BY <2>1, <2>2 DEF Stays, core
<1>6. ASSUME NEW c \in Clients, NEW k \in Slots, Accepts(k, c)
      PROVE  /\ Greets(x) \/ Enters(x) \/ Stays(x)
             /\ UNCHANGED <<version, remote, registry, notes>>
  <2> DEFINE b == Backlog(c)
  <2>1. /\ Starts(k) /\ peer[c] = b /\ peer' = [peer EXCEPT ![c] = k, ![k] = c]
        /\ inbox[c] = <<>> /\ inbox'[c] = Welcome(k)
        /\ inbox'[k] = inbox[b]
        /\ \A e \in Ends : e \notin {c, k, b} => inbox'[e] = inbox[e]
    BY <1>6 DEF Accepts
  <2>2. b \notin Sessions /\ c \in Sessions /\ k \in Sessions /\ b # None /\ c # k
    BY <1>1, EndsAre
  <2>3. (peer[x] # None /\ peer[x] = b) => x = c
    BY <1>2
  <2>4. /\ peer[k] = None /\ inbox[k] = <<>> /\ subscribed[k] = {} /\ ~rejected[k]
        /\ bound' = [bound EXCEPT ![k] = Expected(k)]
        /\ UNCHANGED <<version, remote, registry, subscribed, rejected, notes>>
    BY <2>1 DEF Starts
  <2>5. subscribed[c] = {} /\ ~rejected[c]
    BY <1>1, <2>1 DEF Waiting
  <2>6. /\ peer \in [Sessions -> Ends \cup {None}] /\ bound \in [Sessions -> Devices \cup {None}]
    BY <1>1 DEF Typed, LinksTyped
  <2>7. CASE x = c
    <3>1. peer'[x] = k /\ bound'[x] = bound[x]
      BY <2>1, <2>2, <2>4, <2>6, <2>7
    <3> QED
      BY <2>1, <2>4, <2>5, <2>7, <3>1 DEF Enters
  <2> HIDE DEF b
  <2>8. CASE x = k
    <3>1. peer'[x] = c /\ bound'[x] = Expected(x)
      BY <2>1, <2>2, <2>4, <2>6, <2>8
    <3> QED
      BY <2>1, <2>4, <2>5, <2>8, <3>1 DEF Greets
  <2>9. CASE x # c /\ x # k
    <3>1. peer'[x] = peer[x] /\ bound'[x] = bound[x]
      BY <2>1, <2>2, <2>4, <2>6, <2>9
    <3>2. peer[x] \in Ends /\ peer[x] # None /\ peer[x] # b
      BY <1>2, <2>3, <2>9, <3>1
    <3>3. peer[x] # c /\ peer[x] # k
      BY <1>1, <1>2, <2>1, <2>2, <2>4, <2>9, <3>2
    <3> QED
      BY <2>1, <2>4, <3>1, <3>2, <3>3 DEF Stays
  <2> QED
    BY <2>4, <2>7, <2>8, <2>9
<1> QED
  BY <1>3, <1>4, <1>5, <1>6 DEF Links

-----------------------------------------------------------------------------
(* Updates precede the UnsubscribeAcknowledgement.                         *)

\* Every update of a type not in types is followed by an acknowledgement of its end.
Superseded(box, types) ==
  \A i \in DOMAIN box :
    (box[i].kind = "Update" /\ box[i].type \notin types) =>
      \E j \in (i + 1)..Len(box) :
        box[j].kind = "UnsubscribeAcknowledgement" /\ box[j].type = box[i].type

(* More is said: updates of the types left, and the end of the others.     *)
LEMMA SupersededAppend ==
  ASSUME NEW a \in Seq(Message), NEW b \in Seq(Message), NEW S, NEW T, Superseded(a, S),
         \A m \in Said(b) : m.kind = "Update" => m.type \in T,
         \A t \in S \ T : \E m \in Said(b) : m.kind = "UnsubscribeAcknowledgement" /\ m.type = t
  PROVE  Superseded(a \o b, T)
<1>1. /\ Len(a) \in Nat /\ Len(b) \in Nat
      /\ DOMAIN a = 1..Len(a) /\ DOMAIN b = 1..Len(b)
      /\ DOMAIN (a \o b) = 1..(Len(a) + Len(b)) /\ Len(a \o b) = Len(a) + Len(b)
      /\ \A i \in 1..(Len(a) + Len(b)) : (a \o b)[i] = IF i =< Len(a) THEN a[i] ELSE b[i - Len(a)]
  BY ConcatProperties, LenProperties
<1> DEFINE c == a \o b
<1> HIDE DEF c
<1>2. ASSUME NEW i \in DOMAIN c, c[i].kind = "Update", c[i].type \notin T
      PROVE  \E j \in (i + 1)..Len(c) : c[j].kind = "UnsubscribeAcknowledgement" /\ c[j].type = c[i].type
  <2>1. /\ i \in 1..(Len(a) + Len(b)) /\ Len(c) = Len(a) + Len(b)
        /\ \A j \in 1..(Len(a) + Len(b)) : c[j] = IF j =< Len(a) THEN a[j] ELSE b[j - Len(a)]
    BY <1>1 DEF c
  <2>2. i =< Len(a)
    <3> SUFFICES ASSUME ~(i =< Len(a)) PROVE FALSE
      OBVIOUS
    <3>1. i - Len(a) \in DOMAIN b /\ c[i] = b[i - Len(a)]
      BY <1>1, <2>1
    <3> QED
      BY <1>2, <3>1 DEF Said
  <2>3. i \in DOMAIN a /\ c[i] = a[i]
    BY <1>1, <2>1, <2>2
  <2>4. CASE c[i].type \in S
    <3>1. PICK m \in Said(b) : m.kind = "UnsubscribeAcknowledgement" /\ m.type = c[i].type
      BY <1>2, <2>4
    <3>2. PICK n \in DOMAIN b : m = b[n]
      BY DEF Said
    <3>3. n + Len(a) \in (i + 1)..Len(c) /\ c[n + Len(a)] = b[n]
      BY <1>1, <2>1, <2>2, <3>2
    <3> QED
      BY <3>1, <3>2, <3>3
  <2>5. CASE c[i].type \notin S
    <3>1. PICK j \in (i + 1)..Len(a) : a[j].kind = "UnsubscribeAcknowledgement" /\ a[j].type = a[i].type
      BY <1>2, <2>3, <2>5 DEF Superseded
    <3>2. j \in (i + 1)..Len(c) /\ c[j] = a[j]
      BY <1>1, <2>1, <2>2
    <3> QED
      BY <2>3, <3>1, <3>2
  <2> QED
    BY <2>4, <2>5
<1> QED
  BY <1>2 DEF Superseded, c

(* The first message is taken.                                             *)
LEMMA SupersededTail ==
  ASSUME NEW a \in Seq(Message), a # <<>>, NEW T, Superseded(a, T)
  PROVE  Superseded(Tail(a), T)
<1> DEFINE c == Tail(a)
<1>1. /\ Len(a) \in Nat /\ Len(c) = Len(a) - 1 /\ Len(c) \in Nat
      /\ DOMAIN a = 1..Len(a) /\ DOMAIN c = 1..Len(c)
      /\ \A i \in 1..Len(c) : c[i] = a[i + 1]
  BY HeadTailProperties, LenProperties, EmptySeq
<1> HIDE DEF c
<1>2. ASSUME NEW i \in DOMAIN c, c[i].kind = "Update", c[i].type \notin T
      PROVE  \E j \in (i + 1)..Len(c) : c[j].kind = "UnsubscribeAcknowledgement" /\ c[j].type = c[i].type
  <2>1. i + 1 \in DOMAIN a /\ c[i] = a[i + 1]
    BY <1>1
  <2>2. PICK j \in (i + 1 + 1)..Len(a) : a[j].kind = "UnsubscribeAcknowledgement" /\ a[j].type = a[i + 1].type
    BY <1>2, <2>1 DEF Superseded
  <2>3. j - 1 \in (i + 1)..Len(c) /\ c[j - 1] = a[j]
    BY <1>1
  <2> QED
    BY <2>1, <2>2, <2>3
<1> QED
  BY <1>2 DEF Superseded, c

\* What each session has said on its connection.
EndsKnown == \A x \in Sessions : peer[x] # None => Superseded(inbox[peer[x]], subscribed[x])

(* The types whose subscription a message ends are acknowledged.           *)
LEMMA AnswerLeaves ==
  ASSUME BaseInv, NEW s \in Sessions, NEW said, Answers(s, said), peer[s] # None,
         NEW t \in subscribed[s] \ subscribed'[s]
  PROVE  \E m \in Said(said) : m.kind = "UnsubscribeAcknowledgement" /\ m.type = t
<1> DEFINE m == Head(inbox[s])
<1>1. Hears(s, said) /\ Typed /\ Talks(s, TRUE, said)
  BY DEF Answers, Speaks, BaseInv
<1>2. m \in At(s)
  BY <1>1, TalksAt
<1>3. m.kind # "Disconnect"
  BY <1>2 DEF BaseInv, Joined, NoGoodbye
<1>4. m.kind = "Unsubscribe" /\ t = m.type
  BY <1>1, <1>3 DEF Hears
<1>5. Control(s, "UnsubscribeAcknowledgement", m.type) \in Said(said)
  BY <1>1, <1>4 DEF Hears
<1>6. /\ Control(s, "UnsubscribeAcknowledgement", m.type).kind = "UnsubscribeAcknowledgement"
      /\ Control(s, "UnsubscribeAcknowledgement", m.type).type = m.type
  BY DEF Control
<1> QED
  BY <1>4, <1>5, <1>6

(* Talking keeps the ends known.                                           *)
LEMMA TalkEndsKnown ==
  ASSUME BaseInv, EndsKnown, NEW s \in Sessions, NEW hears \in BOOLEAN, NEW said, Speaks(s, hears, said),
         \A t \in subscribed[s] \ subscribed'[s] :
           peer[s] # None => \E m \in Said(said) : m.kind = "UnsubscribeAcknowledgement" /\ m.type = t
  PROVE  EndsKnown'
<1>1. /\ said \in Seq(Message) /\ UNCHANGED peer /\ (hears => inbox[s] # <<>>)
      /\ inbox'[s] = IF hears THEN Tail(inbox[s]) ELSE inbox[s]
      /\ peer[s] # None => inbox'[peer[s]] = inbox[peer[s]] \o said
      /\ \A e \in Ends \ {s, peer[s]} : inbox'[e] = inbox[e]
      /\ \A m \in Said(said) : Fit(s, m, bound'[s], subscribed'[s])
      /\ \A x \in Sessions \ {s} : subscribed'[x] = subscribed[x]
  BY DEF Speaks, Talks
<1>2. inbox \in [Ends -> Seq(Message)] /\ Sessions \subseteq Ends /\ Idle /\ Paired /\ Typed
  BY EndsAre DEF BaseInv, Joined, Typed
<1>3. ASSUME NEW x \in Sessions, peer[x] # None
      PROVE  Superseded(inbox'[peer[x]], subscribed'[x])
  <2>1. /\ peer[x] \in Ends /\ peer[x] # x /\ Superseded(inbox[peer[x]], subscribed[x])
        /\ \A y \in Sessions : peer[y] = peer[x] => y = x
    BY <1>2, <1>3, Opposite DEF EndsKnown
  <2> DEFINE a == inbox[peer[x]]
  <2>2. a \in Seq(Message)
    BY <1>2, <2>1
  <2>3. CASE x = s
    <3>1. \A m \in Said(said) : m.kind = "Update" => m.type \in subscribed'[s]
      BY <1>1, ZenonT(40) DEF Fit
    <3>2. said \in Seq(Message) /\ Superseded(a, subscribed[s])
      BY <1>1, <2>1, <2>3, Zenon
    <3>3. \A t \in subscribed[s] \ subscribed'[s] :
            \E m \in Said(said) : m.kind = "UnsubscribeAcknowledgement" /\ m.type = t
      BY <1>3, <2>3, Zenon
    <3>4. Superseded(a \o said, subscribed'[s])
      BY <2>2, <3>1, <3>2, <3>3, SupersededAppend
    <3> QED
      BY <1>1, <1>3, <2>3, <3>4
  <2>4. CASE x # s /\ peer[x] = s
    <3>1. Superseded(inbox'[s], subscribed[x])
      BY <1>1, <2>1, <2>2, <2>4, SupersededTail
    <3> QED
      BY <1>1, <2>4, <3>1
  <2>5. CASE x # s /\ peer[x] # s
    <3>1. peer[x] # peer[s]
      BY <2>1, <2>5
    <3> QED
      BY <1>1, <2>1, <2>5, <3>1
  <2> QED
    BY <2>3, <2>4, <2>5
<1> QED
  BY <1>1, <1>3 DEF EndsKnown

(* Every step does.                                                        *)
LEMMA EndsKnownStep == BaseInv /\ EndsKnown /\ [Next]_vars => EndsKnown'
<1> SUFFICES ASSUME BaseInv, EndsKnown, [Next]_vars PROVE EndsKnown'
  OBVIOUS
<1>1. Step
  BY Steps
<1>2. ASSUME NEW s \in Sessions, NEW said, Answers(s, said) PROVE EndsKnown'
  <2>1. Speaks(s, TRUE, said)
    BY <1>2 DEF Answers
  <2>2. \A t \in subscribed[s] \ subscribed'[s] :
          peer[s] # None => \E m \in Said(said) : m.kind = "UnsubscribeAcknowledgement" /\ m.type = t
    BY <1>2, AnswerLeaves
  <2> QED
    BY <2>1, <2>2, TalkEndsKnown
<1>3. ASSUME NEW s \in Sessions, NEW said, Tells(s, said) PROVE EndsKnown'
  <2>1. Speaks(s, FALSE, said) /\ subscribed' = subscribed
    BY <1>3 DEF Tells
  <2> QED
    BY <2>1, TalkEndsKnown
<1>4. ASSUME Links PROVE EndsKnown'
  <2> SUFFICES ASSUME NEW x \in Sessions, peer'[x] # None
               PROVE  Superseded(inbox'[peer'[x]], subscribed'[x])
    BY DEF EndsKnown
  <2>1. Greets(x) \/ Enters(x) \/ Stays(x)
    BY <1>4, LinksMove
  <2>2. CASE Greets(x)
    <3> DEFINE q == Welcome(x)
    <3>1. inbox'[peer'[x]] = q
      BY <2>2 DEF Greets
    <3>2. /\ q \in Seq(Message) /\ \A m \in Said(q) : m.kind = "Subscribe"
      BY WelcomeSubscribes DEF BaseInv, Typed
    <3> HIDE DEF q
    <3>3. Superseded(q, subscribed'[x])
      BY <3>2 DEF Superseded, Said
    <3> QED
      BY <3>1, <3>3
  <2>3. CASE Enters(x)
    <3>1. peer[x] # None
      BY <2>3, EndsAre DEF Enters
    <3> QED
      BY <2>3, <3>1 DEF Enters, EndsKnown
  <2>4. CASE Stays(x)
    BY <2>4 DEF Stays, EndsKnown
  <2> QED
    BY <2>1, <2>2, <2>3, <2>4
<1>5. ASSUME UNCHANGED links PROVE EndsKnown'
  BY <1>5 DEF links, EndsKnown
<1>6. ASSUME NEW d, NEW t, Publishes(d, t) PROVE EndsKnown'
  BY <1>5, <1>6 DEF Publishes
<1>7. ASSUME NEW d, NEW op, NEW x, Changes(d, op, x) PROVE EndsKnown'
  BY <1>5, <1>7 DEF Changes
<1>8. UNCHANGED vars => EndsKnown'
  BY <1>5 DEF vars
<1>9. Clients \subseteq Sessions
  BY EndsAre
<1> QED
  BY <1>1, <1>2, <1>3, <1>4, <1>6, <1>7, <1>8, <1>9 DEF Step, Links, Delivers, Passes, Requests

(* An update still on its way for a type the peer is not subscribed to any *)
(* more precedes the UnsubscribeAcknowledgement: the registry of           *)
(* subscribers, notifications and snapshots agree under a session's lock.  *)
THEOREM UnsubscribeIsLast == Spec => []UpdatesPrecedeUnsubscribe
<1>1. Init => EndsKnown
  BY DEF Init, EndsKnown
<1>2. EndsKnown => UpdatesPrecedeUnsubscribe
  BY DEF EndsKnown, UpdatesPrecedeUnsubscribe, Superseded
<1> QED
  BY <1>1, <1>2, EndsKnownStep, Invariance, PTL DEF Spec

-----------------------------------------------------------------------------
(* What a peer is subscribed to is current, or on its way.                 *)

\* The current version of t of session s has reached its peer x, or will.
Coming(s, x, t) ==
  \/ rejected[x] \/ remote[Dev(x)][Dev(s)][t] = version[Dev(s)][t]
  \/ \E m \in At(x) : /\ m.kind = "Update" /\ m.device = Dev(s) /\ m.type = t
                      /\ m.version = version[Dev(s)][t]
  \/ \E p \in publishing : /\ p.device = Dev(s) /\ p.type = t /\ p.version = version[Dev(s)][t]
                           /\ s \in p.todo

OnWay == \A s, x \in Sessions : peer[s] = x => \A t \in subscribed[s] : Coming(s, x, t)

(* Copies are kept in a table.                                             *)
LEMMA CopyTable ==
  ASSUME BaseInv
  PROVE  /\ \E S : remote \in [Devices -> [Devices -> [Types -> S]]]
         /\ \A d, o \in Devices : \A t \in Types : remote[d][o][t] \in 0..MaxVersion /\ version[o][t] \in 1..MaxVersion
<1> DEFINE S == 0..MaxVersion
           N == 1..MaxVersion
<1>1. remote \in [Devices -> [Devices -> [Types -> S]]] /\ version \in [Devices -> [Types -> N]]
  BY DEF BaseInv, Typed, StatesTyped
<1> HIDE DEF S, N
<1>2. \A d, o \in Devices : \A t \in Types : remote[d][o][t] \in S /\ version[o][t] \in N
  BY <1>1
<1>3. \E R : remote \in [Devices -> [Devices -> [Types -> R]]]
  BY <1>1
<1> QED
  BY <1>2, <1>3 DEF S, N

(* A current copy stays current while messages are handled.                *)
LEMMA CurrentStays ==
  ASSUME BaseInv, NEW s \in Sessions, NEW said, Answers(s, said),
         NEW d \in Devices, NEW o \in Devices, NEW t \in Types, remote[d][o][t] = version[o][t]
  PROVE  remote'[d][o][t] = version'[o][t]
<1>1. UNCHANGED <<version, remote>> \/ Replication!Next
  BY AnswerLearns
<1>2. CASE Replication!Next
  <2>1. CASE \E x \in Devices, z \in Types : Replication!Publish(x, z)
    <3>1. PICK x \in Devices, z \in Types : Replication!Publish(x, z)
      BY <2>1
    <3>2. UNCHANGED version
      BY DEF Answers, Speaks
    <3>3. version' = [version EXCEPT ![x][z] = @ + 1] /\ UNCHANGED remote
      BY <3>1 DEF Replication!Publish
    <3> QED
      BY <3>2, <3>3
  <2>2. CASE \E x, y \in Devices, z \in Types : Replication!Learn(x, y, z)
    <3>1. PICK x \in Devices, y \in Devices, z \in Types : Replication!Learn(x, y, z)
      BY <2>2
    <3>2. PICK v \in (remote[x][y][z] + 1)..version[y][z] : remote' = [remote EXCEPT ![x][y][z] = v]
      BY <3>1 DEF Replication!Learn
    <3>3. UNCHANGED version
      BY <3>1 DEF Replication!Learn
    <3>4. /\ remote[x][y][z] \in 0..MaxVersion /\ version[y][z] \in 1..MaxVersion
          /\ \E S : remote \in [Devices -> [Devices -> [Types -> S]]]
      BY CopyTable
    <3>5. remote[x][y][z] # version[y][z]
      BY <3>4
    <3>6. \A i \in Devices, j \in Devices, k \in Types :
            remote'[i][j][k] = IF i = x /\ j = y /\ k = z THEN v ELSE remote[i][j][k]
      BY <3>2, <3>4
    <3>7. ~(d = x /\ o = y /\ t = z)
      BY <3>5
    <3> QED
      BY <3>3, <3>6, <3>7
  <2> QED
    BY <1>2, <2>1, <2>2 DEF Replication!Next
<1> QED
  BY <1>1, <1>2

(* The two ends of a connection are of different devices.                  *)
LEMMA TwoDevices ==
  ASSUME BaseInv, NEW s \in Sessions, NEW x \in Sessions, peer[s] = x
  PROVE  /\ Dev(s) \in Devices /\ Dev(x) \in Devices /\ Dev(s) # Dev(x) /\ s # x
         /\ ready[s] /\ ready[x] /\ peer[x] = s /\ peer[s] # None /\ peer[x] # None
<1>1. /\ Typed /\ Idle /\ Paired /\ Server \notin Clients /\ peer[s] # None
      /\ s \in Clients \/ s \in Slots
  BY SessionAssumption, Owners DEF BaseInv, Joined, Sessions
<1>2. ready[s] /\ peer[s] # s /\ peer[x] = s /\ ready[x] /\ (s \in Clients <=> x \in Slots)
  BY <1>1, Opposite
<1>3. x \in Clients \/ x \in Slots
  BY DEF Sessions
<1> QED
  BY <1>1, <1>2, <1>3, Owners

(* The handled message, if it is the current update, is applied or refused.*)
LEMMA AnswerDelivers ==
  ASSUME BaseInv, NEW s \in Sessions, NEW said, Answers(s, said),
         NEW m, m = Head(inbox[s]), m.kind = "Update"
  PROVE  remote'[Dev(s)][m.device][m.type] = m.version \/ rejected'[s]
<1>1. Hears(s, said) /\ Talks(s, TRUE, said) /\ Typed /\ inbox[s] # <<>>
  BY DEF Answers, Speaks, Talks, BaseInv
<1>2. m \in Message
  BY <1>1, ReceivedMessage
<1>3. m.device \in Devices /\ m.type \in Types /\ m.version \in 1..MaxVersion /\ Dev(s) \in Devices
  BY <1>2, MessageFields, Owners
<1>4. \/ remote' = [remote EXCEPT ![Dev(s)][m.device][m.type] = m.version]
      \/ rejected' = [rejected EXCEPT ![s] = TRUE]
  BY <1>1 DEF Hears
<1>5. CASE remote' = [remote EXCEPT ![Dev(s)][m.device][m.type] = m.version]
  <2>1. \E S : remote \in [Devices -> [Devices -> [Types -> S]]]
    BY CopyTable
  <2> QED
    BY <1>3, <1>5, <2>1
<1>6. CASE rejected' = [rejected EXCEPT ![s] = TRUE]
  BY <1>1, <1>6 DEF Typed, LinksTyped
<1> QED
  BY <1>4, <1>5, <1>6

(* A refused message stays refused.                                        *)
LEMMA AnswerRejected ==
  ASSUME BaseInv, NEW s \in Sessions, NEW said, Answers(s, said), NEW x \in Sessions, rejected[x]
  PROVE  rejected'[x]
BY DEF Answers, Hears, BaseInv, Typed, LinksTyped

(* Handling a message keeps what is current or on its way so.              *)
LEMMA AnswerOnWay ==
  ASSUME BaseInv, OnWay, NEW s \in Sessions, NEW said, Answers(s, said)
  PROVE  OnWay'
<1>1. /\ UNCHANGED <<version, peer, publishing>> /\ Talks(s, TRUE, said) /\ Hears(s, said) /\ Typed
      /\ \A x \in Sessions \ {s} : subscribed'[x] = subscribed[x]
  BY DEF Answers, Speaks, Talks, Hears, notes, BaseInv
<1>2. /\ \A e \in Ends : e = peer[s] => At(e)' = At(e) \cup Said(said)
      /\ \A e \in Ends \ {s} : At(e) \subseteq At(e)'
      /\ At(s) = At(s)' \cup {Head(inbox[s])}
  BY <1>1, TalksAt
<1>3. ASSUME NEW a \in Sessions, NEW x \in Sessions, peer[a] = x, NEW t \in subscribed'[a]
      PROVE  Coming(a, x, t)'
  <2>1. /\ Dev(a) \in Devices /\ Dev(x) \in Devices /\ Dev(a) # Dev(x) /\ a # x /\ x \in Ends
        /\ subscribed' \in [Sessions -> SUBSET Types]
    BY <1>3, TwoDevices, Owners DEF Answers, Speaks
  <2>2. t \in Types
    BY <2>1
  <2> DEFINE v == version[Dev(a)][t]
  <2>3. CASE t \in subscribed[a]
    <3>1. Coming(a, x, t)
      BY <1>3, <2>3 DEF OnWay
    <3>2. CASE rejected[x]
      <4>1. rejected'[x]
        BY <3>2, AnswerRejected
      <4> QED
        BY <4>1 DEF Coming
    <3>3. CASE remote[Dev(x)][Dev(a)][t] = v
      <4>1. remote'[Dev(x)][Dev(a)][t] = version'[Dev(a)][t]
        BY <2>1, <2>2, <3>3, CurrentStays
      <4> QED
        BY <4>1 DEF Coming, Dev
    <3>4. ASSUME NEW m \in At(x), m.kind = "Update", m.device = Dev(a), m.type = t, m.version = v
          PROVE  Coming(a, x, t)'
      <4>1. CASE m \in At(x)'
        BY <1>1, <3>4, <4>1 DEF Coming, Dev
      <4>2. CASE m \notin At(x)'
        <5>1. x = s /\ m = Head(inbox[s])
          BY <1>2, <2>1, <4>2
        <5>2. remote'[Dev(s)][m.device][m.type] = m.version \/ rejected'[s]
          BY <3>4, <5>1, AnswerDelivers
        <5>3. remote'[Dev(x)][Dev(a)][t] = version'[Dev(a)][t] \/ rejected'[x]
          BY <1>1, <3>4, <5>1, <5>2
        <5> QED
          BY <5>3 DEF Coming, Dev
      <4> QED
        BY <4>1, <4>2
    <3>5. ASSUME NEW p \in publishing, p.device = Dev(a), p.type = t, p.version = v, a \in p.todo
          PROVE  Coming(a, x, t)'
      BY <1>1, <3>5 DEF Coming, Dev
    <3> QED
      BY <3>1, <3>2, <3>3, <3>4, <3>5 DEF Coming
  <2>4. CASE t \notin subscribed[a]
    <3> DEFINE m == Snapshot(a, t)
    <3>1. a = s
      BY <1>1, <2>4
    <3>2. Head(inbox[s]).kind = "Subscribe" /\ t = Head(inbox[s]).type
      BY <1>1, <2>4, <3>1 DEF Hears
    <3>3. m \in Said(said)
      BY <1>1, <3>1, <3>2 DEF Hears
    <3>4. m \in At(x)'
      BY <1>2, <1>3, <2>1, <3>1, <3>3
    <3>5. m.kind = "Update" /\ m.device = Dev(a) /\ m.type = t /\ m.version = v
      BY DEF Snapshot, Update
    <3> HIDE DEF m
    <3> QED
      BY <1>1, <3>4, <3>5 DEF Coming, Dev
  <2> QED
    BY <2>3, <2>4
<1> QED
  BY <1>1, <1>3 DEF OnWay

(* So does talking for an application.                                     *)
LEMMA TellOnWay ==
  ASSUME BaseInv, OnWay, NEW s \in Sessions, NEW said, Tells(s, said),
         \A x \in Sessions, t \in Types, p \in publishing :
           (peer[s] = x /\ t \in subscribed[s] /\ p.type = t /\ p.device = Dev(s) /\ s \in p.todo) =>
             \/ Update(s, t, p.version) \in Said(said)
             \/ \E n \in publishing' :
                  n.device = p.device /\ n.type = p.type /\ n.version = p.version /\ s \in n.todo,
         \A p \in publishing, x \in Sessions : (x # s /\ x \in p.todo) =>
           \E n \in publishing' :
             n.device = p.device /\ n.type = p.type /\ n.version = p.version /\ x \in n.todo
  PROVE  OnWay'
<1>1. /\ UNCHANGED <<version, remote, peer, subscribed, rejected>> /\ Talks(s, FALSE, said) /\ Typed
      /\ subscribed \in [Sessions -> SUBSET Types] /\ s \in Ends
  BY Owners DEF Tells, Speaks, Talks, BaseInv, Typed, LinksTyped
<1>2. /\ \A e \in Ends : e = peer[s] => At(e)' = At(e) \cup Said(said)
      /\ \A e \in Ends : At(e) \subseteq At(e)'
  <2>1. /\ \A e \in Ends : e = peer[s] => At(e)' = At(e) \cup Said(said)
        /\ \A e \in Ends \ {s} : At(e) \subseteq At(e)'
    BY <1>1, TalksAt
  <2>2. At(s)' = At(s)
    BY <1>1 DEF At, Talks
  <2> QED
    BY <2>1, <2>2
<1>3. ASSUME NEW a \in Sessions, NEW x \in Sessions, peer[a] = x, NEW t \in subscribed[a]
      PROVE  Coming(a, x, t)'
  <2>1. Coming(a, x, t) /\ t \in Types /\ x \in Ends
    BY <1>1, <1>3, Owners DEF OnWay
  <2> DEFINE v == version[Dev(a)][t]
  <2>2. CASE rejected[x] \/ remote[Dev(x)][Dev(a)][t] = v
    BY <1>1, <2>2 DEF Coming, Dev
  <2>3. ASSUME NEW m \in At(x), m.kind = "Update", m.device = Dev(a), m.type = t, m.version = v
        PROVE  Coming(a, x, t)'
    <3>1. m \in At(x)'
      BY <1>2, <2>1
    <3> QED
      BY <1>1, <2>3, <3>1 DEF Coming, Dev
  <2>4. ASSUME NEW p \in publishing, p.device = Dev(a), p.type = t, p.version = v, a \in p.todo
        PROVE  Coming(a, x, t)'
    <3>1. CASE \E n \in publishing' :
                 n.device = p.device /\ n.type = p.type /\ n.version = p.version /\ a \in n.todo
      BY <1>1, <2>4, <3>1 DEF Coming, Dev
    <3>2. CASE ~\E n \in publishing' :
                 n.device = p.device /\ n.type = p.type /\ n.version = p.version /\ a \in n.todo
      <4> DEFINE m == Update(s, t, v)
      <4>1. a = s /\ m \in Said(said)
        BY <1>3, <2>1, <2>4, <3>2
      <4>2. m \in At(x)'
        BY <1>2, <1>3, <2>1, <4>1
      <4>3. m.kind = "Update" /\ m.device = Dev(a) /\ m.type = t /\ m.version = v
        BY <4>1 DEF Update
      <4> HIDE DEF m
      <4> QED
        BY <1>1, <4>2, <4>3 DEF Coming, Dev
    <3> QED
      BY <3>1, <3>2
  <2> QED
    BY <2>1, <2>2, <2>3, <2>4 DEF Coming
<1> QED
  BY <1>1, <1>3 DEF OnWay

(* Where publications stay as they are, nothing is asked of what is told.  *)
LEMMA TellUnpublished ==
  ASSUME BaseInv, OnWay, NEW s \in Sessions, NEW said, Tells(s, said), UNCHANGED publishing
  PROVE  OnWay'
<1>1. \A x \in Sessions, t \in Types, p \in publishing :
        (peer[s] = x /\ t \in subscribed[s] /\ p.type = t /\ p.device = Dev(s) /\ s \in p.todo) =>
          \/ Update(s, t, p.version) \in Said(said)
          \/ \E n \in publishing' :
               n.device = p.device /\ n.type = p.type /\ n.version = p.version /\ s \in n.todo
  OBVIOUS
<1>2. \A p \in publishing, x \in Sessions : (x # s /\ x \in p.todo) =>
        \E n \in publishing' :
          n.device = p.device /\ n.type = p.type /\ n.version = p.version /\ x \in n.todo
  OBVIOUS
<1> QED
  BY <1>1, <1>2, TellOnWay

(* A delivered publication is on its way to who is subscribed to it.       *)
LEMMA DeliverOnWay ==
  ASSUME BaseInv, OnWay, NEW p \in publishing, NEW s \in p.todo, NEW said, Delivers(p, s, said)
  PROVE  OnWay'
<1>1. /\ s \in Sessions /\ Tells(s, said) /\ publishing' = (publishing \ {p}) \cup Without(p, s)
      /\ said = IF ready[s] /\ p.type \in subscribed[s] THEN <<Update(s, p.type, p.version)>> ELSE <<>>
  BY DEF Delivers
<1>2. \A q \in publishing : \A x : (q # p \/ x # s) /\ x \in q.todo =>
        \E n \in publishing' :
          n.device = q.device /\ n.type = q.type /\ n.version = q.version /\ x \in n.todo
  BY <1>1, PublicationLeft DEF BaseInv
<1>3. ASSUME NEW x \in Sessions, peer[s] = x, p.type \in subscribed[s]
      PROVE  Update(s, p.type, p.version) \in Said(said)
  <2> DEFINE u == Update(s, p.type, p.version)
  <2>1. ready[s]
    BY <1>1, <1>3, TwoDevices
  <2>2. said = <<u>>
    BY <1>1, <1>3, <2>1
  <2> HIDE DEF u
  <2>3. u \in Said(<<u>>)
    BY DEF Said
  <2> QED
    BY <2>2, <2>3 DEF u
<1>4. \A x \in Sessions, t \in Types, q \in publishing :
        (peer[s] = x /\ t \in subscribed[s] /\ q.type = t /\ q.device = Dev(s) /\ s \in q.todo) =>
          \/ Update(s, t, q.version) \in Said(said)
          \/ \E n \in publishing' :
               n.device = q.device /\ n.type = q.type /\ n.version = q.version /\ s \in n.todo
  BY <1>2, <1>3
<1>5. \A q \in publishing, x \in Sessions : (x # s /\ x \in q.todo) =>
        \E n \in publishing' :
          n.device = q.device /\ n.type = q.type /\ n.version = q.version /\ x \in n.todo
  BY <1>2
<1> QED
  BY <1>1, <1>4, <1>5, TellOnWay

(* Every step keeps what is current or on its way so.                      *)
LEMMA OnWayStep == BaseInv /\ OnWay /\ [Next]_vars => OnWay'
<1> SUFFICES ASSUME BaseInv, OnWay, [Next]_vars PROVE OnWay'
  OBVIOUS
<1>1. Step
  BY Steps
<1>2. ASSUME NEW s \in Sessions, NEW said, Answers(s, said) PROVE OnWay'
  BY <1>2, AnswerOnWay
<1>3. ASSUME NEW p \in publishing, NEW s \in p.todo, NEW said, Delivers(p, s, said) PROVE OnWay'
  BY <1>3, DeliverOnWay
<1>4. ASSUME NEW s \in Sessions, NEW said, Tells(s, said), UNCHANGED publishing PROVE OnWay'
  BY <1>4, TellUnpublished
<1>5. ASSUME Links PROVE OnWay'
  <2> SUFFICES ASSUME NEW a \in Sessions, NEW x \in Sessions, peer'[a] = x, NEW t \in subscribed'[a]
               PROVE  Coming(a, x, t)'
    BY DEF OnWay
  <2>1. /\ Greets(a) \/ Enters(a) \/ Stays(a)
        /\ UNCHANGED <<version, remote, registry, notes>>
    BY <1>5, LinksMove, Owners
  <2>2. Stays(a)
    BY <2>1 DEF Greets, Enters
  <2>3. /\ peer[a] = x /\ inbox'[x] = inbox[x] /\ t \in subscribed[a] /\ rejected'[x] = rejected[x]
    BY <2>2 DEF Stays
  <2>4. Coming(a, x, t)
    BY <2>3 DEF OnWay
  <2> QED
    BY <2>1, <2>3, <2>4 DEF Coming, At, Dev, notes
<1>6. ASSUME NEW d \in Devices, NEW z \in Types, Publishes(d, z) PROVE OnWay'
  <2> SUFFICES ASSUME NEW a \in Sessions, NEW x \in Sessions, peer[a] = x, NEW t \in subscribed[a]
               PROVE  Coming(a, x, t)'
    BY <1>6 DEF OnWay, Publishes, links
  <2>1. /\ UNCHANGED <<remote, links>> /\ publishing \subseteq publishing'
        /\ \A o \in Devices, y \in Types :
             version'[o][y] = IF o = d /\ y = z THEN version[d][z] + 1 ELSE version[o][y]
        /\ SessionsOf(d) # {} => \E p \in publishing' : /\ p.device = d /\ p.type = z
                                                        /\ p.todo = SessionsOf(d)
                                                        /\ p.version = version[d][z] + 1
    BY <1>6 DEF Publishes
  <2>2. Coming(a, x, t) /\ Dev(a) \in Devices /\ ready[a] /\ t \in Types
    BY TwoDevices DEF OnWay, BaseInv, Typed, LinksTyped
  <2>3. CASE Dev(a) = d /\ t = z
    <3>1. a \in SessionsOf(d)
      BY <2>2, <2>3 DEF SessionsOf
    <3>2. PICK p \in publishing' : /\ p.device = d /\ p.type = z /\ p.todo = SessionsOf(d)
                                   /\ p.version = version[d][z] + 1
      BY <2>1, <3>1
    <3>3. p.version = version'[Dev(a)][t] /\ a \in p.todo
      BY <2>1, <2>2, <2>3, <3>1, <3>2
    <3> QED
      BY <2>3, <3>2, <3>3 DEF Coming, Dev
  <2>4. CASE ~(Dev(a) = d /\ t = z)
    <3>1. version'[Dev(a)][t] = version[Dev(a)][t]
      BY <2>1, <2>2, <2>4
    <3> QED
      BY <2>1, <2>2, <3>1 DEF Coming, At, Dev, links
  <2> QED
    BY <2>3, <2>4
<1>7. ASSUME UNCHANGED <<version, remote, links, publishing>> PROVE OnWay'
  BY <1>7 DEF OnWay, Coming, At, Dev, links
<1>8. ASSUME NEW d, NEW op, NEW x, Changes(d, op, x) PROVE OnWay'
  BY <1>7, <1>8 DEF Changes
<1>9. UNCHANGED vars => OnWay'
  BY <1>7 DEF vars, core, notes
<1>10. Clients \subseteq Sessions
  BY EndsAre
<1> QED
  BY <1>1, <1>2, <1>3, <1>4, <1>5, <1>6, <1>8, <1>9, <1>10 DEF Step, Links, Passes, Requests, notes

(* "Later publications update remote repositories": on a settled           *)
(* connection each side's copy of a state it is subscribed to is what the  *)
(* other holds, whatever was lost, refused or resent before.               *)
THEOREM CurrentCopies == Spec => []CopiesCurrent
<1>1. Init => OnWay
  BY DEF Init, OnWay
<1>2. BaseInv /\ OnWay => CopiesCurrent
  <2> SUFFICES ASSUME BaseInv, OnWay, NEW c \in Clients, NEW k \in Slots, Settled(c, k)
               PROVE  /\ \A t \in subscribed[k] : remote[c][Server][t] = version[Server][t]
                      /\ \A t \in subscribed[c] : remote[Server][c][t] = version[c][t]
    BY DEF CopiesCurrent
  <2>1. /\ peer[c] = k /\ c \in Sessions /\ k \in Sessions /\ publishing = {}
        /\ \A s \in {c, k} : inbox[s] = <<>> /\ ~rejected[s]
    BY EndsAre DEF Settled
  <2>2. peer[k] = c /\ Dev(c) = c /\ Dev(k) = Server
    BY <2>1, TwoDevices, Owners
  <2>3. At(c) = {} /\ At(k) = {}
    BY <2>1 DEF At
  <2>4. /\ \A t \in subscribed[c] : Coming(c, k, t)
        /\ \A t \in subscribed[k] : Coming(k, c, t)
    BY <2>1, <2>2 DEF OnWay
  <2> QED
    BY <2>1, <2>2, <2>3, <2>4 DEF Coming
<1>3. BaseInv /\ OnWay /\ [Next]_vars => OnWay'
  BY OnWayStep
<1> QED
  BY <1>1, <1>2, <1>3, Invariance, PTL DEF Spec

-----------------------------------------------------------------------------
(* What is on its way to any end.                                          *)

(* Where connections start and end, messages stay, are lost or move with a *)
(* client that is accepted; goodbyes and welcomes are new.                 *)
LEMMA LinksCarry ==
  ASSUME BaseInv, Links, NEW e \in Ends, NEW m \in At(e)'
  PROVE  \/ m \in At(e) \/ m.kind = "Disconnect"
         \/ e \in Slots /\ \E c \in Clients : m \in At(Backlog(c))
         \/ \E s \in Sessions : /\ m \in Said(Welcome(s))
                                /\ s \in Clients => \E c \in Clients : e = Backlog(c)
                                /\ s \in Slots => e \in Clients
<1>1. ASSUME NEW s \in Sessions, Resets(s) PROVE m \in At(e) \/ m.kind = "Disconnect"
  <2>1. CASE e = s
    BY <1>1, <2>1 DEF Resets, At
  <2>2. CASE e = peer[s]
    BY <1>1, <2>2 DEF Resets
  <2>3. CASE e # s /\ e # peer[s]
    BY <1>1, <2>3 DEF Resets, At
  <2> QED
    BY <2>1, <2>2, <2>3
<1>2. ASSUME NEW c \in Clients, Severs(c) PROVE m \in At(e)
  BY <1>2 DEF Severs
<1>3. ASSUME NEW c \in Clients, Connects(c)
      PROVE  m \in At(e) \/ (m \in Said(Welcome(c)) /\ e = Backlog(c))
  <2>1. inbox'[Backlog(c)] = Welcome(c) /\ \A o \in Ends : o # Backlog(c) => inbox'[o] = inbox[o]
    BY <1>3 DEF Connects
  <2> QED
    BY <2>1 DEF At, Said
<1>4. ASSUME NEW c \in Clients, NEW k \in Slots, Accepts(k, c)
      PROVE  \/ m \in At(e) \/ (m \in Said(Welcome(k)) /\ e = c)
             \/ e \in Slots /\ m \in At(Backlog(c))
  <2>1. /\ inbox'[c] = Welcome(k) /\ inbox'[k] = inbox[Backlog(c)] /\ inbox'[Backlog(c)] = <<>>
        /\ \A o \in Ends : o \notin {c, k, Backlog(c)} => inbox'[o] = inbox[o]
    BY <1>4 DEF Accepts
  <2> QED
    BY <2>1 DEF At, Said
<1>5. Clients \subseteq Sessions /\ Slots \subseteq Sessions /\ Clients \cap Slots = {}
  BY EndsAre
<1> QED
  BY <1>1, <1>2, <1>3, <1>4, <1>5 DEF Links

\* The device at an end.
DevOf(e) == IF e \in Clients THEN e ELSE Server

(* Sessions hear from the device at the other end, and are bound to it.    *)
LEMMA Hearer ==
  ASSUME BaseInv, NEW s \in Sessions
  PROVE  /\ DevOf(s) = Dev(s)
         /\ peer[s] # None => /\ bound[s] \in {None, DevOf(peer[s])} /\ DevOf(peer[s]) \in Devices
                              /\ \A m \in At(s) : m.kind # "Acknowledgement" => m.device = DevOf(peer[s])
                              /\ \A e \in Ends : e = peer[s] =>
                                   \A m \in At(e) : m.kind # "Acknowledgement" => m.device = Dev(s)
         /\ (ready[s] /\ bound[s] # None) => \A m \in At(s) : m.kind # "Acknowledgement" => m.device = bound[s]
<1>1. /\ Typed /\ Idle /\ Paired /\ Genuine /\ Waiting /\ Slots \subseteq Sessions /\ Clients \subseteq Sessions
      /\ \A c \in Clients : Backlog(c) \notin Sessions /\ Backlog(c) \in Ends
      /\ Clients \cap Slots = {} /\ Clients \subseteq Devices /\ Server \in Devices
      /\ s \in Clients \/ s \in Slots
  BY EndsAre DEF BaseInv, Joined, Devices, Sessions
<1>2. CASE s \in Clients
  <2>1. Dev(s) = s /\ bound[s] \in {None, Server} /\ Signed(s, Server) /\ Signed(Backlog(s), s)
        /\ peer[s] \in Slots \cup {Backlog(s), None}
    BY <1>1, <1>2, Owners DEF Genuine, Paired
  <2>2. peer[s] # None => DevOf(peer[s]) = Server
    BY <1>1, <1>2, <2>1 DEF DevOf
  <2>3. ASSUME peer[s] \in Slots PROVE Signed(peer[s], s)
    <3>1. peer[s] # None /\ peer[s] \in Sessions
      BY <1>1, <2>3, Owners
    <3>2. peer[peer[s]] = s /\ ready[peer[s]] /\ s # None
      BY <1>1, <3>1, Opposite, Owners
    <3>3. \A k \in Slots : ready[k] => \E c \in Clients : peer[k] \in {None, c} /\ Signed(k, c)
      BY <1>1 DEF Genuine
    <3>4. PICK c \in Clients : peer[peer[s]] \in {None, c} /\ Signed(peer[s], c)
      BY <2>3, <3>2, <3>3
    <3> QED
      BY <3>2, <3>4
  <2> QED
    BY <1>1, <1>2, <2>1, <2>2, <2>3 DEF DevOf, Signed
<1>3. CASE s \in Slots
  <2>1. Dev(s) = Server /\ peer[s] \in Clients \cup {None} /\ s \notin Clients
    BY <1>1, <1>3, Owners DEF Paired
  <2>2. peer[s] # None => ready[s] /\ Signed(peer[s], Server)
    BY <1>1, <2>1 DEF Idle, Genuine
  <2>3. ready[s] => \E c \in Clients : peer[s] \in {None, c} /\ bound[s] \in {None, c} /\ Signed(s, c)
    BY <1>1, <1>3 DEF Genuine
  <2> QED
    BY <1>1, <2>1, <2>2, <2>3 DEF DevOf, Signed
<1> QED
  BY <1>1, <1>2, <1>3

-----------------------------------------------------------------------------
(* Where subscriptions are kept, what is on its way is wanted.             *)

\* Message m is wanted by device o, which hears it, or tells o what is.
WantedBy(m, o) ==
  /\ m.kind # "Unsubscribe"
  /\ m.kind = "Subscribe" => Wants(m.device, o, m.type)
  /\ m.kind = "Update" => Wants(o, m.device, m.type)

\* A session of s that is bound to b, if it is, is between s and device o,
\* which wants what it is subscribed to.
Between(s, o, b, types) ==
  /\ Expected(s) \in {None, o} /\ b \in {None, o}
  /\ \A t \in types : b # None /\ Wants(b, Dev(s), t)

\* A session is bound to a device that wants what it is subscribed to.
SubscribersWant ==
  \A s \in Sessions : \A t \in subscribed[s] : bound[s] # None /\ Wants(bound[s], Dev(s), t)

Wanted == SubscribersWant /\ \A e \in Ends : \A m \in At(e) : WantedBy(m, DevOf(e))

(* A subscription that applies is to the device at the other end.          *)
LEMMA AppliesToHearer ==
  ASSUME BaseInv, NEW s \in Sessions, NEW o, NEW b \in {None, o}, NEW x \in registry[Dev(s)],
         Applies(s, x[1], b), Expected(s) \in {None, o}
  PROVE  Wants(Dev(s), o, x[2])
<1>1. registry[Dev(s)] \subseteq Scopes \X Types /\ None \notin Devices /\ Scopes \subseteq Devices \cup {AnyDevice}
  BY Owners, SessionAssumption DEF BaseInv, Typed, StatesTyped
<1>2. x = <<x[1], x[2]>> /\ x[1] \in Devices \cup {AnyDevice}
  BY <1>1
<1>3. x[1] = AnyDevice \/ x[1] = o
  BY <1>1, <1>2 DEF Applies
<1> QED
  BY <1>2, <1>3 DEF Wants

(* What is fit to be said is wanted.                                       *)
LEMMA FitWanted ==
  ASSUME BaseInv, ~Unsubscribes, NEW s \in Sessions, NEW o, NEW b, NEW types, NEW m,
         Between(s, o, b, types), Fit(s, m, b, types)
  PROVE  WantedBy(m, o)
<1> USE DEF Between
<1>1. ASSUME m.kind = "Subscribe" PROVE Wants(m.device, o, m.type)
  <2>1. PICK scope \in Scopes : Applies(s, scope, b) /\ <<scope, m.type>> \in registry[Dev(s)]
    BY <1>1 DEF Fit
  <2> DEFINE x == <<scope, m.type>>
  <2>2. x \in registry[Dev(s)] /\ x[1] = scope /\ x[2] = m.type /\ m.device = Dev(s)
    BY <1>1, <2>1 DEF Fit
  <2> HIDE DEF x
  <2>3. Wants(Dev(s), o, x[2])
    BY <2>1, <2>2, AppliesToHearer
  <2> QED
    BY <2>2, <2>3
<1> QED
  BY <1>1 DEF Fit, WantedBy

(* Expected is the other end.                                              *)
LEMMA ExpectedHearer ==
  ASSUME BaseInv, NEW s \in Sessions, peer[s] # None
  PROVE  Expected(s) \in {None, DevOf(peer[s])}
<1>1. CASE s \in Clients
  <2>1. peer[s] \in Slots \cup {Backlog(s)} /\ Slots \cap Clients = {} /\ Backlog(s) \notin Clients
    BY <1>1, EndsAre DEF BaseInv, Joined, Paired
  <2> QED
    BY <2>1 DEF Expected, DevOf
<1> QED
  BY <1>1 DEF Expected

(* Registries only grow.                                                   *)
LEMMA WantedGrows ==
  ASSUME BaseInv, Wanted, \A d \in Devices : registry[d] \subseteq registry'[d], UNCHANGED <<bound, subscribed, inbox>>
  PROVE  Wanted'
<1>1. \A d \in Devices : \A o, t : Wants(d, o, t) => Wants(d, o, t)'
  BY DEF Wants
<1>2. ASSUME NEW e \in Ends, NEW m \in At(e) PROVE WantedBy(m, DevOf(e))'
  <2>1. WantedBy(m, DevOf(e))
    BY <1>2 DEF Wanted
  <2>2. m \in Message
    BY <1>2, ElementOfSeq DEF At, BaseInv, Typed
  <2>3. m.device \in Devices /\ DevOf(e) \in Devices
    BY <2>2, MessageFields DEF DevOf, Devices
  <2> QED
    BY <1>1, <2>1, <2>3 DEF WantedBy
<1>3. \A s \in Sessions : \A t \in subscribed[s] : bound[s] # None /\ bound[s] \in Devices /\ Wants(bound[s], Dev(s), t)
  BY DEF Wanted, SubscribersWant, BaseInv, Typed, LinksTyped
<1>4. \A s \in Sessions : \A t \in subscribed[s] : bound[s] # None /\ Wants(bound[s], Dev(s), t)'
  BY <1>1, <1>3
<1>5. \A e \in Ends : At(e)' = At(e)
  BY DEF At
<1>6. SubscribersWant'
  BY <1>4 DEF SubscribersWant, Wants, Dev
<1> QED
  BY <1>2, <1>5, <1>6 DEF Wanted

(* Talking says what is wanted.                                            *)
LEMMA SpeaksWanted ==
  ASSUME BaseInv, Wanted, ~Unsubscribes, NEW s \in Sessions, NEW hears \in BOOLEAN, NEW said,
         Speaks(s, hears, said),
         \A t \in subscribed'[s] : bound'[s] # None /\ Wants(bound'[s], Dev(s), t),
         peer[s] # None => bound'[s] \in {None, DevOf(peer[s])}
  PROVE  Wanted'
<1>1. /\ Talks(s, hears, said) /\ UNCHANGED <<registry, peer>> /\ Typed
      /\ \A m \in Said(said) : Fit(s, m, bound'[s], subscribed'[s])
      /\ \A x \in Sessions \ {s} : bound'[x] = bound[x] /\ subscribed'[x] = subscribed[x]
  BY DEF Speaks, Talks, BaseInv
<1>2. \A e \in Ends : At(e)' \subseteq At(e) \cup (IF e = peer[s] THEN Said(said) ELSE {})
  BY <1>1, TalksAt
<1>3. SubscribersWant'
  <2>1. \A x \in Sessions : \A t \in subscribed'[x] : bound'[x] # None /\ Wants(bound'[x], Dev(x), t)
    BY <1>1 DEF Wanted, SubscribersWant
  <2> QED
    BY <1>1, <2>1 DEF SubscribersWant, Wants, Dev
<1>4. ASSUME NEW e \in Ends, NEW m \in At(e)' PROVE WantedBy(m, DevOf(e))
  <2>1. CASE m \in At(e)
    BY <2>1 DEF Wanted
  <2>2. CASE m \notin At(e)
    <3>1. e = peer[s] /\ m \in Said(said) /\ peer[s] # None
      BY <1>2, <2>2, SessionAssumption
    <3> DEFINE b == bound'[s]
               types == subscribed'[s]
    <3>2. Fit(s, m, b, types) /\ Between(s, DevOf(e), b, types)
      BY <1>1, <3>1, ExpectedHearer DEF Between
    <3> HIDE DEF b, types
    <3> QED
      BY <3>2, FitWanted
  <2> QED
    BY <2>1, <2>2
<1>5. \A e \in Ends : \A m \in At(e)' : WantedBy(m, DevOf(e))'
  <2>1. \A m, o : WantedBy(m, o) => WantedBy(m, o)'
    BY <1>1 DEF WantedBy, Wants
  <2> QED
    BY <1>4, <2>1
<1> QED
  BY <1>3, <1>5 DEF Wanted

(* What is received is wanted of the session it reaches.                   *)
LEMMA AnswerWanted ==
  ASSUME BaseInv, Wanted, ~Unsubscribes, NEW s \in Sessions, NEW said, Answers(s, said)
  PROVE  Wanted'
<1> DEFINE m == Head(inbox[s])
<1>1. Hears(s, said) /\ Typed /\ Talks(s, TRUE, said) /\ Speaks(s, TRUE, said) /\ ready[s]
  BY DEF Answers, Speaks, BaseInv, Hears
<1>2. m \in At(s) /\ m \in Message
  BY <1>1, TalksAt, ReceivedMessage DEF Talks
<1>3. m.device \in Devices /\ None \notin Devices
  BY <1>2, MessageFields, SessionAssumption
<1>4. WantedBy(m, Dev(s)) /\ \A t \in subscribed[s] : bound[s] # None /\ Wants(bound[s], Dev(s), t)
  <2>1. s \in Ends /\ DevOf(s) = Dev(s)
    BY Hearer, Owners
  <2>2. \A x \in At(s) : WantedBy(x, DevOf(s))
    BY <2>1 DEF Wanted
  <2> QED
    BY <1>2, <2>1, <2>2 DEF Wanted, SubscribersWant
<1>5. m.kind # "Acknowledgement" => bound'[s] = m.device
  BY <1>1, <1>2, Hearer DEF Hears
<1>6. m.kind = "Acknowledgement" => bound'[s] = bound[s] /\ subscribed'[s] = subscribed[s]
  BY <1>1 DEF Hears
<1>7. ASSUME peer[s] # None PROVE bound'[s] \in {None, DevOf(peer[s])}
  BY <1>2, <1>5, <1>6, <1>7, Hearer
<1>8. ASSUME NEW t \in subscribed'[s] PROVE bound'[s] # None /\ Wants(bound'[s], Dev(s), t)
  <2>1. CASE t \in subscribed[s]
    <3>1. bound[s] # None /\ Wants(bound[s], Dev(s), t)
      BY <1>4, <2>1
    <3>2. bound'[s] = bound[s]
      BY <1>1, <3>1 DEF Hears
    <3> QED
      BY <3>1, <3>2
  <2>2. CASE t \notin subscribed[s]
    <3>1. m.kind = "Subscribe" /\ t = m.type
      BY <1>1, <1>8, <2>2 DEF Hears
    <3> QED
      BY <1>3, <1>4, <1>5, <3>1 DEF WantedBy
  <2> QED
    BY <2>1, <2>2
<1> QED
  BY <1>1, <1>7, <1>8, SpeaksWanted

(* So is what is told.                                                     *)
LEMMA TellWanted ==
  ASSUME BaseInv, Wanted, ~Unsubscribes, NEW s \in Sessions, NEW said, Tells(s, said)
  PROVE  Wanted'
<1>1. Speaks(s, FALSE, said) /\ UNCHANGED <<bound, subscribed>>
  BY DEF Tells
<1>2. \A t \in subscribed'[s] : bound'[s] # None /\ Wants(bound'[s], Dev(s), t)
  BY <1>1 DEF Wanted, SubscribersWant
<1>3. peer[s] # None => bound'[s] \in {None, DevOf(peer[s])}
  BY <1>1, Hearer
<1> QED
  BY <1>1, <1>2, <1>3, SpeaksWanted

(* Connections start and end without a change of what is wanted.           *)
LEMMA LinksKeep ==
  ASSUME BaseInv, Links
  PROVE  /\ UNCHANGED <<version, remote, registry, notes>>
         /\ \A s \in Sessions : \/ subscribed'[s] = {}
                                \/ subscribed'[s] = subscribed[s] /\ bound'[s] = bound[s]
<1>1. ASSUME NEW s \in Sessions, Resets(s)
      PROVE  /\ UNCHANGED <<version, remote, registry, notes>>
             /\ \A x \in Sessions : \/ subscribed'[x] = {}
                                    \/ subscribed'[x] = subscribed[x] /\ bound'[x] = bound[x]
  BY <1>1 DEF Resets
<1>2. ASSUME NEW s \in Sessions, Starts(s)
      PROVE  /\ UNCHANGED <<version, remote, registry, notes>>
             /\ \A x \in Sessions : \/ subscribed'[x] = {}
                                    \/ subscribed'[x] = subscribed[x] /\ bound'[x] = bound[x]
  BY <1>2 DEF Starts, BaseInv, Typed, LinksTyped
<1>3. ASSUME NEW c \in Clients, Severs(c)
      PROVE  UNCHANGED <<version, remote, registry, notes, subscribed, bound>>
  BY <1>3 DEF Severs, core
<1>4. Clients \subseteq Sessions /\ Slots \subseteq Sessions
  BY EndsAre
<1> QED
  BY <1>1, <1>2, <1>3, <1>4 DEF Links, Connects, Accepts

(* And what is said then is wanted.                                        *)
LEMMA LinksWanted ==
  ASSUME BaseInv, Wanted, Links
  PROVE  Wanted'
<1>1. /\ UNCHANGED registry
      /\ \A s \in Sessions : \/ subscribed'[s] = {}
                             \/ subscribed'[s] = subscribed[s] /\ bound'[s] = bound[s]
  BY LinksKeep
<1>2. \A m, o : WantedBy(m, o) => WantedBy(m, o)'
  BY <1>1 DEF WantedBy, Wants
<1>3. SubscribersWant'
  <2>1. \A s \in Sessions : \A t \in subscribed'[s] : bound'[s] # None /\ Wants(bound'[s], Dev(s), t)
    BY <1>1 DEF Wanted, SubscribersWant
  <2> QED
    BY <1>1, <2>1 DEF SubscribersWant, Wants, Dev
<1>4. ASSUME NEW e \in Ends, NEW m \in At(e)' PROVE WantedBy(m, DevOf(e))
  <2>1. CASE m \in At(e)
    BY <2>1 DEF Wanted
  <2>2. CASE m.kind = "Disconnect"
    BY <2>2 DEF WantedBy
  <2>3. ASSUME NEW c \in Clients, e \in Slots, m \in At(Backlog(c)) PROVE WantedBy(m, DevOf(e))
    <3> DEFINE b == Backlog(c)
    <3>1. b \in Ends /\ DevOf(b) = Server /\ DevOf(e) = Server
      BY <2>3, EndsAre DEF DevOf
    <3> HIDE DEF b
    <3>2. \A x \in At(b) : WantedBy(x, DevOf(b))
      BY <3>1 DEF Wanted
    <3> QED
      BY <2>3, <3>1, <3>2 DEF b
  <2>4. ASSUME NEW s \in Sessions, m \in Said(Welcome(s)),
               s \in Clients => \E c \in Clients : e = Backlog(c),
               s \in Slots => e \in Clients
        PROVE  WantedBy(m, DevOf(e))
    <3>1. /\ m.kind = "Subscribe" /\ m.device = Dev(s)
          /\ \E x \in registry[Dev(s)] : Applies(s, x[1], Expected(s)) /\ m.type = x[2]
      BY <2>4, WelcomeSubscribes DEF BaseInv, Typed
    <3>2. Expected(s) \in {None, DevOf(e)}
      BY <2>4, EndsAre DEF Expected, DevOf
    <3>3. PICK x \in registry[Dev(s)] : Applies(s, x[1], Expected(s)) /\ m.type = x[2]
      BY <3>1
    <3> DEFINE b == Expected(s)
               o == DevOf(e)
    <3>4. b \in {None, o} /\ Applies(s, x[1], b) /\ Expected(s) \in {None, o}
      BY <3>2, <3>3
    <3> HIDE DEF b, o
    <3>5. Wants(Dev(s), o, x[2])
      BY <3>4, AppliesToHearer
    <3> QED
      BY <3>1, <3>3, <3>5 DEF o, WantedBy
  <2> QED
    BY <2>1, <2>2, <2>3, <2>4, LinksCarry
<1> QED
  BY <1>2, <1>3, <1>4 DEF Wanted

(* What is wanted stays so.                                                *)
LEMMA WantedStep == BaseInv /\ Wanted /\ ~Unsubscribes /\ [Next]_vars => Wanted'
<1> SUFFICES ASSUME BaseInv, Wanted, ~Unsubscribes, [Next]_vars PROVE Wanted'
  OBVIOUS
<1>1. Step
  BY Steps
<1>2. ASSUME NEW s \in Sessions, NEW said, Answers(s, said) \/ Tells(s, said) PROVE Wanted'
  BY <1>2, AnswerWanted, TellWanted
<1>3. ASSUME Links PROVE Wanted'
  BY <1>3, LinksWanted
<1>4. ASSUME \A d \in Devices : registry[d] \subseteq registry'[d], UNCHANGED links PROVE Wanted'
  BY <1>4, WantedGrows DEF links
<1>5. ASSUME NEW d, NEW t, Publishes(d, t) PROVE Wanted'
  BY <1>4, <1>5 DEF Publishes
<1>6. ASSUME NEW d \in Devices, NEW op \in {"Subscribe", "Unsubscribe"}, NEW x, Changes(d, op, x) PROVE Wanted'
  <2>1. op = "Subscribe"
    BY <1>6 DEF Changes
  <2>2. \A o \in Devices : registry[o] \subseteq registry'[o]
    BY <1>6, <2>1 DEF Changes
  <2> QED
    BY <1>4, <1>6, <2>2 DEF Changes
<1>7. UNCHANGED vars => Wanted'
  BY <1>4 DEF vars, core
<1>8. Clients \subseteq Sessions
  BY EndsAre
<1> QED
  BY <1>1, <1>2, <1>3, <1>5, <1>6, <1>7, <1>8 DEF Step, Links, Delivers, Passes, Requests

-----------------------------------------------------------------------------
(* Where one thread publishes on a device, versions stay in order.         *)

\* A publication is delivered before the next one is made.
InTime == IsFiniteSet(publishing) /\ \A p \in publishing : p.version = version[p.device][p.type]

\* The updates of each state are in the order of their versions.
Sorted(box) ==
  \A i, j \in DOMAIN box :
    (i < j /\ box[i].kind = "Update" /\ box[j].kind = "Update" /\ box[i].type = box[j].type)
      => box[i].version =< box[j].version

\* No update on its way on a connection is older than the copy it replaces,
Ahead ==
  \A s \in Sessions : peer[s] # None =>
    \A m \in At(s) : m.kind = "Update" => remote[Dev(s)][m.device][m.type] =< m.version

\* or than what is left of an earlier connection.
Behind ==
  \A s, x \in Sessions : (peer[s] = None /\ peer[x] # None /\ Dev(s) = Dev(x)) =>
    \A m \in At(s), n \in At(x) :
      (m.kind = "Update" /\ n.kind = "Update" /\ m.device = n.device /\ m.type = n.type)
        => m.version =< n.version

\* A client that waits has no subscriber to update.
Quiet == \A c \in Clients : \A m \in At(Backlog(c)) : m.kind # "Update"

Ordered == InTime /\ (\A e \in Ends : Sorted(inbox[e])) /\ Ahead /\ Behind /\ Quiet

(* The current versions are appended.                                      *)
LEMMA SortedAppend ==
  ASSUME NEW a \in Seq(Message), NEW b \in Seq(Message), NEW f, Sorted(a),
         \A m \in Said(a) : m.kind = "Update" => m.version =< f[m.type],
         \A m \in Said(b) : m.kind = "Update" => m.version = f[m.type]
  PROVE  Sorted(a \o b)
<1> DEFINE c == a \o b
<1>1. /\ Len(a) \in Nat /\ Len(b) \in Nat
      /\ DOMAIN a = 1..Len(a) /\ DOMAIN b = 1..Len(b) /\ DOMAIN c = 1..(Len(a) + Len(b))
      /\ \A i \in 1..(Len(a) + Len(b)) : c[i] = IF i =< Len(a) THEN a[i] ELSE b[i - Len(a)]
  BY ConcatProperties, LenProperties
<1>2. /\ \A i \in DOMAIN a : a[i].kind = "Update" => a[i].version \in Nat
      /\ \A i \in DOMAIN b : b[i].kind = "Update" => b[i].version \in Nat
  <2>1. \A m \in Message : m.kind = "Update" => m.version \in Nat
    BY MessageFields
  <2> QED
    BY <1>1, <2>1, ElementOfSeq
<1> HIDE DEF c
<1>3. ASSUME NEW i \in DOMAIN c, NEW j \in DOMAIN c, i < j, c[i].kind = "Update", c[j].kind = "Update",
             c[i].type = c[j].type
      PROVE  c[i].version =< c[j].version
  <2>1. CASE j =< Len(a)
    <3>1. i \in DOMAIN a /\ j \in DOMAIN a /\ c[i] = a[i] /\ c[j] = a[j]
      BY <1>1, <1>3, <2>1
    <3> QED
      BY <1>3, <3>1 DEF Sorted
  <2>2. CASE i =< Len(a) /\ ~(j =< Len(a))
    <3>1. i \in DOMAIN a /\ j - Len(a) \in DOMAIN b /\ c[i] = a[i] /\ c[j] = b[j - Len(a)]
      BY <1>1, <2>2
    <3>2. a[i].version =< f[a[i].type] /\ b[j - Len(a)].version = f[a[i].type]
      BY <1>3, <3>1 DEF Said
    <3> QED
      BY <3>1, <3>2
  <2>3. CASE ~(i =< Len(a)) /\ ~(j =< Len(a))
    <3>1. /\ i - Len(a) \in DOMAIN b /\ j - Len(a) \in DOMAIN b
          /\ c[i] = b[i - Len(a)] /\ c[j] = b[j - Len(a)]
      BY <1>1, <2>3
    <3>2. b[i - Len(a)].version = f[c[i].type] /\ b[j - Len(a)].version = f[c[j].type]
      BY <1>3, <3>1 DEF Said
    <3>3. b[i - Len(a)].version \in Nat
      BY <1>2, <1>3, <3>1
    <3> QED
      BY <1>3, <3>1, <3>2, <3>3
  <2> QED
    BY <1>1, <1>3, <2>1, <2>2, <2>3
<1> QED
  BY <1>3 DEF Sorted, c

(* The first message is taken: no update that follows it is older.         *)
LEMMA SortedTail ==
  ASSUME NEW a \in Seq(Message), a # <<>>, Sorted(a)
  PROVE  /\ Sorted(Tail(a))
         /\ \A m \in Said(Tail(a)) :
              (Head(a).kind = "Update" /\ m.kind = "Update" /\ Head(a).type = m.type)
                => Head(a).version =< m.version
<1> DEFINE c == Tail(a)
<1>1. /\ Len(a) \in Nat \ {0} /\ Len(c) = Len(a) - 1 /\ Len(c) \in Nat /\ Head(a) = a[1]
      /\ DOMAIN a = 1..Len(a) /\ DOMAIN c = 1..Len(c)
      /\ \A i \in 1..Len(c) : c[i] = a[i + 1]
  BY HeadTailProperties, LenProperties, EmptySeq
<1> HIDE DEF c
<1>2. \A i \in DOMAIN c : i \in Nat \ {0} /\ i + 1 \in DOMAIN a /\ c[i] = a[i + 1]
  BY <1>1
<1>3. ASSUME NEW i \in DOMAIN c, NEW j \in DOMAIN c, i < j, c[i].kind = "Update", c[j].kind = "Update",
             c[i].type = c[j].type
      PROVE  c[i].version =< c[j].version
  <2>1. i + 1 < j + 1
    BY <1>2, <1>3
  <2> QED
    BY <1>2, <1>3, <2>1 DEF Sorted
<1>4. ASSUME NEW m \in Said(c), Head(a).kind = "Update", m.kind = "Update", Head(a).type = m.type
      PROVE  Head(a).version =< m.version
  <2>1. PICK i \in DOMAIN c : m = c[i]
    BY DEF Said
  <2>2. 1 \in DOMAIN a /\ 1 < i + 1
    BY <1>1, <1>2
  <2> QED
    BY <1>1, <1>2, <1>4, <2>1, <2>2 DEF Sorted
<1> QED
  BY <1>3, <1>4 DEF Sorted, c

(* A first part is taken.                                                  *)
LEMMA SortedPart ==
  ASSUME NEW a \in Seq(Message), NEW c \in Seq(Message), FirstPartOf(c, a), Sorted(a)
  PROVE  Sorted(c)
<1>1. /\ Len(a) \in Nat /\ Len(c) \in Nat /\ DOMAIN a = 1..Len(a) /\ DOMAIN c = 1..Len(c)
  BY LenProperties
<1>2. \A i \in DOMAIN c : i \in DOMAIN a /\ c[i] = a[i]
  BY <1>1 DEF FirstPartOf
<1> QED
  BY <1>2 DEF Sorted

(* What is said is the current version.                                    *)
LEMMA SaidInTime ==
  ASSUME BaseInv, InTime, NEW s \in Sessions, NEW m, NEW b, NEW types, Fit(s, m, b, types), m.kind = "Update"
  PROVE  m.device = Dev(s) /\ m.version = version[m.device][m.type] /\ m.type \in types
BY DEF Fit, InTime, BaseInv, Published

(* Two connections of a device are to different devices.                   *)
LEMMA OneConnection ==
  ASSUME BaseInv, NEW s \in Sessions, NEW x \in Sessions, peer[s] # None, peer[x] # None, Dev(s) = Dev(x),
         NEW m \in At(s), NEW n \in At(x), m.kind = "Update", n.kind = "Update", m.device = n.device
  PROVE  s = x
<1>1. /\ s \in Clients \/ s \in Slots
      /\ x \in Clients \/ x \in Slots
      /\ Server \notin Clients /\ Typed /\ Idle /\ Paired
  BY SessionAssumption DEF Sessions, BaseInv, Joined
<1>2. m.device = DevOf(peer[s]) /\ n.device = DevOf(peer[x])
  BY Hearer
<1>3. CASE s \in Clients \/ x \in Clients
  BY <1>1, <1>3, Owners
<1>4. CASE s \in Slots /\ x \in Slots
  <2>1. peer[s] \in Clients /\ peer[x] \in Clients
    BY <1>1, <1>4 DEF Paired
  <2>2. peer[s] = peer[x]
    BY <1>2, <2>1 DEF DevOf
  <2> QED
    BY <1>1, <2>2, Opposite
<1> QED
  BY <1>1, <1>3, <1>4

(* Talking keeps the versions sorted.                                      *)
LEMMA SpeaksSorted ==
  ASSUME BaseInv, InTime, \A e \in Ends : Sorted(inbox[e]),
         NEW s \in Sessions, NEW hears \in BOOLEAN, NEW said, Speaks(s, hears, said), NEW e \in Ends
  PROVE  Sorted(inbox'[e])
<1>1. /\ said \in Seq(Message) /\ (hears => inbox[s] # <<>>)
      /\ inbox'[s] = IF hears THEN Tail(inbox[s]) ELSE inbox[s]
      /\ peer[s] # None => inbox'[peer[s]] = inbox[peer[s]] \o said
      /\ \A o \in Ends \ {s, peer[s]} : inbox'[o] = inbox[o]
      /\ \A m \in Said(said) : Fit(s, m, bound'[s], subscribed'[s])
  BY DEF Speaks, Talks
<1>2. inbox[e] \in Seq(Message) /\ Sorted(inbox[e]) /\ None \notin Ends
  BY SessionAssumption DEF BaseInv, Typed
<1>3. CASE e = s
  BY <1>1, <1>2, <1>3, SortedTail
<1>4. CASE e = peer[s]
  <2> DEFINE f == version[Dev(s)]
             a == inbox[e]
  <2>1. peer[s] # None /\ a \in Seq(Message) /\ Sorted(a) /\ inbox'[e] = a \o said
    BY <1>1, <1>2, <1>4
  <2>2. \A m \in At(e) : m.kind = "Update" => m.device = Dev(s)
    BY <1>4, <2>1, Hearer
  <2>3. \A m \in At(e) : m.kind = "Update" => m.version =< f[m.type]
    BY <2>2 DEF BaseInv, Published
  <2>4. \A m \in Said(a) : m.kind = "Update" => m.version =< f[m.type]
    BY <2>3 DEF Said, At
  <2>5. \A m \in Said(said) : m.kind = "Update" => m.version = f[m.type]
    BY <1>1, SaidInTime
  <2> HIDE DEF f, a
  <2>6. Sorted(a \o said)
    BY <1>1, <2>1, <2>4, <2>5, SortedAppend
  <2> QED
    BY <2>1, <2>6
<1>5. CASE e # s /\ e # peer[s]
  BY <1>1, <1>2, <1>5
<1> QED
  BY <1>3, <1>4, <1>5

(* What is new is current.                                                 *)
LEMMA SpeaksCurrent ==
  ASSUME BaseInv, InTime, NEW s \in Sessions, NEW hears \in BOOLEAN, NEW said, Speaks(s, hears, said),
         NEW e \in Ends, NEW m \in At(e)', m.kind = "Update", m \notin At(e)
  PROVE  /\ e = peer[s] /\ m.device = Dev(s) /\ m.version = version[m.device][m.type]
         /\ m.type \in subscribed'[s]
<1>1. Talks(s, hears, said) /\ Typed /\ \A x \in Said(said) : Fit(s, x, bound'[s], subscribed'[s])
  BY DEF Speaks, BaseInv
<1>2. \A o \in Ends : At(o)' \subseteq At(o) \cup (IF o = peer[s] THEN Said(said) ELSE {})
  BY <1>1, TalksAt
<1>3. e = peer[s] /\ m \in Said(said)
  BY <1>2
<1> DEFINE b == bound'[s]
           types == subscribed'[s]
<1>4. Fit(s, m, b, types)
  BY <1>1, <1>3
<1> HIDE DEF b, types
<1>5. m.device = Dev(s) /\ m.version = version[m.device][m.type] /\ m.type \in types
  BY <1>4, SaidInTime
<1> QED
  BY <1>3, <1>5 DEF types

(* Nothing left of an earlier connection is newer.                         *)
LEMMA SpeaksBehind ==
  ASSUME BaseInv, InTime, Behind, NEW s \in Sessions, NEW hears \in BOOLEAN, NEW said, Speaks(s, hears, said)
  PROVE  Behind'
<1>1. UNCHANGED peer /\ Sessions \subseteq Ends /\ None \notin Sessions /\ Paired
  BY EndsAre DEF Speaks, Talks, BaseInv, Joined
<1>2. ASSUME NEW a \in Sessions, NEW x \in Sessions, peer[a] = None, peer[x] # None, Dev(a) = Dev(x),
             NEW m \in At(a)', NEW n \in At(x)', m.kind = "Update", n.kind = "Update",
             m.device = n.device, m.type = n.type
      PROVE  m.version =< n.version
  <2>1. m \in At(a)
    <3>1. a # peer[s]
      BY <1>1, <1>2, Owners DEF Paired
    <3> QED
      BY <1>1, <1>2, <3>1, SpeaksCurrent
  <2>2. CASE n \in At(x)
    BY <1>2, <2>1, <2>2 DEF Behind
  <2>3. CASE n \notin At(x)
    <3>1. n.version = version[n.device][n.type]
      BY <1>1, <1>2, <2>3, SpeaksCurrent
    <3>2. m.version =< version[m.device][m.type]
      BY <1>1, <1>2, <2>1 DEF BaseInv, Published
    <3> QED
      BY <1>2, <3>1, <3>2
  <2> QED
    BY <2>2, <2>3
<1> QED
  BY <1>1, <1>2 DEF Behind, Dev

(* A client that waits keeps quiet.                                        *)
LEMMA SpeaksQuiet ==
  ASSUME BaseInv, BaseInv', InTime, Quiet,
         NEW s \in Sessions, NEW hears \in BOOLEAN, NEW said, Speaks(s, hears, said)
  PROVE  Quiet'
<1>1. UNCHANGED peer /\ Typed /\ Idle /\ Paired
  BY DEF Speaks, Talks, BaseInv, Joined
<1>2. ASSUME NEW c \in Clients, NEW m \in At(Backlog(c))', m.kind = "Update" PROVE FALSE
  <2> DEFINE b == Backlog(c)
  <2>1. b \in Ends /\ b \notin Sessions /\ m \in At(b)' /\ m \notin At(b) /\ b # None
    BY <1>2, EndsAre DEF Quiet
  <2>2. b = peer[s] => s \in Clients /\ peer[s] = Backlog(s)
    BY <1>1, <2>1, Opposite
  <2>3. peer'[s] = Backlog(s) /\ s \in Clients => subscribed'[s] = {}
    BY DEF BaseInv, Joined, Waiting
  <2> HIDE DEF b
  <2>4. b = peer[s] /\ m.type \in subscribed'[s]
    BY <1>2, <2>1, SpeaksCurrent
  <2> QED
    BY <1>1, <2>2, <2>3, <2>4
<1> QED
  BY <1>2 DEF Quiet, Backlog

(* A copy is replaced by what is handled, or stays.                        *)
LEMMA AnswerCopies ==
  ASSUME BaseInv, NEW s \in Sessions, NEW said, Answers(s, said),
         NEW d \in Devices, NEW o \in Devices, NEW t \in Types
  PROVE  \/ remote'[d][o][t] = remote[d][o][t]
         \/ \E h \in At(s) : /\ h = Head(inbox[s]) /\ h.kind = "Update" /\ d = Dev(s) /\ o = h.device /\ t = h.type
                             /\ remote'[d][o][t] = h.version
<1> DEFINE h == Head(inbox[s])
<1>1. Hears(s, said) /\ Typed /\ Talks(s, TRUE, said)
  BY DEF Answers, Speaks, BaseInv
<1>2. h \in At(s) /\ h \in Message
  BY <1>1, TalksAt, ReceivedMessage DEF Talks
<1>3. \/ remote' = remote
      \/ h.kind = "Update" /\ remote' = [remote EXCEPT ![Dev(s)][h.device][h.type] = h.version]
  BY <1>1 DEF Hears
<1>4. \E S : remote \in [Devices -> [Devices -> [Types -> S]]]
  BY CopyTable
<1>5. h.kind = "Update" => h.device \in Devices /\ h.type \in Types
  BY <1>2, MessageFields
<1>6. Dev(s) \in Devices
  BY Owners
<1> HIDE DEF h
<1>7. CASE h.kind = "Update" /\ remote' = [remote EXCEPT ![Dev(s)][h.device][h.type] = h.version]
  <2>1. \A x, y \in Devices : \A z \in Types :
          remote'[x][y][z] = IF x = Dev(s) /\ y = h.device /\ z = h.type THEN h.version ELSE remote[x][y][z]
    BY <1>4, <1>5, <1>6, <1>7
  <2>2. PICK m : m = h
    OBVIOUS
  <2>3. m \in At(s) /\ m = Head(inbox[s]) /\ m.kind = "Update"
    BY <1>2, <1>7, <2>2 DEF h
  <2>4. remote'[d][o][t] = IF d = Dev(s) /\ o = m.device /\ t = m.type THEN m.version ELSE remote[d][o][t]
    BY <2>1, <2>2
  <2> QED
    BY <2>3, <2>4, Zenon
<1> QED
  BY <1>3, <1>7

(* Handling a message leaves no older update on its way on a connection.   *)
LEMMA AnswerAhead ==
  ASSUME BaseInv, BaseInv', Ordered, NEW s \in Sessions, NEW said, Answers(s, said)
  PROVE  Ahead'
<1>1. /\ UNCHANGED <<peer, version>> /\ Sessions \subseteq Ends /\ Speaks(s, TRUE, said) /\ Typed
      /\ InTime /\ Ahead /\ Behind /\ \A e \in Ends : Sorted(inbox[e])
  BY EndsAre DEF Answers, Speaks, Talks, BaseInv, Ordered
<1>2. /\ inbox[s] # <<>> /\ inbox[s] \in Seq(Message) /\ inbox'[s] = Tail(inbox[s]) /\ s \in Ends
  BY <1>1 DEF Speaks, Talks, Typed
<1>3. ASSUME NEW x \in Sessions, peer[x] # None, NEW m \in At(x)', m.kind = "Update"
      PROVE  remote'[Dev(x)][m.device][m.type] =< m.version
  <2>1. m \in Message
    BY <1>1, <1>3, ElementOfSeq DEF At, BaseInv, Typed
  <2>2. m.device \in Devices /\ m.type \in Types /\ Dev(x) \in Devices
    BY <1>3, <2>1, MessageFields, Owners
  <2>3. remote'[Dev(x)][m.device][m.type] =< version'[m.device][m.type]
    BY <2>2 DEF BaseInv, Published
  <2>4. CASE m \notin At(x)
    <3>1. m.version = version[m.device][m.type]
      BY <1>1, <1>3, <2>4, SpeaksCurrent
    <3> QED
      BY <1>1, <2>3, <3>1
  <2>5. CASE m \in At(x)
    <3>1. remote[Dev(x)][m.device][m.type] =< m.version
      BY <1>1, <1>3, <2>5 DEF Ahead
    <3>2. CASE remote'[Dev(x)][m.device][m.type] = remote[Dev(x)][m.device][m.type]
      BY <3>1, <3>2
    <3>3. ASSUME NEW h \in At(s), h = Head(inbox[s]), h.kind = "Update", Dev(x) = Dev(s),
                 m.device = h.device, m.type = h.type, remote'[Dev(x)][m.device][m.type] = h.version
          PROVE  h.version =< m.version
      <4>1. CASE x = s
        <5> DEFINE a == inbox[s]
        <5>1. a \in Seq(Message) /\ a # <<>> /\ Sorted(a) /\ m \in Said(Tail(a)) /\ h = Head(a)
          BY <1>1, <1>2, <1>3, <3>3, <4>1 DEF At, Said
        <5> HIDE DEF a
        <5> QED
          BY <1>3, <3>3, <5>1, SortedTail
      <4>2. CASE x # s /\ peer[s] = None
        BY <1>1, <1>3, <2>5, <3>3, <4>2 DEF Behind
      <4>3. CASE x # s /\ peer[s] # None
        BY <1>3, <2>5, <3>3, <4>3, OneConnection
      <4> QED
        BY <4>1, <4>2, <4>3
    <3> QED
      BY <1>1, <2>2, <3>2, <3>3, AnswerCopies
  <2> QED
    BY <2>4, <2>5
<1> QED
  BY <1>1, <1>3 DEF Ahead, Dev

(* Nor does what is told.                                                  *)
LEMMA TellAhead ==
  ASSUME BaseInv, Ordered, NEW s \in Sessions, NEW said, Tells(s, said)
  PROVE  Ahead'
<1>1. /\ UNCHANGED <<peer, remote>> /\ Sessions \subseteq Ends /\ Speaks(s, FALSE, said) /\ InTime /\ Ahead
      /\ inbox' \in [Ends -> Seq(Message)]
  BY EndsAre DEF Tells, Speaks, Talks, Ordered
<1>2. ASSUME NEW x \in Sessions, peer[x] # None, NEW m \in At(x)', m.kind = "Update"
      PROVE  remote[Dev(x)][m.device][m.type] =< m.version
  <2>1. CASE m \in At(x)
    BY <1>1, <1>2, <2>1 DEF Ahead
  <2>2. CASE m \notin At(x)
    <3>1. m.version = version[m.device][m.type]
      BY <1>1, <1>2, <2>2, SpeaksCurrent
    <3>2. m \in Message
      BY <1>1, <1>2, ElementOfSeq DEF At
    <3>3. m.device \in Devices /\ m.type \in Types /\ Dev(x) \in Devices
      BY <1>2, <3>2, MessageFields, Owners
    <3> QED
      BY <3>1, <3>3 DEF BaseInv, Published
  <2> QED
    BY <2>1, <2>2
<1> QED
  BY <1>1, <1>2 DEF Ahead, Dev

(* Where connections start and end the order remains.                      *)
LEMMA LinksOrdered ==
  ASSUME BaseInv, Ordered, Links
  PROVE  Ordered'
<1>1. UNCHANGED <<version, remote, notes>> /\ Sessions \subseteq Ends /\ InTime /\ Ahead /\ Behind /\ Quiet
  BY LinksKeep, EndsAre DEF Ordered
<1>2. InTime'
  BY <1>1 DEF InTime, notes
<1>3. ASSUME NEW e \in Ends PROVE Sorted(inbox'[e])
  <2>1. Sorted(inbox[e]) /\ inbox[e] \in Seq(Message)
    BY DEF Ordered, BaseInv, Typed
  <2>2. Sorted(<<>>)
    BY DEF Sorted
  <2>3. \A x \in Sessions : Sorted(Welcome(x))
    <3> TAKE x \in Sessions
    <3> DEFINE q == Welcome(x)
    <3>1. \A m \in Said(q) : m.kind = "Subscribe"
      BY WelcomeSubscribes DEF BaseInv, Typed
    <3> HIDE DEF q
    <3>2. Sorted(q)
      BY <3>1 DEF Sorted, Said
    <3> QED
      BY <3>2 DEF q
  <2>4. ASSUME NEW s \in Sessions, Resets(s) PROVE Sorted(inbox'[e])
    <3>1. CASE e = s
      BY <2>2, <2>4, <3>1 DEF Resets
    <3>2. CASE e = peer[s]
      <4>0. \A o \in Ends : o = peer[s] =>
              \E goodbye \in Seq(Message) : /\ inbox'[o] = inbox[o] \o goodbye
                                            /\ \A m \in Said(goodbye) : m.kind = "Disconnect" /\ m.device = Dev(s)
        BY <2>4, Zenon DEF Resets
      <4>1. PICK goodbye \in Seq(Message) : /\ inbox'[e] = inbox[e] \o goodbye
                                            /\ \A m \in Said(goodbye) : m.kind = "Disconnect"
        BY <3>2, <4>0
      <4> DEFINE a == inbox[e]
      <4>2. a \in Seq(Message) /\ Sorted(a)
        BY <2>1
      <4>3. PICK f : \A m \in At(e) : m.kind = "Update" => m.version =< f[m.type]
        <5>1. PICK x \in Devices : \A m \in At(e) : m.kind = "Update" => m.device = x
          <6>1. e \in Sessions /\ peer[s] # None
            BY <2>4, <3>2, SessionAssumption DEF Resets
          <6>2. \A m \in At(e) : m.kind = "Update" => m.device = Dev(s)
            BY <3>2, <6>1, Hearer
          <6> QED
            BY <6>2, Owners
        <5>2. \A m \in At(e) : m.kind = "Update" => m.version =< version[x][m.type]
          BY <5>1 DEF BaseInv, Published
        <5> QED
          BY <5>2
      <4>4. \A m \in Said(a) : m.kind = "Update" => m.version =< f[m.type]
        BY <4>3 DEF At, Said
      <4> HIDE DEF a
      <4>5. Sorted(a \o goodbye)
        BY <4>1, <4>2, <4>4, SortedAppend
      <4> QED
        BY <4>1, <4>5 DEF a
    <3>3. CASE e # s /\ e # peer[s]
      BY <2>1, <2>4, <3>3 DEF Resets
    <3> QED
      BY <3>1, <3>2, <3>3
  <2>5. ASSUME NEW c \in Clients, Severs(c) PROVE Sorted(inbox'[e])
    <3>1. inbox'[e] \in Seq(Message) /\ FirstPartOf(inbox'[e], inbox[e])
      BY <2>5 DEF Severs
    <3> QED
      BY <2>1, <3>1, SortedPart
  <2>6. ASSUME NEW c \in Clients, Connects(c) PROVE Sorted(inbox'[e])
    <3>1. c \in Sessions
      BY EndsAre
    <3> QED
      BY <2>1, <2>3, <2>6, <3>1 DEF Connects
  <2>7. ASSUME NEW c \in Clients, NEW k \in Slots, Accepts(k, c) PROVE Sorted(inbox'[e])
    <3>1. k \in Sessions /\ Sorted(inbox[Backlog(c)])
      BY EndsAre DEF Ordered
    <3> QED
      BY <2>1, <2>2, <2>3, <2>7, <3>1 DEF Accepts
  <2> QED
    BY <2>4, <2>5, <2>6, <2>7 DEF Links
<1>4. ASSUME NEW e \in Ends, NEW m \in At(e)', m.kind = "Update" PROVE m \in At(e)
  <2>1. \A c \in Clients : m \notin At(Backlog(c))
    BY <1>1, <1>4 DEF Quiet
  <2>2. \A x \in Sessions : m \notin Said(Welcome(x))
    BY <1>4, WelcomeSubscribes DEF BaseInv, Typed
  <2> QED
    BY <1>4, <2>1, <2>2, LinksCarry
<1>5. ASSUME NEW x \in Sessions, peer'[x] # None, NEW m \in At(x), m.kind = "Update" PROVE peer[x] # None
  <2>1. inbox[x] # <<>>
    BY <1>5 DEF At
  <2>2. Greets(x) \/ Enters(x) \/ Stays(x)
    BY <1>5, LinksMove
  <2> QED
    BY <2>1, <2>2, EndsAre DEF Greets, Enters, Stays
<1>6. Ahead'
  <2>1. ASSUME NEW x \in Sessions, peer'[x] # None, NEW m \in At(x)', m.kind = "Update"
        PROVE  remote[Dev(x)][m.device][m.type] =< m.version
    BY <1>1, <1>4, <1>5, <2>1 DEF Ahead
  <2> QED
    BY <1>1, <2>1 DEF Ahead, Dev
<1>7. Behind'
  <2>1. ASSUME NEW s \in Sessions, NEW x \in Sessions, peer'[s] = None, peer'[x] # None, Dev(s) = Dev(x),
               NEW m \in At(s)', NEW n \in At(x)', m.kind = "Update", n.kind = "Update",
               m.device = n.device, m.type = n.type
        PROVE  m.version =< n.version
    <3>1. m \in At(s) /\ n \in At(x) /\ peer[x] # None
      BY <1>1, <1>4, <1>5, <2>1
    <3>2. peer[s] = None
      BY <2>1, <3>1, OneConnection
    <3> QED
      BY <1>1, <2>1, <3>1, <3>2 DEF Behind
  <2> QED
    BY <2>1 DEF Behind, Dev
<1>8. Quiet'
  <2>1. \A c \in Clients : Backlog(c) \in Ends
    BY EndsAre
  <2>2. ASSUME NEW c \in Clients, NEW e, e = Backlog(c), NEW m \in At(e)' PROVE m.kind # "Update"
    BY <1>1, <1>4, <2>1, <2>2 DEF Quiet
  <2> QED
    BY <2>2 DEF Quiet, Backlog
<1> QED
  BY <1>2, <1>3, <1>6, <1>7, <1>8 DEF Ordered

(* So does a publication: the ones before it are delivered.                *)
LEMMA PublishInTime ==
  ASSUME BaseInv, InTime, Threads =< 1, NEW d \in Devices, NEW t \in Types, Publishes(d, t)
  PROVE  InTime'
<1> DEFINE own == {p \in publishing : p.device = d}
           v == version[d][t] + 1
           new == [device |-> d, type |-> t, version |-> v, todo |-> SessionsOf(d)]
<1>1. /\ Cardinality(own) < Threads /\ v \in 1..MaxVersion
      /\ \A o \in Devices, z \in Types : version'[o][z] = IF o = d /\ z = t THEN v ELSE version[o][z]
      /\ \A p \in publishing' : \/ p \in publishing
                                \/ /\ p \in Publication /\ p.device = d /\ p.type = t
                                   /\ p.version = v /\ p.todo = SessionsOf(d)
  BY DEF Publishes
<1>2. own = {}
  <2>1. IsFiniteSet(own)
    BY FS_Subset DEF InTime
  <2>2. Cardinality(own) \in Nat /\ (Cardinality(own) = 0 => own = {})
    BY <2>1, FS_CardinalityType, FS_EmptySet
  <2>3. Threads \in Nat
    BY SessionAssumption
  <2> HIDE DEF own
  <2> QED
    BY <1>1, <2>2, <2>3
<1>3. ASSUME NEW p \in publishing' PROVE p \in publishing \cup {new} /\ p.version = version'[p.device][p.type]
  <2>1. CASE p \in publishing
    <3>1. p.device \in Devices /\ p.type \in Types /\ p.device # d
      BY <1>2, <2>1 DEF BaseInv, Typed, NotesTyped, Publication
    <3> HIDE DEF v, new
    <3> QED
      BY <1>1, <2>1, <3>1 DEF InTime
  <2>2. CASE p \notin publishing
    <3>1. /\ p \in Publication /\ p.device = d /\ p.type = t /\ p.version = v /\ p.todo = SessionsOf(d)
      BY <1>1, <1>3, <2>2
    <3>2. p = [device |-> p.device, type |-> p.type, version |-> p.version, todo |-> p.todo]
      BY <3>1 DEF Publication
    <3> HIDE DEF v
    <3>3. p = new
      BY <3>1, <3>2
    <3> HIDE DEF new
    <3> QED
      BY <1>1, <3>1, <3>3
  <2> QED
    BY <2>1, <2>2
<1> HIDE DEF new
<1>4. IsFiniteSet(publishing \cup {new})
  BY FS_AddElement DEF InTime
<1>5. IsFiniteSet(publishing')
  BY <1>3, <1>4, FS_Subset
<1> QED
  BY <1>3, <1>5 DEF InTime

(* And a delivery.                                                         *)
LEMMA DeliverInTime ==
  ASSUME BaseInv, InTime, NEW p \in publishing, NEW s \in p.todo, NEW said, Delivers(p, s, said)
  PROVE  InTime'
<1>1. UNCHANGED version /\ publishing' = (publishing \ {p}) \cup Without(p, s) /\ Typed
  BY DEF Delivers, Tells, Speaks, BaseInv
<1>2. \A n \in publishing' : \E q \in publishing :
        n.device = q.device /\ n.type = q.type /\ n.version = q.version /\ n.todo \subseteq q.todo
  BY <1>1, PublicationLeft
<1>3. IsFiniteSet(Without(p, s))
  <2>1. Without(p, s) = {} \/ \E n : Without(p, s) = {n}
    BY Zenon DEF Without
  <2> QED
    BY <2>1, FS_EmptySet, FS_Singleton
<1>4. IsFiniteSet(publishing \ {p})
  BY FS_Subset DEF InTime
<1>5. IsFiniteSet(publishing')
  BY <1>1, <1>3, <1>4, FS_Union
<1> QED
  BY <1>1, <1>2, <1>5 DEF InTime

(* Every step keeps the order.                                             *)
LEMMA OrderedStep == BaseInv /\ BaseInv' /\ Ordered /\ Threads =< 1 /\ [Next]_vars => Ordered'
<1> SUFFICES ASSUME BaseInv, BaseInv', Ordered, Threads =< 1, [Next]_vars PROVE Ordered'
  OBVIOUS
<1>1. Step /\ InTime /\ Ahead /\ Behind /\ Quiet
  BY Steps DEF Ordered
<1>2. ASSUME NEW s \in Sessions, NEW hears \in BOOLEAN, NEW said, Speaks(s, hears, said), InTime', Ahead'
      PROVE  Ordered'
  <2>1. \A e \in Ends : Sorted(inbox'[e])
    BY <1>2, SpeaksSorted DEF Ordered
  <2>2. Behind' /\ Quiet'
    BY <1>1, <1>2, SpeaksBehind, SpeaksQuiet
  <2> QED
    BY <1>2, <2>1, <2>2 DEF Ordered
<1>3. ASSUME NEW s \in Sessions, NEW said, Answers(s, said) PROVE Ordered'
  <2>1. InTime'
    BY <1>1, <1>3 DEF InTime, Answers, Speaks, Hears, notes
  <2>2. Ahead' /\ Speaks(s, TRUE, said)
    BY <1>3, AnswerAhead DEF Answers
  <2> QED
    BY <1>2, <2>1, <2>2
<1>4. ASSUME NEW s \in Sessions, NEW said, Tells(s, said), InTime' PROVE Ordered'
  BY <1>2, <1>4, TellAhead DEF Tells
<1>5. ASSUME NEW s \in Sessions, NEW said, Tells(s, said), UNCHANGED publishing PROVE Ordered'
  BY <1>1, <1>4, <1>5 DEF InTime, Tells, Speaks
<1>6. ASSUME NEW p \in publishing, NEW s \in p.todo, NEW said, Delivers(p, s, said) PROVE Ordered'
  BY <1>1, <1>4, <1>6, DeliverInTime DEF Delivers
<1>7. ASSUME Links PROVE Ordered'
  BY <1>7, LinksOrdered
<1>8. ASSUME UNCHANGED <<remote, links>>, InTime' PROVE Ordered'
  BY <1>8 DEF Ordered, Ahead, Behind, Quiet, At, Dev, Backlog, links
<1>9. ASSUME NEW d \in Devices, NEW t \in Types, Publishes(d, t) PROVE Ordered'
  BY <1>1, <1>8, <1>9, PublishInTime DEF Publishes
<1>10. ASSUME NEW d, NEW op, NEW x, Changes(d, op, x) PROVE Ordered'
  BY <1>1, <1>8, <1>10 DEF Changes, InTime
<1>11. UNCHANGED vars => Ordered'
  BY <1>1, <1>8 DEF vars, core, notes, InTime
<1>12. Clients \subseteq Sessions
  BY EndsAre
<1> QED
  BY <1>1, <1>3, <1>5, <1>6, <1>7, <1>9, <1>10, <1>11, <1>12 DEF Step, Links, Passes, Requests, notes

(* An update that is wanted and not older than its copy is not refused.    *)
LEMMA HealthyStep ==
  BaseInv /\ Wanted /\ Ordered /\ HealthyConnectionNotReset /\ [Next]_vars => HealthyConnectionNotReset'
<1> SUFFICES ASSUME BaseInv, Wanted, Ordered, HealthyConnectionNotReset, [Next]_vars,
                    NEW x \in Sessions, rejected'[x]
             PROVE  peer'[x] = None
  BY DEF HealthyConnectionNotReset
<1>1. Step /\ (rejected[x] => peer[x] = None)
  BY Steps DEF HealthyConnectionNotReset
<1>2. ASSUME NEW s \in Sessions, NEW said, Answers(s, said) PROVE peer'[x] = None
  <2>1. /\ UNCHANGED peer /\ Hears(s, said) /\ Typed /\ Talks(s, TRUE, said) /\ ready[s]
        /\ \A y \in Sessions \ {s} : rejected'[y] = rejected[y]
    BY <1>2 DEF Answers, Speaks, Talks, BaseInv, Hears
  <2>2. CASE rejected[x]
    BY <1>1, <2>1, <2>2
  <2>3. CASE ~rejected[x]
    <3> DEFINE m == Head(inbox[s])
               to == IF bound[s] # None THEN bound[s] ELSE m.device
    <3>1. x = s
      BY <2>1, <2>3
    <3>2. /\ m.kind = "Update"
          /\ ~Wants(Dev(s), to, m.type) \/ ~(m.version >= remote[Dev(s)][m.device][m.type])
      BY <2>1, <2>3, <3>1 DEF Hears
    <3>3. m \in At(s) /\ m \in Message
      BY <2>1, TalksAt, ReceivedMessage DEF Talks
    <3>4. m.device \in Devices /\ m.type \in Types /\ m.version \in 1..MaxVersion
      BY <3>2, <3>3, MessageFields
    <3>5. to = m.device
      BY <2>1, <3>2, <3>3, Hearer
    <3>6. Wants(Dev(s), m.device, m.type)
      <4>1. s \in Ends /\ DevOf(s) = Dev(s)
        BY Hearer, Owners
      <4>2. \A y \in At(s) : WantedBy(y, DevOf(s))
        BY <4>1 DEF Wanted
      <4> QED
        BY <3>2, <3>3, <4>1, <4>2 DEF WantedBy
    <3>7. remote[Dev(s)][m.device][m.type] \in 0..MaxVersion
      BY <3>4, CopyTable, Owners
    <3>8. ~(remote[Dev(s)][m.device][m.type] =< m.version)
      <4> HIDE DEF m, to
      <4> QED
        BY <3>2, <3>4, <3>5, <3>6, <3>7
    <3> HIDE DEF m, to
    <3> QED
      BY <2>1, <3>1, <3>2, <3>3, <3>8 DEF Ordered, Ahead
  <2> QED
    BY <2>2, <2>3
<1>3. ASSUME NEW s \in Sessions, NEW said, Tells(s, said) PROVE peer'[x] = None
  BY <1>1, <1>3 DEF Tells, Speaks, Talks
<1>4. ASSUME Links PROVE peer'[x] = None
  <2> SUFFICES ASSUME peer'[x] # None PROVE FALSE
    OBVIOUS
  <2>1. Greets(x) \/ Enters(x) \/ Stays(x)
    BY <1>4, LinksMove
  <2> QED
    BY <1>1, <2>1 DEF Greets, Enters, Stays
<1>5. UNCHANGED links => peer'[x] = None
  BY <1>1 DEF links
<1>6. ASSUME NEW d, NEW t, Publishes(d, t) PROVE peer'[x] = None
  BY <1>5, <1>6 DEF Publishes
<1>7. ASSUME NEW d, NEW op, NEW y, Changes(d, op, y) PROVE peer'[x] = None
  BY <1>5, <1>7 DEF Changes
<1>8. UNCHANGED vars => peer'[x] = None
  BY <1>5 DEF vars
<1>9. Clients \subseteq Sessions
  BY EndsAre
<1> QED
  BY <1>1, <1>2, <1>3, <1>4, <1>6, <1>7, <1>8, <1>9 DEF Step, Links, Delivers, Passes, Requests

(* Where applications keep their subscriptions and one thread publishes on *)
(* a device, no session has a healthy connection reset: what reaches it is *)
(* wanted, and never older than the copy it replaces.                      *)
THEOREM HealthyConnections ==
  ASSUME ~Unsubscribes, Threads =< 1
  PROVE  Spec => []HealthyConnectionNotReset
<1>1. Init => Wanted
  BY DEF Init, Wanted, SubscribersWant, At
<1>2. Init => Ordered
  <2> SUFFICES ASSUME Init PROVE Ordered
    OBVIOUS
  <2>1. InTime
    BY FS_EmptySet DEF Init, InTime
  <2>2. \A e \in Ends : inbox[e] = <<>>
    BY DEF Init
  <2>3. \A e \in Ends : Sorted(inbox[e]) /\ At(e) = {}
    BY <2>2 DEF Sorted, At
  <2>4. Sessions \subseteq Ends /\ \A c \in Clients : Backlog(c) \in Ends
    BY EndsAre
  <2>5. Ahead /\ Behind /\ Quiet
    BY <2>3, <2>4 DEF Ahead, Behind, Quiet
  <2> QED
    BY <2>1, <2>3, <2>5 DEF Ordered
<1>3. Init => HealthyConnectionNotReset
  BY DEF Init, HealthyConnectionNotReset
<1>4. BaseInv /\ Wanted /\ [Next]_vars => Wanted'
  BY WantedStep
<1>5. BaseInv /\ BaseInv' /\ Ordered /\ [Next]_vars => Ordered'
  BY OrderedStep
<1>6. BaseInv /\ Wanted /\ Ordered /\ HealthyConnectionNotReset /\ [Next]_vars => HealthyConnectionNotReset'
  BY HealthyStep
<1> QED
  BY <1>1, <1>2, <1>3, <1>4, <1>5, <1>6, Invariance, PTL DEF Spec


-----------------------------------------------------------------------------
(* Subscriptions are propagated.                                           *)

\* Message m changes the subscription to t.
Asks(m, t) == m.kind \in {"Subscribe", "Unsubscribe"} /\ m.type = t

\* A session that is subscribed to types will be to t when it has handled box.
Hearing(box, types, t) ==
  \/ \E i \in DOMAIN box :
       /\ Asks(box[i], t) /\ box[i].kind = "Subscribe"
       /\ \A j \in DOMAIN box : j > i => ~(Asks(box[j], t) /\ box[j].kind = "Unsubscribe")
  \/ t \in types /\ \A j \in DOMAIN box : ~(Asks(box[j], t) /\ box[j].kind = "Unsubscribe")

\* The types the registry of device d asks for.
AskedBy(d) == {x[2] : x \in registry[d]}

\* Session s still has to pass on a change for t.
Pending(s, t) == \E n \in changing[Dev(s)] : s \in n.todo /\ n.type = t

\* The subscriptions of the peer at end e.
SubscribersAt(e) == IF e \in Sessions THEN subscribed[e] ELSE {}

\* The peer of s will be subscribed to t if the registry asks for it.
Agrees(s, t) == Hearing(inbox[peer[s]], SubscribersAt(peer[s]), t) <=> t \in AskedBy(Dev(s))

Elsewhere == \A d \in Devices : \A n \in changing[d] : n.scope # d

Propagates ==
  /\ Elsewhere
  /\ \A s \in Sessions : peer[s] # None => \A t \in Types : Pending(s, t) \/ Agrees(s, t)

\* Applications subscribe with one scope, which is of every device or the one
\* that clients are configured to expect.
Uniform == Scopes \subseteq {AnyDevice} \/ (ExpectsServer /\ Scopes \subseteq {Server})

(* More is said, which asks for t if and only if w.                        *)
LEMMA HearingAppend ==
  ASSUME NEW a \in Seq(Message), NEW b \in Seq(Message), NEW types, NEW t, NEW w \in BOOLEAN,
         \A m \in Said(b) : Asks(m, t) => (m.kind = "Subscribe" <=> w),
         (\E m \in Said(b) : Asks(m, t)) \/ (Hearing(a, types, t) <=> w)
  PROVE  Hearing(a \o b, types, t) <=> w
<1> DEFINE c == a \o b
<1>1. /\ Len(a) \in Nat /\ Len(b) \in Nat
      /\ DOMAIN a = 1..Len(a) /\ DOMAIN b = 1..Len(b) /\ DOMAIN c = 1..(Len(a) + Len(b))
      /\ \A i \in 1..(Len(a) + Len(b)) : c[i] = IF i =< Len(a) THEN a[i] ELSE b[i - Len(a)]
  BY ConcatProperties, LenProperties
<1> HIDE DEF c
<1>2. /\ \A i \in DOMAIN a : i \in DOMAIN c /\ c[i] = a[i]
      /\ \A i \in DOMAIN b : i + Len(a) \in DOMAIN c /\ c[i + Len(a)] = b[i]
      /\ \A i \in DOMAIN c : i \in DOMAIN a \/ (i - Len(a) \in DOMAIN b /\ c[i] = b[i - Len(a)] /\ i > Len(a))
  BY <1>1
<1>3. \A i \in DOMAIN b : Asks(b[i], t) => (b[i].kind = "Subscribe" <=> w)
  BY DEF Said
<1>4. \A m : Asks(m, t) => (m.kind = "Unsubscribe" <=> m.kind # "Subscribe")
  BY DEF Asks
<1>5. CASE \E m \in Said(b) : Asks(m, t)
  <2>1. PICK n \in DOMAIN b : Asks(b[n], t)
    BY <1>5 DEF Said
  <2>2. n + Len(a) \in DOMAIN c /\ Asks(c[n + Len(a)], t) /\ n \in Nat
        /\ (c[n + Len(a)].kind = "Subscribe" <=> w)
    BY <1>1, <1>2, <1>3, <2>1
  <2>3. CASE w
    <3>1. \A j \in DOMAIN c : j > n + Len(a) => ~(Asks(c[j], t) /\ c[j].kind = "Unsubscribe")
      <4> TAKE j \in DOMAIN c
      <4> HAVE j > n + Len(a)
      <4>1. j - Len(a) \in DOMAIN b /\ c[j] = b[j - Len(a)]
        BY <1>1, <1>2, <2>2
      <4> QED
        BY <1>3, <1>4, <2>3, <4>1
    <3> QED
      BY <2>2, <2>3, <3>1 DEF Hearing, c
  <2>4. CASE ~w
    <3>1. c[n + Len(a)].kind = "Unsubscribe"
      BY <1>4, <2>2, <2>4
    <3>2. ASSUME NEW i \in DOMAIN c, Asks(c[i], t), c[i].kind = "Subscribe"
          PROVE  n + Len(a) > i
      <4>1. i \in DOMAIN a
        BY <1>2, <1>3, <2>4, <3>2
      <4> QED
        BY <1>1, <2>1, <4>1
    <3> QED
      BY <2>2, <2>4, <3>1, <3>2 DEF Hearing, c
  <2> QED
    BY <2>3, <2>4
<1>6. CASE ~\E m \in Said(b) : Asks(m, t)
  <2>1. \A i \in DOMAIN b : ~Asks(b[i], t)
    BY <1>6 DEF Said
  <2>2. \A i \in DOMAIN c : Asks(c[i], t) => i \in DOMAIN a /\ c[i] = a[i]
    BY <1>2, <2>1
  <2>3. Hearing(c, types, t) <=> Hearing(a, types, t)
    BY <1>2, <2>2 DEF Hearing
  <2> QED
    BY <1>6, <2>3 DEF c
<1> QED
  BY <1>5, <1>6

(* The first message is handled.                                           *)
LEMMA HearingTail ==
  ASSUME NEW a \in Seq(Message), a # <<>>, NEW S, NEW T, NEW t,
         Head(a).kind = "Subscribe" => T = S \cup {Head(a).type},
         Head(a).kind = "Unsubscribe" => T = S \ {Head(a).type},
         Head(a).kind \notin {"Subscribe", "Unsubscribe"} => T = S
  PROVE  Hearing(Tail(a), T, t) <=> Hearing(a, S, t)
<1> DEFINE c == Tail(a)
           m == Head(a)
<1>1. /\ Len(a) \in Nat /\ Len(c) = Len(a) - 1 /\ Len(c) \in Nat
      /\ DOMAIN a = 1..Len(a) /\ DOMAIN c = 1..Len(c)
      /\ \A i \in 1..Len(c) : c[i] = a[i + 1]
      /\ m = a[1] /\ 1 \in DOMAIN a
  BY HeadTailProperties, LenProperties, EmptySeq
<1>2. \A i \in DOMAIN a : i = 1 \/ (i - 1 \in DOMAIN c /\ a[i] = c[i - 1])
  BY <1>1
<1>3. \A i \in DOMAIN c : i + 1 \in DOMAIN a /\ c[i] = a[i + 1] /\ i >= 1
  BY <1>1
<1>7. DOMAIN a \subseteq Int /\ DOMAIN c \subseteq Int
  BY <1>1
<1>8. /\ m.kind = "Subscribe" => T = S \cup {m.type}
      /\ m.kind = "Unsubscribe" => T = S \ {m.type}
      /\ m.kind \notin {"Subscribe", "Unsubscribe"} => T = S
  OBVIOUS
<1> HIDE DEF c, m
<1> DEFINE Yes(o) == Asks(o, t) /\ o.kind = "Subscribe"
           No(o) == Asks(o, t) /\ o.kind = "Unsubscribe"
<1>9. /\ Hearing(c, T, t) <=> \/ \E i \in DOMAIN c : Yes(c[i]) /\ \A j \in DOMAIN c : j > i => ~No(c[j])
                              \/ t \in T /\ \A j \in DOMAIN c : ~No(c[j])
      /\ Hearing(a, S, t) <=> \/ \E i \in DOMAIN a : Yes(a[i]) /\ \A j \in DOMAIN a : j > i => ~No(a[j])
                              \/ t \in S /\ \A j \in DOMAIN a : ~No(a[j])
  BY DEF Hearing
<1>10. /\ Yes(m) => t \in T /\ ~No(m)
       /\ No(m) => t \notin T
       /\ ~Yes(m) /\ ~No(m) => (t \in T <=> t \in S)
  BY <1>8 DEF Asks
<1> HIDE DEF Yes, No
<1>4. ASSUME Hearing(c, T, t) PROVE Hearing(a, S, t)
  <2>1. CASE \E i \in DOMAIN c : Yes(c[i]) /\ \A j \in DOMAIN c : j > i => ~No(c[j])
    <3>1. PICK i \in DOMAIN c : Yes(c[i]) /\ \A j \in DOMAIN c : j > i => ~No(c[j])
      BY <2>1
    <3>2. \A j \in DOMAIN a : j > i + 1 => ~No(a[j])
      <4> TAKE j \in DOMAIN a
      <4> HAVE j > i + 1
      <4>1. j # 1 /\ j - 1 > i
        BY <1>3, <1>7
      <4>2. j - 1 \in DOMAIN c /\ a[j] = c[j - 1]
        BY <1>2, <4>1
      <4> QED
        BY <3>1, <4>1, <4>2
    <3> QED
      BY <1>3, <1>9, <3>1, <3>2
  <2>2. CASE t \in T /\ \A j \in DOMAIN c : ~No(c[j])
    <3>1. \A j \in DOMAIN a : j > 1 => ~No(a[j])
      BY <1>2, <2>2
    <3>2. ~No(m)
      BY <1>10, <2>2
    <3>3. \A j \in DOMAIN a : ~No(a[j])
      BY <1>1, <1>2, <2>2, <3>2
    <3> QED
      BY <1>1, <1>9, <1>10, <2>2, <3>1, <3>2, <3>3
  <2> QED
    BY <1>4, <1>9, <2>1, <2>2
<1>5. ASSUME Hearing(a, S, t) PROVE Hearing(c, T, t)
  <2>1. CASE \E i \in DOMAIN a : Yes(a[i]) /\ \A j \in DOMAIN a : j > i => ~No(a[j])
    <3>1. PICK i \in DOMAIN a : Yes(a[i]) /\ \A j \in DOMAIN a : j > i => ~No(a[j])
      BY <2>1
    <3>2. CASE i = 1
      <4>1. \A j \in DOMAIN c : ~No(c[j])
        BY <1>3, <1>7, <3>1, <3>2
      <4> QED
        BY <1>1, <1>9, <1>10, <3>1, <3>2, <4>1
    <3>3. CASE i # 1
      <4>1. i - 1 \in DOMAIN c /\ Yes(c[i - 1])
        BY <1>2, <3>1, <3>3
      <4>2. \A j \in DOMAIN c : j > i - 1 => ~No(c[j])
        BY <1>3, <1>7, <3>1
      <4> QED
        BY <1>9, <4>1, <4>2
    <3> QED
      BY <3>2, <3>3
  <2>2. CASE t \in S /\ \A j \in DOMAIN a : ~No(a[j])
    <3>1. \A j \in DOMAIN c : ~No(c[j])
      BY <1>3, <2>2
    <3>2. t \in T
      BY <1>1, <1>10, <2>2
    <3> QED
      BY <1>9, <3>1, <3>2
  <2> QED
    BY <1>5, <1>9, <2>1, <2>2
<1> QED
  BY <1>4, <1>5 DEF c


(* A subscription of any other device applies to every session.            *)
LEMMA UniformApplies ==
  ASSUME BaseInv, Uniform, NEW s \in Sessions, NEW scope \in Scopes, scope # Dev(s)
  PROVE  \A b \in {None, Expected(s), bound[s]} : Applies(s, scope, b)
<1>1. \A z \in Scopes : z = AnyDevice \/ (ExpectsServer /\ z = Server)
  BY DEF Uniform
<1>2. CASE scope = AnyDevice
  BY <1>2 DEF Applies
<1>3. CASE ExpectsServer /\ scope = Server
  <2>1. s \in Clients
    BY <1>3, EndsAre, Owners
  <2>2. Expected(s) = Server /\ bound[s] \in {None, Server}
    BY <1>3, <2>1 DEF Expected, BaseInv, Joined, Genuine
  <2> QED
    BY <1>3, <2>2 DEF Applies
<1> QED
  BY <1>1, <1>2, <1>3

(* And is all that the registry holds for a type.                          *)
LEMMA UniformAsks ==
  ASSUME BaseInv, Uniform, NEW d \in Devices, NEW scope \in Scopes, NEW t
  PROVE  t \in AskedBy(d) <=> <<scope, t>> \in registry[d]
<1>1. registry[d] \subseteq Scopes \X Types
  BY DEF BaseInv, Typed, StatesTyped
<1>2. \A x \in registry[d] : x[1] \in Scopes /\ x = <<x[1], x[2]>>
  BY <1>1
<1>3. \A z \in Scopes : z = scope
  BY DEF Uniform
<1> QED
  BY <1>2, <1>3 DEF AskedBy

(* What a session says agrees with the registry.                           *)
LEMMA FitAsks ==
  ASSUME BaseInv, Uniform, NEW s \in Sessions, NEW m, NEW b, NEW types, Fit(s, m, b, types),
         NEW t, Asks(m, t)
  PROVE  m.kind = "Subscribe" <=> t \in AskedBy(Dev(s))
<1>1. Dev(s) \in Devices
  BY Owners
<1>2. m.kind = "Subscribe" => t \in AskedBy(Dev(s))
  BY <1>1, UniformAsks DEF Fit, Asks
<1>3. m.kind = "Unsubscribe" => t \notin AskedBy(Dev(s))
  BY <1>1, UniformAsks DEF Fit, Asks
<1> QED
  BY <1>2, <1>3 DEF Asks

(* A welcome asks for all of it.                                           *)
LEMMA WelcomeAsks ==
  ASSUME BaseInv, Uniform, NEW s \in Sessions, NEW t
  PROVE  Hearing(Welcome(s), {}, t) <=> t \in AskedBy(Dev(s))
<1> DEFINE q == Welcome(s)
<1>1. StatesTyped /\ Dev(s) \in Devices /\ Expected(s) \in Devices \cup {None}
  BY Owners DEF BaseInv, Typed
<1>2. /\ \A m \in Said(q) : m.kind = "Subscribe" /\ \E x \in registry[Dev(s)] : m.type = x[2]
      /\ Said(q) = Said(Current(s, Expected(s)))
  BY <1>1, WelcomeSubscribes
<1>3. \A x \in registry[Dev(s)] : Control(s, "Subscribe", x[2]) \in Said(q)
  <2> TAKE x \in registry[Dev(s)]
  <2>1. x[1] \in Scopes /\ x[1] # Dev(s)
    BY <1>1 DEF StatesTyped, BaseInv, ChangesSound
  <2>2. Applies(s, x[1], Expected(s))
    BY <2>1, UniformApplies
  <2> QED
    BY <1>1, <1>2, <2>2, CurrentSubscribes
<1> HIDE DEF q
<1>4. Said(q) = {q[i] : i \in DOMAIN q}
  BY DEF Said
<1>5. ASSUME Hearing(q, {}, t) PROVE t \in AskedBy(Dev(s))
  <2>1. PICK i \in DOMAIN q : Asks(q[i], t)
    BY <1>5 DEF Hearing
  <2> QED
    BY <1>2, <1>4, <2>1 DEF Asks, AskedBy
<1>6. ASSUME t \in AskedBy(Dev(s)) PROVE Hearing(q, {}, t)
  <2>1. PICK x \in registry[Dev(s)] : t = x[2]
    BY <1>6 DEF AskedBy
  <2>2. PICK i \in DOMAIN q : q[i] = Control(s, "Subscribe", t)
    BY <1>3, <1>4, <2>1
  <2>3. q[i].kind = "Subscribe" /\ q[i].type = t
    BY <2>2 DEF Control
  <2>4. \A j \in DOMAIN q : q[j].kind # "Unsubscribe"
    BY <1>2, <1>4
  <2> QED
    BY <2>3, <2>4 DEF Hearing, Asks
<1> QED
  BY <1>5, <1>6 DEF q

(* A session talks: what its peer will be subscribed to is what the        *)
(* registry asks for, or a change is still to be passed on.                *)
LEMMA TalkAgrees ==
  ASSUME BaseInv, Propagates, Uniform, NEW s \in Sessions, NEW hears \in BOOLEAN, NEW said,
         Speaks(s, hears, said), IF hears THEN Hears(s, said) ELSE UNCHANGED subscribed,
         NEW x \in Sessions, peer'[x] # None, NEW t \in Types,
         \/ ~Pending(x, t)
         \/ x = s /\ \E m \in Said(said) : Asks(m, t)
  PROVE  Agrees(x, t)'
<1>1. /\ said \in Seq(Message) /\ UNCHANGED peer /\ (hears => inbox[s] # <<>>)
      /\ inbox'[s] = IF hears THEN Tail(inbox[s]) ELSE inbox[s]
      /\ peer[s] # None => inbox'[peer[s]] = inbox[peer[s]] \o said
      /\ \A e \in Ends \ {s, peer[s]} : inbox'[e] = inbox[e]
      /\ \A m \in Said(said) : Fit(s, m, bound'[s], subscribed'[s])
      /\ \A y \in Sessions \ {s} : subscribed'[y] = subscribed[y]
      /\ UNCHANGED registry
  BY DEF Speaks, Talks
<1>2. /\ inbox \in [Ends -> Seq(Message)] /\ Sessions \subseteq Ends /\ Idle /\ Paired /\ Typed /\ NoGoodbye
  BY EndsAre DEF BaseInv, Joined, Typed
<1>3. /\ peer[x] # None /\ peer[x] \in Ends /\ peer[x] # x
      /\ \A y \in Sessions : peer[y] = peer[x] => y = x
  BY <1>1, <1>2, Opposite
<1> DEFINE a == inbox[peer[x]]
           S == SubscribersAt(peer[x])
           w == t \in AskedBy(Dev(x))
<1>4. a \in Seq(Message) /\ w \in BOOLEAN /\ (Pending(x, t) \/ (Hearing(a, S, t) <=> w))
  BY <1>2, <1>3 DEF Propagates, Agrees
<1>5. AskedBy(Dev(x))' = AskedBy(Dev(x))
  BY <1>1 DEF AskedBy
<1>6. CASE x = s
  <2>1. inbox'[peer[x]] = a \o said /\ SubscribersAt(peer[x])' = S
    BY <1>1, <1>3, <1>6 DEF SubscribersAt
  <2>2. \A m \in Said(said) : Asks(m, t) => (m.kind = "Subscribe" <=> w)
    BY <1>1, <1>6, FitAsks
  <2> HIDE DEF a, S, w
  <2>3. Hearing(a \o said, S, t) <=> w
    BY <1>1, <1>4, <2>2, HearingAppend
  <2> QED
    BY <1>1, <1>5, <2>1, <2>3 DEF Agrees, w
<1>7. CASE x # s /\ peer[x] = s
  <2>1. Hearing(inbox[s], subscribed[s], t) <=> w
    BY <1>4, <1>7 DEF SubscribersAt
  <2>2. Hearing(inbox'[s], subscribed'[s], t) <=> Hearing(inbox[s], subscribed[s], t)
    <3>1. CASE ~hears
      <4>1. inbox'[s] = inbox[s] /\ subscribed'[s] = subscribed[s]
        BY <1>1, <3>1
      <4> QED
        BY <4>1
    <3>2. CASE hears
      <4>1. Head(inbox[s]).kind # "Disconnect"
        <5>1. Talks(s, TRUE, said)
          BY <3>2 DEF Speaks
        <5>2. peer[s] # None
          BY <1>2, <1>3, <1>7, Opposite, Owners
        <5> QED
          BY <1>2, <5>1, <5>2, TalksAt DEF NoGoodbye
      <4>2. /\ Head(inbox[s]).kind = "Subscribe" => subscribed'[s] = subscribed[s] \cup {Head(inbox[s]).type}
            /\ Head(inbox[s]).kind = "Unsubscribe" => subscribed'[s] = subscribed[s] \ {Head(inbox[s]).type}
            /\ Head(inbox[s]).kind \notin {"Subscribe", "Unsubscribe"} => subscribed'[s] = subscribed[s]
        BY <3>2, <4>1 DEF Hears
      <4>3. inbox[s] \in Seq(Message) /\ inbox[s] # <<>> /\ inbox'[s] = Tail(inbox[s])
        BY <1>1, <1>2, <3>2
      <4> QED
        BY <4>2, <4>3, HearingTail
    <3> QED
      BY <3>1, <3>2
  <2> QED
    BY <1>1, <1>5, <1>7, <2>1, <2>2 DEF Agrees, SubscribersAt
<1>8. CASE x # s /\ peer[x] # s
  <2>1. peer[x] # peer[s]
    BY <1>3, <1>8
  <2>2. inbox'[peer[x]] = a /\ SubscribersAt(peer[x])' = S /\ ~Pending(x, t)
    BY <1>1, <1>3, <1>8, <2>1 DEF SubscribersAt
  <2> QED
    BY <1>1, <1>4, <1>5, <2>2 DEF Agrees
<1> QED
  BY <1>6, <1>7, <1>8


(* A change is passed on to one session at a time.                         *)
LEMMA PassedOn ==
  ASSUME BaseInv, Elsewhere, NEW d \in Devices, NEW n \in changing[d], NEW s \in n.todo,
         changing' = [changing EXCEPT ![d] = Without(n, s)]
  PROVE  /\ Elsewhere' /\ n.scope \in Scopes /\ n.scope # d
         /\ \A x \in Sessions : \A t : Pending(x, t) => Pending(x, t)' \/ (x = s /\ t = n.type)
<1>1. Typed
  BY DEF BaseInv
<1>2. /\ changing' \in [Devices -> SUBSET Change]
      /\ \A e \in Devices : changing'[e] = {} \/ \E x \in changing'[e] : changing'[e] = {x}
      /\ \A e \in Devices : e # d => changing'[e] = changing[e]
      /\ \A x \in changing'[d] : x.op = n.op /\ x.scope = n.scope /\ x.type = n.type /\ x.todo = n.todo \ {s}
      /\ n.todo # {s} => changing'[d] # {}
      /\ changing[d] = {n}
  BY <1>1, ChangeLeft
<1>3. n.scope \in Scopes /\ n.scope # d
  <2>1. n \in Change
    BY <1>1 DEF Typed, NotesTyped
  <2>2. n.scope \in Scopes
    BY <2>1 DEF Change
  <2> QED
    BY <2>2 DEF Elsewhere
<1>4. Elsewhere'
  BY <1>2, <1>3 DEF Elsewhere
<1>5. ASSUME NEW x \in Sessions, NEW t, Pending(x, t), ~(x = s /\ t = n.type)
      PROVE  Pending(x, t)'
  <2>1. PICK m \in changing[Dev(x)] : x \in m.todo /\ m.type = t
    BY <1>5 DEF Pending
  <2>2. Dev(x) \in Devices
    BY Owners
  <2>3. CASE Dev(x) # d
    BY <1>2, <2>1, <2>2, <2>3 DEF Pending
  <2>4. CASE Dev(x) = d
    <3>1. m = n /\ x # s
      BY <1>2, <1>5, <2>1, <2>4
    <3>2. PICK l \in changing'[d] : l.type = n.type /\ l.todo = n.todo \ {s}
      BY <1>2, <2>1, <3>1
    <3>3. x \in l.todo /\ l.type = t
      BY <2>1, <3>1, <3>2
    <3> QED
      BY <2>4, <3>2, <3>3 DEF Pending
  <2> QED
    BY <2>3, <2>4
<1> QED
  BY <1>3, <1>4, <1>5

(* A change of the registry is to be passed on by every session.           *)
LEMMA ChangePropagates ==
  ASSUME BaseInv, Propagates, NEW d \in Devices, NEW op, NEW x, Changes(d, op, x)
  PROVE  Propagates'
<1>1. /\ x[1] # d /\ changing[d] = {}
      /\ \A o \in Devices : o # d => registry'[o] = registry[o] /\ changing'[o] = changing[o]
      /\ \A y : y # x => (y \in registry'[d] <=> y \in registry[d])
      /\ UNCHANGED <<ready, bound, subscribed, peer, inbox, rejected>>
  BY DEF Changes, links
<1>2. /\ SessionsOf(d) = {} => changing'[d] = {}
      /\ SessionsOf(d) # {} => \E n \in changing'[d] : /\ changing'[d] = {n} /\ n.scope = x[1]
                                                       /\ n.type = x[2] /\ n.todo = SessionsOf(d)
  BY DEF Changes
<1>3. Elsewhere'
  BY <1>1, <1>2 DEF Elsewhere, Propagates
<1>4. ASSUME NEW s \in Sessions, peer[s] # None, NEW t \in Types
      PROVE  Pending(s, t)' \/ Agrees(s, t)'
  <2>1. Dev(s) \in Devices /\ ready[s]
    BY <1>4, Owners DEF BaseInv, Joined, Idle
  <2>2. Pending(s, t) \/ Agrees(s, t)
    BY <1>4 DEF Propagates
  <2>3. CASE Dev(s) # d
    <3>1. Pending(s, t)' <=> Pending(s, t)
      BY <1>1, <2>1, <2>3 DEF Pending
    <3>2. AskedBy(Dev(s))' = AskedBy(Dev(s))
      BY <1>1, <2>1, <2>3 DEF AskedBy
    <3>3. Agrees(s, t)' <=> Agrees(s, t)
      BY <1>1, <3>2 DEF Agrees, SubscribersAt
    <3> QED
      BY <2>2, <3>1, <3>3
  <2>4. CASE Dev(s) = d
    <3>1. s \in SessionsOf(d)
      BY <2>1, <2>4 DEF SessionsOf
    <3>2. CASE t = x[2]
      BY <1>2, <2>4, <3>1, <3>2 DEF Pending
    <3>3. CASE t # x[2]
      <4>1. ~Pending(s, t)
        BY <1>1, <2>4 DEF Pending
      <4>2. t \in AskedBy(d)' <=> t \in AskedBy(d)
        BY <1>1, <3>3 DEF AskedBy
      <4>3. Agrees(s, t)' <=> Agrees(s, t)
        BY <1>1, <2>4, <4>2 DEF Agrees, SubscribersAt
      <4> QED
        BY <2>2, <4>1, <4>3
    <3> QED
      BY <3>2, <3>3
  <2> QED
    BY <2>3, <2>4
<1> QED
  BY <1>1, <1>3, <1>4 DEF Propagates

(* Every step keeps what peers will be subscribed to in agreement with the *)
(* registry, or with the changes that are still to be passed on.           *)
LEMMA PropagatesStep == BaseInv /\ Propagates /\ Uniform /\ [Next]_vars => Propagates'
<1> SUFFICES ASSUME BaseInv, Propagates, Uniform, [Next]_vars PROVE Propagates'
  OBVIOUS
<1>1. Step
  BY Steps
<1>2. ASSUME NEW s \in Sessions, NEW said, Answers(s, said) PROVE Propagates'
  <2>1. Speaks(s, TRUE, said) /\ Hears(s, said) /\ UNCHANGED changing /\ UNCHANGED peer
    BY <1>2 DEF Answers, Hears, notes, Speaks, Talks
  <2>2. ASSUME NEW x \in Sessions, peer'[x] # None, NEW t \in Types, ~Pending(x, t)'
        PROVE  Agrees(x, t)'
    BY <2>1, <2>2, TalkAgrees DEF Pending
  <2> QED
    BY <2>1, <2>2 DEF Propagates, Elsewhere
<1>3. ASSUME NEW s \in Sessions, NEW said, Tells(s, said), UNCHANGED changing PROVE Propagates'
  <2>1. Speaks(s, FALSE, said) /\ UNCHANGED subscribed /\ UNCHANGED peer
    BY <1>3 DEF Tells, Speaks, Talks
  <2>2. ASSUME NEW x \in Sessions, peer'[x] # None, NEW t \in Types, ~Pending(x, t)'
        PROVE  Agrees(x, t)'
    BY <1>3, <2>1, <2>2, TalkAgrees DEF Pending
  <2> QED
    BY <1>3, <2>2 DEF Propagates, Elsewhere
<1>4. ASSUME NEW d \in Devices, NEW n \in changing[d], NEW s \in n.todo, NEW said, Passes(d, n, s, said)
      PROVE  Propagates'
  <2>1. /\ s \in Sessions /\ Dev(s) = d /\ Speaks(s, FALSE, said) /\ UNCHANGED subscribed /\ UNCHANGED peer
        /\ said = IF ready[s] /\ Applies(s, n.scope, bound[s]) THEN <<Control(s, n.op, n.type)>> ELSE <<>>
        /\ changing' = [changing EXCEPT ![d] = Without(n, s)]
    BY <1>4 DEF Passes, Tells, Speaks, Talks
  <2>2. /\ Elsewhere' /\ n.scope \in Scopes /\ n.scope # d
        /\ \A x \in Sessions : \A t : Pending(x, t) => Pending(x, t)' \/ (x = s /\ t = n.type)
    BY <2>1, PassedOn DEF Propagates
  <2>3. Applies(s, n.scope, bound[s])
    BY <2>1, <2>2, UniformApplies
  <2>4. peer[s] # None => \E m \in Said(said) : Asks(m, n.type)
    <3> HAVE peer[s] # None
    <3> DEFINE m == Control(s, n.op, n.type)
    <3>1. ready[s]
      BY <2>1 DEF BaseInv, Joined, Idle
    <3>2. said = <<m>>
      BY <2>1, <2>3, <3>1
    <3>3. n.op \in {"Subscribe", "Unsubscribe"}
      BY DEF BaseInv, Typed, NotesTyped, Change
    <3>4. Asks(m, n.type)
      BY <3>3 DEF Asks, Control
    <3> HIDE DEF m
    <3>5. m \in Said(said)
      BY <3>2 DEF Said
    <3> QED
      BY <3>4, <3>5
  <2>5. ASSUME NEW x \in Sessions, peer'[x] # None, NEW t \in Types, ~Pending(x, t)'
        PROVE  Agrees(x, t)'
    <3>1. ~Pending(x, t) \/ (x = s /\ \E m \in Said(said) : Asks(m, t))
      BY <2>1, <2>2, <2>4, <2>5
    <3> QED
      BY <2>1, <2>5, <3>1, TalkAgrees
  <2> QED
    BY <2>2, <2>5 DEF Propagates
<1>5. ASSUME Links PROVE Propagates'
  <2>1. ASSUME NEW x \in Sessions, peer'[x] # None, NEW t \in Types
        PROVE  Pending(x, t)' \/ Agrees(x, t)'
    <3>1. (Greets(x) \/ Enters(x) \/ Stays(x)) /\ UNCHANGED <<registry, changing>>
      BY <1>5, <2>1, LinksMove DEF notes
    <3>2. AskedBy(Dev(x))' = AskedBy(Dev(x)) /\ (Pending(x, t)' <=> Pending(x, t))
      BY <3>1 DEF AskedBy, Pending
    <3>3. CASE Greets(x)
      <4>1. inbox'[peer'[x]] = Welcome(x) /\ SubscribersAt(peer[x])' = {}
        BY <3>3 DEF Greets, SubscribersAt
      <4> QED
        BY <3>2, <4>1, WelcomeAsks DEF Agrees
    <3>4. CASE Enters(x)
      <4>1. /\ peer[x] \notin Sessions /\ peer[x] # None
            /\ inbox'[peer'[x]] = inbox[peer[x]] /\ SubscribersAt(peer[x])' = {}
        BY <3>4, EndsAre DEF Enters, SubscribersAt
      <4>2. SubscribersAt(peer[x]) = {}
        BY <4>1 DEF SubscribersAt
      <4> QED
        BY <3>2, <4>1, <4>2 DEF Agrees, Propagates
    <3>5. CASE Stays(x)
      <4>1. /\ peer[x] # None /\ peer'[x] = peer[x] /\ inbox'[peer'[x]] = inbox[peer[x]]
            /\ SubscribersAt(peer[x])' = SubscribersAt(peer[x])
        BY <3>5 DEF Stays, SubscribersAt
      <4> QED
        BY <3>2, <4>1 DEF Agrees, Propagates
    <3> QED
      BY <3>1, <3>3, <3>4, <3>5
  <2>2. Elsewhere'
    <3>1. UNCHANGED changing
      BY <1>5 DEF Links, Resets, Connects, Severs, Accepts, Starts, notes
    <3> QED
      BY <3>1 DEF Propagates, Elsewhere
  <2> QED
    BY <2>1, <2>2 DEF Propagates
<1>6. ASSUME UNCHANGED <<links, registry, changing>> PROVE Propagates'
  <2>1. UNCHANGED <<registry, changing, peer, inbox, subscribed>>
    BY <1>6 DEF links
  <2> QED
    BY <2>1 DEF Propagates, Elsewhere, Agrees, Pending, AskedBy, SubscribersAt
<1>7. ASSUME NEW d, NEW t, Publishes(d, t) PROVE Propagates'
  BY <1>6, <1>7 DEF Publishes
<1>8. ASSUME NEW d \in Devices, NEW op, NEW x, Changes(d, op, x) PROVE Propagates'
  BY <1>8, ChangePropagates
<1>9. UNCHANGED vars => Propagates'
  BY <1>6 DEF vars, core, notes
<1>10. ASSUME NEW p \in publishing, NEW s \in p.todo, NEW said, Delivers(p, s, said) PROVE Propagates'
  BY <1>3, <1>10 DEF Delivers
<1>11. ASSUME NEW c \in Clients, NEW t, NEW said, Requests(c, t, said) PROVE Propagates'
  BY <1>3, <1>11, EndsAre DEF Requests, notes
<1> QED
  BY <1>1, <1>2, <1>4, <1>5, <1>7, <1>8, <1>9, <1>10, <1>11 DEF Step, Links

(* "Local subscriptions are propagated": when applications subscribe with  *)
(* one scope, of every device or of the one a client expects, each side of *)
(* a settled connection is subscribed to what the other's registry asks.   *)
THEOREM PropagatedSubscriptions ==
  ASSUME Uniform
  PROVE  Spec => []SubscriptionsPropagated
<1>1. Init => Propagates
  BY DEF Init, Propagates, Elsewhere
<1>2. BaseInv /\ Propagates /\ [Next]_vars => Propagates'
  BY PropagatesStep
<1>3. BaseInv /\ Propagates => SubscriptionsPropagated
  <2> SUFFICES ASSUME BaseInv, Propagates, NEW c \in Clients, NEW k \in Slots, Settled(c, k)
               PROVE  /\ subscribed[k] = {t \in Types : Wants(c, Server, t)}
                      /\ subscribed[c] = {t \in Types : Wants(Server, c, t)}
    BY DEF SubscriptionsPropagated
  <2>1. /\ c \in Sessions /\ k \in Sessions /\ Dev(c) = c /\ Dev(k) = Server
        /\ c \in Devices /\ Server \in Devices /\ c # Server /\ c # None /\ k # None
        /\ Server # AnyDevice
    BY EndsAre, Owners, SessionAssumption DEF Devices
  <2>2. /\ peer[c] = k /\ peer[k] = c /\ inbox[c] = <<>> /\ inbox[k] = <<>>
        /\ \A d \in Devices : changing[d] = {}
    BY <2>1 DEF Settled, BaseInv, Joined, Paired
  <2>3. subscribed \in [Sessions -> SUBSET Types] /\ registry \in [Devices -> SUBSET (Scopes \X Types)]
    BY DEF BaseInv, Typed, LinksTyped, StatesTyped
  <2>4. \A t \in Types : /\ t \in subscribed[k] <=> t \in AskedBy(c)
                         /\ t \in subscribed[c] <=> t \in AskedBy(Server)
    <3> TAKE t \in Types
    <3>1. Agrees(c, t) /\ Agrees(k, t)
      BY <2>1, <2>2 DEF Propagates, Pending
    <3>2. \A S : Hearing(<<>>, S, t) <=> t \in S
      BY DEF Hearing
    <3> QED
      BY <2>1, <2>2, <3>1, <3>2 DEF Agrees, SubscribersAt
  <2>5. ASSUME NEW d \in Devices, NEW o \in Devices, d # o, d = Server \/ o = Server, NEW t \in Types
        PROVE  t \in AskedBy(d) <=> Wants(d, o, t)
    <3>1. ASSUME t \in AskedBy(d) PROVE Wants(d, o, t)
      <4>1. PICK x \in registry[d] : x[2] = t
        BY <3>1 DEF AskedBy
      <4>2. x = <<x[1], t>> /\ x[1] \in Scopes /\ x[1] # d
        BY <2>3, <4>1 DEF BaseInv, ChangesSound
      <4>3. x[1] = AnyDevice \/ x[1] = o
        BY <2>5, <4>2 DEF Uniform
      <4> QED
        BY <4>1, <4>2, <4>3 DEF Wants
    <3>2. ASSUME Wants(d, o, t) PROVE t \in AskedBy(d)
      BY <3>2 DEF Wants, AskedBy
    <3> QED
      BY <3>1, <3>2
  <2>6. \A t \in Types : (t \in AskedBy(c) <=> Wants(c, Server, t)) /\ (t \in AskedBy(Server) <=> Wants(Server, c, t))
    BY <2>1, <2>5
  <2> QED
    BY <2>1, <2>3, <2>4, <2>6
<1> QED
  BY <1>1, <1>2, <1>3, Invariance, PTL DEF Spec

=============================================================================
