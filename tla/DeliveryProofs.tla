---------------------------- MODULE DeliveryProofs ----------------------------
(***************************************************************************)
(* Proofs about Delivery, for every value of its constants.                *)
(***************************************************************************)
EXTENDS Delivery, UdpChannelsProofs

(***************************************************************************)
(* The inductive invariant.  It adds to that of the channels what the      *)
(* network and the receivers hold.                                         *)
(***************************************************************************)
(* Only sockets that are read have datagrams, only those for them, and a    *)
(* unicast one is in the socket of whoever listened for it.                 *)
ReachedBy(h, d) ==
    /\ d \in DOMAIN sent
    /\ handles[h].port = sent[d].to.port
    /\ handles[h].addr \in {sent[d].to.tail, AnyTail}
    /\ sent[d].to.tail \notin Groups =>
          \A i \in sent[d].listening : receivers[i].handle = h

BufferedWhereBound ==
    \A h \in Sockets : \A n \in DOMAIN buffer[h] :
        /\ h \in DOMAIN handles /\ handles[h].receiving
        /\ ReachedBy(h, buffer[h][n])

(* Only receivers that were handed out have consumed anything, from their   *)
(* own socket.                                                             *)
ConsumedWhereHeld ==
    \A i \in Sockets : \A n \in DOMAIN consumed[i] :
        /\ i \in heldReceivers
        /\ ReachedBy(receivers[i].handle, consumed[i][n])

Increasing(s) == \A m, n \in DOMAIN s : m < n => s[m] < s[n]

(* What waits in a socket is in order, and later than what was consumed.    *)
InOrder ==
    /\ \A h \in Sockets : Increasing(buffer[h])
    /\ \A i \in Sockets : Increasing(consumed[i])
    /\ \A i \in DOMAIN receivers :
          \A m \in DOMAIN consumed[i], n \in DOMAIN buffer[receivers[i].handle] :
              consumed[i][m] < buffer[receivers[i].handle][n]

DInv ==
    /\ IInv
    /\ DeliveryTypeOK
    /\ BufferedWhereBound
    /\ ConsumedWhereHeld
    /\ InOrder

-----------------------------------------------------------------------------
(***************************************************************************)
(* The channels do not notice the datagrams.                               *)
(***************************************************************************)
LEMMA NextImplementsNext == [DeliveryNext]_deliveryVars => [Next]_vars
BY DEF DeliveryNext, deliveryVars, vars, network, Call, Transmit, Read, Next, Sockets

(* Delivery is an implementation of UdpChannels: whatever holds of the      *)
(* channels holds when they are used.                                      *)
THEOREM DeliveryImplementsChannels == DeliverySpec => Spec
<1>1. DeliveryInit => Init
  BY DEF DeliveryInit
<1> QED
  BY <1>1, NextImplementsNext, PTL DEF DeliverySpec, Spec

LEMMA DeliveryChannelsInv == DeliverySpec => []IInv
BY DeliveryImplementsChannels, Invariance, PTL

-----------------------------------------------------------------------------
(* No other socket is bound where a unicast receiver's is.                  *)
LEMMA NobodyBeside == IInv => NobodyInterceptsUnicast
<1> SUFFICES ASSUME IInv,
                    NEW i \in DOMAIN receivers, receivers[i].locator.tail \notin Groups
             PROVE  UnicastTakers(receivers[i].locator) = {receivers[i].handle}
  BY DEF NobodyInterceptsUnicast
<1> DEFINE l == receivers[i].locator
           h == receivers[i].handle
<1>1. h \in DOMAIN handles /\ l \in Locators
  <2>1. receivers \in Seq(ReceiverType) /\ h \in DOMAIN handles
    BY DEF IInv, TypeOK
  <2>2. receivers[i] \in ReceiverType
    BY <2>1
  <2> QED
    BY <2>1, <2>2 DEF ReceiverType
<1>2. ~IsMulticast(l) /\ ~handles[h].reuse
  BY <1>1 DEF IInv, ReceiverSockets, IsMulticast
<1>3. handles[h].addr = l.tail /\ handles[h].port = l.port
  BY <1>1, <1>2 DEF IInv, ReceiverOwnsChannel, BindAddr
<1>4. l.tail # Unbound
  BY <1>1, LocatorParts
<1>5. h \in BoundTo(l.tail, l.port)
  BY <1>1, <1>3 DEF BoundTo
<1>6. ASSUME NEW g \in BoundTo(l.tail, l.port) PROVE g = h
  <2>1. g \in DOMAIN handles /\ Overlap(handles[g], handles[h])
    BY <1>3, <1>4, <1>6 DEF BoundTo, Overlap
  <2> QED
    BY <1>1, <1>2, <2>1 DEF IInv, OverlapsAreShared
<1> QED
  BY <1>5, <1>6 DEF UnicastTakers

-----------------------------------------------------------------------------
(***************************************************************************)
(* What the channels never take back while datagrams are under way.        *)
(***************************************************************************)
LEMMA ListsGrow ==
    ASSUME IInv, [Next]_vars
    PROVE  /\ \A i \in DOMAIN receivers :
                 /\ i \in DOMAIN receivers'
                 /\ receivers'[i].locator = receivers[i].locator
                 /\ receivers'[i].handle = receivers[i].handle
           /\ \A i \in DOMAIN senders : i \in DOMAIN senders' /\ senders'[i] = senders[i]
           /\ heldReceivers \subseteq heldReceivers'
<1>1. receivers \in Seq(ReceiverType) /\ senders \in Seq(SenderType)
  BY DEF IInv, TypeOK
<1>2. UNCHANGED lists => UNCHANGED <<receivers, senders, heldReceivers>>
  BY DEF lists
<1>3. ASSUME NEW f \in Factories, NEW s \in Slots, BuildReceiverNoOpen(f, s)
      PROVE  UNCHANGED <<receivers, senders>> /\ heldReceivers \subseteq heldReceivers'
  BY <1>3 DEF BuildReceiverNoOpen, AnswerReceiver, Hold
<1>4. ASSUME NEW f \in Factories, NEW s \in Slots, BuildReceiverOpen(f, s)
      PROVE  /\ \E r : receivers' = Append(receivers, r)
             /\ senders' = senders /\ heldReceivers \subseteq heldReceivers'
  BY <1>4 DEF BuildReceiverOpen, AnswerReceiver, Hold
<1>5. ASSUME NEW f \in Factories, NEW l \in Locators, BuildSenderNoOpen(f, l)
      PROVE  UNCHANGED <<receivers, senders, heldReceivers>>
  BY <1>5 DEF BuildSenderNoOpen, AnswerSender
<1>6. ASSUME NEW f \in Factories, NEW l \in Locators, ListSender(f, l)
      PROVE  (\E r : senders' = Append(senders, r)) /\ UNCHANGED <<receivers, heldReceivers>>
  BY <1>6 DEF ListSender, AnswerSender
<1>7. ASSUME NEW i \in heldReceivers, NEW c \in Callbacks \cup {NoCallback},
             RegisterReceiver(i, c)
      PROVE  /\ DOMAIN receivers' = DOMAIN receivers
             /\ \A j \in DOMAIN receivers : /\ receivers'[j].locator = receivers[j].locator
                                            /\ receivers'[j].handle = receivers[j].handle
             /\ UNCHANGED <<senders, heldReceivers>>
  <2>1. receivers' = [receivers EXCEPT ![i] = [receivers[i] EXCEPT !.callback = c]]
    BY <1>7 DEF RegisterReceiver
  <2>2. i \in DOMAIN receivers /\ receivers[i] \in ReceiverType
    BY <1>1 DEF IInv, TypeOK
  <2>3. /\ [receivers[i] EXCEPT !.callback = c].locator = receivers[i].locator
        /\ [receivers[i] EXCEPT !.callback = c].handle = receivers[i].handle
    BY <2>2 DEF ReceiverType
  <2> QED
    BY <1>1, <1>7, <2>1, <2>2, <2>3 DEF RegisterReceiver
<1>8. \/ UNCHANGED lists
      \/ \E f \in Factories, s \in Slots : BuildReceiverNoOpen(f, s) \/ BuildReceiverOpen(f, s)
      \/ \E f \in Factories, l \in Locators : BuildSenderNoOpen(f, l) \/ ListSender(f, l)
      \/ \E i \in heldReceivers, c \in Callbacks \cup {NoCallback} : RegisterReceiver(i, c)
  <2>1. CASE UNCHANGED vars
    BY <2>1 DEF vars, lists
  <2>2. CASE Next
    BY <2>2 DEF Next, Application, DropSlot, SetSlot, DestroyFactory, RegisterTransport,
                BuildReceiver, BindRefused, JoinRefused, BuildSenderBound, BuildSenderUnbound,
                Dispatch
  <2> QED
    BY <2>1, <2>2
<1>9. ASSUME NEW list, NEW S, list \in Seq(S), NEW r
      PROVE  \A i \in DOMAIN list : /\ i \in DOMAIN Append(list, r)
                                    /\ Append(list, r)[i] = list[i]
  BY <1>9
<1>10. \A i \in DOMAIN receivers : /\ i \in DOMAIN receivers'
                                    /\ receivers'[i].locator = receivers[i].locator
                                    /\ receivers'[i].handle = receivers[i].handle
  <2>1. (\E r : receivers' = Append(receivers, r)) =>
          \A i \in DOMAIN receivers : i \in DOMAIN receivers' /\ receivers'[i] = receivers[i]
    BY <1>1, <1>9
  <2> QED
    BY <1>2, <1>3, <1>4, <1>5, <1>6, <1>7, <1>8, <2>1
<1>11. \A i \in DOMAIN senders : i \in DOMAIN senders' /\ senders'[i] = senders[i]
  <2>1. (\E r : senders' = Append(senders, r)) =>
          \A i \in DOMAIN senders : i \in DOMAIN senders' /\ senders'[i] = senders[i]
    BY <1>1, <1>9
  <2> QED
    BY <1>2, <1>3, <1>4, <1>5, <1>6, <1>7, <1>8, <2>1
<1>12. heldReceivers \subseteq heldReceivers'
  BY <1>2, <1>3, <1>4, <1>5, <1>6, <1>7, <1>8
<1> QED
  BY <1>10, <1>11, <1>12

(* A receiver that is new has a new socket.                                 *)
LEMMA NewReceiverNewSocket ==
    ASSUME IInv, IInv', [Next]_vars,
           NEW i \in DOMAIN receivers', i \notin DOMAIN receivers
    PROVE  receivers'[i].handle \notin DOMAIN handles
<1> SUFFICES ASSUME receivers'[i].handle \in DOMAIN handles PROVE FALSE
  OBVIOUS
<1> DEFINE h == receivers'[i].handle
<1>1. handles'[h].handler = i /\ handles'[h].receiving
  BY DEF IInv, ReceiverOwnsChannel
<1>2. handles[h].handler = i /\ handles[h].receiving
  BY <1>1, SocketsKept
<1> QED
  BY <1>2 DEF IInv, DispatchTargetsListed

-----------------------------------------------------------------------------
(***************************************************************************)
(* Queues of datagrams, numbered as they were sent.                        *)
(***************************************************************************)
LEMMA SeqOfLarger ==
    ASSUME NEW S, NEW T, S \subseteq T, NEW s \in Seq(S)
    PROVE  s \in Seq(T)
OBVIOUS

LEMMA ElementsOf ==
    ASSUME NEW S, NEW s \in Seq(S)
    PROVE  \A i \in DOMAIN s : s[i] \in S
OBVIOUS

LEMMA AppendLater ==
    ASSUME NEW m \in Nat, NEW s \in Seq(1..m), Increasing(s)
    PROVE  /\ Append(s, m + 1) \in Seq(1..m + 1)
           /\ Increasing(Append(s, m + 1))
           /\ \A k \in DOMAIN Append(s, m + 1) :
                 \/ k \in DOMAIN s /\ Append(s, m + 1)[k] = s[k]
                 \/ Append(s, m + 1)[k] = m + 1
<1>1. /\ Append(s, m + 1) \in Seq(1..m + 1)
      /\ \A k \in DOMAIN Append(s, m + 1) :
            \/ k \in DOMAIN s /\ Append(s, m + 1)[k] = s[k] /\ s[k] \in 1..m
            \/ k = Len(s) + 1 /\ Append(s, m + 1)[k] = m + 1
      /\ DOMAIN s = 1..Len(s) /\ Len(s) \in Nat
  OBVIOUS
<1>2. Increasing(Append(s, m + 1))
  BY <1>1 DEF Increasing
<1> QED
  BY <1>1, <1>2

LEMMA TailLater ==
    ASSUME NEW S \in SUBSET Nat, NEW s \in Seq(S), s # <<>>, Increasing(s)
    PROVE  /\ Tail(s) \in Seq(S) /\ Increasing(Tail(s))
           /\ \A k \in DOMAIN Tail(s) : /\ k + 1 \in DOMAIN s /\ Tail(s)[k] = s[k + 1]
                                        /\ Head(s) < Tail(s)[k]
           /\ 1 \in DOMAIN s /\ Head(s) = s[1] /\ Head(s) \in S
<1>1. /\ Tail(s) \in Seq(S)
      /\ \A k \in DOMAIN Tail(s) : k \in Nat /\ k >= 1 /\ k + 1 \in DOMAIN s /\ Tail(s)[k] = s[k + 1]
      /\ 1 \in DOMAIN s /\ Head(s) = s[1] /\ Head(s) \in S
  OBVIOUS
<1>2. Increasing(Tail(s)) /\ \A k \in DOMAIN Tail(s) : Head(s) < Tail(s)[k]
  BY <1>1 DEF Increasing
<1> QED
  BY <1>1, <1>2

(* A sequence with one more element, all larger than those of the other.    *)
LEMMA AppendHead ==
    ASSUME NEW S \in SUBSET Nat, NEW s \in Seq(S), Increasing(s), NEW e \in S,
           \A k \in DOMAIN s : s[k] < e
    PROVE  /\ Append(s, e) \in Seq(S) /\ Increasing(Append(s, e))
           /\ \A k \in DOMAIN Append(s, e) :
                 \/ k \in DOMAIN s /\ Append(s, e)[k] = s[k]
                 \/ Append(s, e)[k] = e
<1>1. /\ Append(s, e) \in Seq(S)
      /\ \A k \in DOMAIN Append(s, e) :
            \/ k \in DOMAIN s /\ Append(s, e)[k] = s[k] /\ s[k] \in S
            \/ k = Len(s) + 1 /\ Append(s, e)[k] = e
      /\ DOMAIN s = 1..Len(s) /\ Len(s) \in Nat
  OBVIOUS
<1>2. Increasing(Append(s, e))
  BY <1>1 DEF Increasing
<1> QED
  BY <1>1, <1>2

-----------------------------------------------------------------------------
(***************************************************************************)
(* The steps.                                                              *)
(***************************************************************************)
LEMMA Indices ==
    ASSUME IInv
    PROVE  /\ DOMAIN receivers \subseteq Sockets /\ DOMAIN handles \subseteq Sockets
           /\ heldReceivers \subseteq DOMAIN receivers
           /\ \A i \in DOMAIN receivers : receivers[i].handle \in DOMAIN handles
<1>1. /\ receivers \in Seq(ReceiverType) /\ handles \in Seq(Handle)
      /\ Len(receivers) <= Len(handles) /\ Len(handles) <= MaxHandles
      /\ Len(receivers) \in Nat /\ Len(handles) \in Nat /\ MaxHandles \in Nat
      /\ DOMAIN receivers = 1..Len(receivers) /\ DOMAIN handles = 1..Len(handles)
  BY ValuesAssumption DEF IInv, TypeOK, ListsWithinSockets
<1> QED
  BY <1>1 DEF IInv, TypeOK, Sockets

LEMMA InitDInv == DeliveryInit => DInv
<1> SUFFICES ASSUME DeliveryInit PROVE DInv
  OBVIOUS
<1>1. IInv
  BY InitInv DEF DeliveryInit
<1>2. DOMAIN handles = {} /\ DOMAIN receivers = {} /\ senders = <<>> /\ sent = <<>>
  BY DEF DeliveryInit, Init
<1>3. DeliveryTypeOK
  BY <1>1, <1>2 DEF DeliveryInit, DeliveryTypeOK, IInv
<1>4. /\ \A h \in Sockets : DOMAIN buffer[h] = {}
      /\ \A i \in Sockets : DOMAIN consumed[i] = {}
  BY DEF DeliveryInit
<1> QED
  BY <1>1, <1>2, <1>3, <1>4
     DEF DInv, BufferedWhereBound, ConsumedWhereHeld, InOrder, Increasing

(* A step of the channels alone.                                            *)
LEMMA CallStep ==
    ASSUME DInv, IInv', [Next]_vars, UNCHANGED network
    PROVE  DInv'
<1> USE DEF DInv
<1>1. UNCHANGED <<sent, buffer, consumed>>
  BY DEF network
<1>2. \A d \in DOMAIN sent : /\ sent[d].sender \in DOMAIN senders
                              /\ sent[d].listening \subseteq DOMAIN receivers
  <2>1. \A d \in DOMAIN sent : sent[d] \in Datagram
    BY ElementsOf DEF DeliveryTypeOK
  <2> QED
    BY <2>1 DEF Datagram
<1>3. DeliveryTypeOK'
  <2>1. sent' \in Seq(Datagram')
    <3>1. DOMAIN senders \subseteq DOMAIN senders' /\ DOMAIN receivers \subseteq DOMAIN receivers'
      BY ListsGrow
    <3>2. Datagram \subseteq Datagram'
      BY <3>1 DEF Datagram
    <3>3. sent \in Seq(Datagram)
      BY DEF DeliveryTypeOK
    <3> QED
      BY <1>1, <3>2, <3>3, SeqOfLarger
  <2>3. \A d \in DOMAIN sent' : sent'[d].to.kind = senders'[sent'[d].sender].locator.kind
    BY <1>1, <1>2, ListsGrow DEF DeliveryTypeOK
  <2> QED
    BY <1>1, <2>1, <2>3 DEF DeliveryTypeOK, IInv
<1>4. /\ \A i \in DOMAIN receivers : receivers'[i].handle = receivers[i].handle
      /\ \A h \in DOMAIN handles : h \in DOMAIN handles' /\ handles'[h] = handles[h]
  BY ListsGrow, SocketsKept
<1>5. ASSUME NEW h \in DOMAIN handles, NEW d, ReachedBy(h, d) PROVE ReachedBy(h, d)'
  BY <1>1, <1>2, <1>4, <1>5 DEF ReachedBy
<1>6. BufferedWhereBound'
  BY <1>1, <1>4, <1>5 DEF BufferedWhereBound
<1>7. ConsumedWhereHeld'
  <2>1. \A i \in heldReceivers : /\ i \in heldReceivers'
                                 /\ receivers'[i].handle = receivers[i].handle
                                 /\ receivers[i].handle \in DOMAIN handles
    BY ListsGrow, Indices
  <2> QED
    BY <1>1, <1>5, <2>1 DEF ConsumedWhereHeld
<1>8. InOrder'
  <2>1. ASSUME NEW i \in DOMAIN receivers',
               NEW m \in DOMAIN consumed[i], NEW n \in DOMAIN buffer[receivers'[i].handle]
        PROVE  consumed[i][m] < buffer[receivers'[i].handle][n]
    <3>1. CASE i \in DOMAIN receivers
      BY <2>1, <3>1, ListsGrow DEF InOrder
    <3>2. CASE i \notin DOMAIN receivers
      <4>1. i \in Sockets /\ i \notin heldReceivers
        <5>1. DOMAIN receivers' \subseteq Sockets
          <6>1. /\ receivers' \in Seq(ReceiverType) /\ Len(receivers') \in Nat
                /\ handles' \in Seq(Handle) /\ Len(handles') \in Nat
                /\ Len(receivers') <= Len(handles') /\ Len(handles') <= MaxHandles
                /\ DOMAIN receivers' = 1..Len(receivers') /\ MaxHandles \in Nat
            BY ValuesAssumption DEF IInv, TypeOK, ListsWithinSockets
          <6> QED
            BY <6>1 DEF Sockets
        <5> QED
          BY <3>2, <5>1, Indices
      <4> QED
        BY <4>1 DEF ConsumedWhereHeld
    <3> QED
      BY <3>1, <3>2
  <2> QED
    BY <1>1, <2>1 DEF InOrder
<1> QED
  BY <1>3, <1>6, <1>7, <1>8

(* Whoever gets a datagram is bound to where it was sent.                   *)
LEMMA TakersAreBound ==
    ASSUME NEW l, NEW takers \in Takers(l), NEW h \in takers
    PROVE  /\ h \in DOMAIN handles /\ handles[h].port = l.port
           /\ handles[h].addr \in {l.tail, AnyTail}
<1>1. \/ takers = {}
      \/ takers \subseteq GroupTakers(l)
      \/ \E g \in UnicastTakers(l) : takers = {g}
  BY DEF Takers
<1>2. h \in BoundTo(l.tail, l.port) \cup BoundTo(AnyTail, l.port)
  BY <1>1 DEF GroupTakers, UnicastTakers
<1> QED
  BY <1>2 DEF BoundTo

(* A unicast datagram reaches only the socket of whoever listens for it.    *)
LEMMA TakersListened ==
    ASSUME IInv, NEW l, l.tail \notin Groups,
           NEW takers \in Takers(l), NEW h \in takers, NEW i \in Listening(l)
    PROVE  receivers[i].handle = h
<1>1. takers = {} \/ \E g \in UnicastTakers(l) : takers = {g}
  BY DEF Takers
<1>2. /\ i \in DOMAIN receivers /\ receivers[i].locator.tail = l.tail
      /\ receivers[i].locator.port = l.port
  BY DEF Listening
<1>3. UnicastTakers(receivers[i].locator) = {receivers[i].handle}
  BY <1>2, NobodyBeside DEF NobodyInterceptsUnicast
<1>4. UnicastTakers(l) = UnicastTakers(receivers[i].locator)
  BY <1>2 DEF UnicastTakers
<1> QED
  BY <1>1, <1>3, <1>4

(* A datagram is sent.                                                      *)
LEMMA TransmitStep ==
    ASSUME DInv, NEW i \in heldSenders, NEW l \in Locators, Transmit(i, l)
    PROVE  DInv'
<1> USE DEF DInv
<1> DEFINE new == [sender |-> i, to |-> l, listening |-> Listening(l)]
           m == Len(sent)
<1>1. /\ UNCHANGED vars /\ consumed' = consumed
      /\ sent' = Append(sent, new)
  BY DEF Transmit
<1>2. UNCHANGED <<handles, receivers, senders, heldReceivers>> /\ IInv'
  <2>1. UNCHANGED <<slot, alive, registered, udpHandles, handles, receivers, senders,
                    heldReceivers, heldSenders, listener, speaker, event>>
    BY <1>1 DEF vars
  <2>2. IInv'
    BY <1>1, NextInv
  <2> QED
    BY <2>1, <2>2
<1>3. sent \in Seq(Datagram) /\ new \in Datagram /\ m \in Nat /\ DOMAIN sent = 1..m
  <2>1. i \in DOMAIN senders /\ Listening(l) \subseteq DOMAIN receivers
    BY DEF IInv, TypeOK, Listening
  <2> QED
    BY <2>1 DEF DeliveryTypeOK, Datagram
<1>4. /\ sent' \in Seq(Datagram) /\ DOMAIN sent' = 1..m + 1 /\ Len(sent') = m + 1
      /\ \A d \in 1..m : sent'[d] = sent[d]
      /\ sent'[m + 1] = new
  <2> HIDE DEF new
  <2> QED
    BY <1>1, <1>3
<1>5. PICK takers \in Takers(l) :
         buffer' = [h \in Sockets |-> IF h \in takers /\ handles[h].receiving
                                        THEN Append(buffer[h], Len(sent')) ELSE buffer[h]]
  BY DEF Transmit
<1>6. \A h \in Sockets : /\ buffer[h] \in Seq(1..m) /\ consumed[h] \in Seq(1..m)
                         /\ Increasing(buffer[h])
  BY <1>3 DEF DeliveryTypeOK, InOrder
<1>7. ASSUME NEW h \in Sockets
      PROVE  /\ buffer'[h] \in Seq(1..m + 1) /\ Increasing(buffer'[h])
             /\ consumed'[h] \in Seq(1..m + 1)
             /\ \A n \in DOMAIN buffer'[h] :
                   \/ n \in DOMAIN buffer[h] /\ buffer'[h][n] = buffer[h][n] /\ buffer[h][n] \in 1..m
                   \/ h \in takers /\ handles[h].receiving /\ buffer'[h][n] = m + 1
  <2>1. 1..m \subseteq 1..m + 1
    BY <1>3
  <2>2. buffer[h] \in Seq(1..m + 1) /\ consumed[h] \in Seq(1..m + 1)
    BY <1>6, <2>1, SeqOfLarger
  <2>3. \A n \in DOMAIN buffer[h] : buffer[h][n] \in 1..m
    BY <1>6, ElementsOf
  <2>4. CASE h \in takers /\ handles[h].receiving
    <3>1. buffer'[h] = Append(buffer[h], m + 1)
      BY <1>4, <1>5, <2>4
    <3> QED
      BY <1>1, <1>3, <1>6, <2>2, <2>3, <2>4, <3>1, AppendLater
  <2>5. CASE ~(h \in takers /\ handles[h].receiving)
    <3>1. buffer'[h] = buffer[h]
      BY <1>5, <2>5
    <3> QED
      BY <1>1, <1>6, <2>2, <2>3, <3>1
  <2> QED
    BY <2>4, <2>5
<1>8. DeliveryTypeOK'
  <2>1. buffer' \in [Sockets -> Seq(DOMAIN sent')] /\ consumed' \in [Sockets -> Seq(DOMAIN sent')]
    <3>1. DOMAIN consumed' = Sockets /\ DOMAIN buffer' = Sockets
      BY <1>1, <1>5 DEF DeliveryTypeOK
    <3>2. consumed' = [h \in Sockets |-> consumed'[h]] /\ buffer' = [h \in Sockets |-> buffer'[h]]
      BY <1>1, <1>5 DEF DeliveryTypeOK
    <3> QED
      BY <1>4, <1>7, <3>2
  <2>2. ASSUME NEW d \in DOMAIN sent'
        PROVE  sent'[d].to.kind = senders'[sent'[d].sender].locator.kind
    <3>1. CASE d = m + 1
      BY <1>2, <1>4, <3>1 DEF Transmit
    <3>2. CASE d \in 1..m
      BY <1>2, <1>3, <1>4, <3>2 DEF DeliveryTypeOK
    <3> QED
      BY <1>3, <1>4, <3>1, <3>2
  <2>3. TypeOK'
    BY <1>2 DEF IInv
  <2>4. Datagram' = Datagram
    BY <1>2 DEF Datagram
  <2> QED
    BY <1>2, <1>4, <2>1, <2>2, <2>3, <2>4 DEF DeliveryTypeOK
<1>13. ASSUME NEW h, NEW d \in 1..m, ReachedBy(h, d) PROVE ReachedBy(h, d)'
  BY <1>2, <1>3, <1>4, <1>13 DEF ReachedBy
<1>14. ASSUME NEW h \in takers, NEW d, d = m + 1
       PROVE  h \in DOMAIN handles /\ ReachedBy(h, d)'
  <2>1. /\ h \in DOMAIN handles /\ handles[h].port = l.port
        /\ handles[h].addr \in {l.tail, AnyTail}
    BY TakersAreBound
  <2>2. l.tail \notin Groups => \A k \in Listening(l) : receivers[k].handle = h
    BY TakersListened
  <2>3. /\ d \in DOMAIN sent'
        /\ sent'[d].to = l /\ sent'[d].listening = Listening(l)
    BY <1>3, <1>4, <1>14
  <2> HIDE DEF new, m
  <2>4. h \in DOMAIN handles /\ UNCHANGED <<handles, receivers>>
    BY <1>2, <2>1
  <2>5. /\ handles'[h].port = sent'[d].to.port
        /\ handles'[h].addr \in {sent'[d].to.tail, AnyTail}
    BY <2>1, <2>3, <2>4
  <2>6. sent'[d].to.tail \notin Groups =>
           \A k \in sent'[d].listening : receivers'[k].handle = h
    BY <2>2, <2>3, <2>4
  <2> QED
    BY <2>3, <2>4, <2>5, <2>6 DEF ReachedBy
<1>9. BufferedWhereBound'
  <2> SUFFICES ASSUME NEW h \in Sockets, NEW n \in DOMAIN buffer'[h],
                      NEW d, d = buffer'[h][n]
               PROVE  h \in DOMAIN handles /\ handles[h].receiving /\ ReachedBy(h, d)'
    BY <1>2 DEF BufferedWhereBound, ReachedBy
  <2>1. CASE n \in DOMAIN buffer[h] /\ buffer'[h][n] = buffer[h][n] /\ buffer[h][n] \in 1..m
    <3>1. /\ h \in DOMAIN handles /\ handles[h].receiving /\ d \in 1..m
          /\ ReachedBy(h, d)
      BY <2>1 DEF BufferedWhereBound
    <3>2. ReachedBy(h, d)'
      BY <1>13, <3>1
    <3> QED
      BY <3>1, <3>2
  <2>2. CASE h \in takers /\ handles[h].receiving /\ buffer'[h][n] = m + 1
    BY <1>14, <2>2
  <2> QED
    BY <1>7, <2>1, <2>2
<1>10. ConsumedWhereHeld'
  <2>1. ASSUME NEW j \in Sockets, NEW n \in DOMAIN consumed[j]
        PROVE  consumed[j][n] \in 1..m
    <3> DEFINE D == 1..m
    <3>1. consumed[j] \in Seq(D)
      BY <1>6
    <3> HIDE DEF D
    <3>2. consumed[j][n] \in D
      BY <3>1, ElementsOf
    <3> QED
      BY <3>2 DEF D
  <2> QED
    BY <1>1, <1>2, <1>13, <2>1 DEF ConsumedWhereHeld
<1>11. InOrder'
  <2>1. ASSUME NEW j \in DOMAIN receivers,
               NEW k \in DOMAIN consumed[j], NEW n \in DOMAIN buffer'[receivers[j].handle]
        PROVE  consumed[j][k] < buffer'[receivers[j].handle][n]
    <3> DEFINE h == receivers[j].handle
    <3>1. j \in Sockets /\ h \in Sockets
      BY Indices
    <3>2. consumed[j][k] \in 1..m
      BY <1>6, <3>1, ElementsOf
    <3>3. CASE n \in DOMAIN buffer[h] /\ buffer'[h][n] = buffer[h][n]
      BY <3>3 DEF InOrder
    <3>4. CASE buffer'[h][n] = m + 1
      BY <1>3, <3>2, <3>4
    <3> QED
      BY <1>7, <3>1, <3>3, <3>4
  <2> QED
    BY <1>1, <1>2, <1>7, <2>1 DEF InOrder
<1> QED
  BY <1>2, <1>8, <1>9, <1>10, <1>11

(* A socket is read: its datagram is dropped, or goes to its receiver.      *)
LEMMA ReadStep ==
    ASSUME DInv, NEW h \in Sockets, Read(h)
    PROVE  DInv'
<1> USE DEF DInv
<1> DEFINE who == handles[h].handler
           S == DOMAIN sent
<1>1. /\ h \in DOMAIN handles /\ buffer[h] # <<>> /\ handles[h].receiving
      /\ buffer' = [buffer EXCEPT ![h] = Tail(buffer[h])] /\ sent' = sent
      /\ UNCHANGED <<slot, alive, registered, udpHandles, handles, receivers, senders,
                     heldReceivers, heldSenders, listener, speaker>>
  BY DEF Read, Dispatch, lists
<1>2. IInv'
  <2>1. Next
    BY <1>1 DEF Read, Next
  <2> QED
    BY <2>1, NextInv
<1>3. /\ sent \in Seq(Datagram) /\ S \subseteq Nat
      /\ buffer \in [Sockets -> Seq(S)] /\ consumed \in [Sockets -> Seq(S)]
      /\ \A g \in Sockets : Increasing(buffer[g]) /\ Increasing(consumed[g])
  BY DEF DeliveryTypeOK, InOrder
<1> DEFINE e == Head(buffer[h])
<1>4. /\ buffer'[h] = Tail(buffer[h])
      /\ \A g \in Sockets \ {h} : buffer'[g] = buffer[g]
      /\ DOMAIN buffer' = Sockets
  BY <1>1, <1>3
<1>5. /\ buffer'[h] \in Seq(S) /\ Increasing(buffer'[h])
      /\ \A k \in DOMAIN buffer'[h] : /\ k + 1 \in DOMAIN buffer[h]
                                      /\ buffer'[h][k] = buffer[h][k + 1]
                                      /\ e < buffer'[h][k]
      /\ 1 \in DOMAIN buffer[h] /\ e = buffer[h][1] /\ e \in S
  <2>1. buffer[h] \in Seq(S) /\ Increasing(buffer[h]) /\ S \in SUBSET Nat
    BY <1>3
  <2> HIDE DEF S
  <2> QED
    BY <1>1, <1>4, <2>1, TailLater
(* The receiver whose socket it is.                                         *)
<1>6. who \in DOMAIN receivers /\ receivers[who].handle = h /\ who \in Sockets
  BY <1>1, Indices DEF IInv, DispatchTargetsListed
<1>7. \A j \in DOMAIN receivers : receivers[j].handle = h => j = who
  BY <1>6 DEF IInv, ReceiverOwnsChannel
<1>8. \/ consumed' = consumed
      \/ CallsBack(h) /\ consumed' = [consumed EXCEPT ![who] = Append(@, e)]
  BY DEF Read
<1>9. ASSUME CallsBack(h), consumed' = [consumed EXCEPT ![who] = Append(@, e)]
      PROVE  /\ who \in heldReceivers
             /\ consumed'[who] \in Seq(S) /\ Increasing(consumed'[who])
             /\ \A k \in DOMAIN consumed'[who] :
                   \/ k \in DOMAIN consumed[who] /\ consumed'[who][k] = consumed[who][k]
                   \/ consumed'[who][k] = e
             /\ \A g \in Sockets \ {who} : consumed'[g] = consumed[g]
             /\ DOMAIN consumed' = Sockets
  <2>1. who \in heldReceivers
    BY <1>9 DEF CallsBack, IInv, CallbacksAreHeld
  <2>2. consumed[who] \in Seq(S) /\ Increasing(consumed[who]) /\ S \in SUBSET Nat
    BY <1>3, <1>6
  <2>3. \A k \in DOMAIN consumed[who] : consumed[who][k] < e
    BY <1>5, <1>6 DEF InOrder
  <2>4. /\ consumed'[who] = Append(consumed[who], e)
        /\ \A g \in Sockets \ {who} : consumed'[g] = consumed[g]
        /\ DOMAIN consumed' = Sockets
    BY <1>3, <1>6, <1>9
  <2> HIDE DEF S, who, e
  <2> QED
    BY <1>5, <2>1, <2>2, <2>3, <2>4, AppendHead
<1>10. /\ \A g \in Sockets : consumed'[g] \in Seq(S) /\ Increasing(consumed'[g])
       /\ DOMAIN consumed' = Sockets
       /\ \A g \in Sockets : \A k \in DOMAIN consumed'[g] :
             \/ k \in DOMAIN consumed[g] /\ consumed'[g][k] = consumed[g][k]
             \/ g = who /\ who \in heldReceivers /\ consumed'[g][k] = e
  <2>1. CASE consumed' = consumed
    BY <1>3, <2>1
  <2>2. CASE CallsBack(h) /\ consumed' = [consumed EXCEPT ![who] = Append(@, e)]
    <3>1. ASSUME NEW g \in Sockets, g # who
          PROVE  consumed'[g] = consumed[g]
      BY <1>9, <2>2, <3>1
    <3> QED
      BY <1>3, <1>9, <2>2, <3>1
  <2> QED
    BY <1>8, <2>1, <2>2
<1>11. DeliveryTypeOK'
  <2>1. \A g \in Sockets : buffer'[g] \in Seq(S)
    BY <1>3, <1>4, <1>5
  <2>2. buffer' = [g \in Sockets |-> buffer'[g]] /\ consumed' = [g \in Sockets |-> consumed'[g]]
    <3>1. buffer' = [g \in Sockets |-> buffer'[g]]
      BY <1>1, <1>3
    <3>2. consumed' = [g \in Sockets |-> consumed'[g]]
      BY <1>3, <1>8
    <3> QED
      BY <3>1, <3>2
  <2>3. buffer' \in [Sockets -> Seq(S)] /\ consumed' \in [Sockets -> Seq(S)]
    BY <1>10, <2>1, <2>2
  <2>4. TypeOK' /\ S = DOMAIN sent' /\ UNCHANGED <<sent, senders, Datagram>>
    BY <1>1, <1>2 DEF IInv, Datagram
  <2> HIDE DEF S
  <2> QED
    BY <2>3, <2>4 DEF DeliveryTypeOK
<1>12. /\ \A g, d : ReachedBy(g, d) => ReachedBy(g, d)'
       /\ UNCHANGED <<handles, receivers, heldReceivers>>
  <2>1. UNCHANGED <<handles, receivers, heldReceivers, sent>>
    BY <1>1
  <2> QED
    BY <2>1 DEF ReachedBy
<1>13. BufferedWhereBound'
  <2> SUFFICES ASSUME NEW g \in Sockets, NEW n \in DOMAIN buffer'[g]
               PROVE  /\ g \in DOMAIN handles /\ handles[g].receiving
                      /\ ReachedBy(g, buffer'[g][n])
    BY <1>12 DEF BufferedWhereBound
  <2>1. CASE g = h
    <3>1. n + 1 \in DOMAIN buffer[h] /\ buffer'[h][n] = buffer[h][n + 1]
      BY <1>5, <2>1
    <3> QED
      BY <2>1, <3>1 DEF BufferedWhereBound
  <2>2. CASE g # h
    BY <1>4, <2>2 DEF BufferedWhereBound
  <2> QED
    BY <2>1, <2>2
<1>14. ConsumedWhereHeld'
  <2> SUFFICES ASSUME NEW g \in Sockets, NEW n \in DOMAIN consumed'[g]
               PROVE  /\ g \in heldReceivers
                      /\ ReachedBy(receivers[g].handle, consumed'[g][n])
    BY <1>12 DEF ConsumedWhereHeld
  <2>1. CASE n \in DOMAIN consumed[g] /\ consumed'[g][n] = consumed[g][n]
    BY <2>1 DEF ConsumedWhereHeld
  <2>2. CASE g = who /\ who \in heldReceivers /\ consumed'[g][n] = e
    BY <1>5, <1>6, <2>2 DEF BufferedWhereBound
  <2> QED
    BY <1>10, <2>1, <2>2
<1>15. InOrder'
  <2>1. ASSUME NEW j \in DOMAIN receivers,
               NEW k \in DOMAIN consumed'[j], NEW n \in DOMAIN buffer'[receivers[j].handle]
        PROVE  consumed'[j][k] < buffer'[receivers[j].handle][n]
    <3>1. j \in Sockets /\ receivers[j].handle \in Sockets
      BY Indices
    <3>2. CASE j = who
      <4>1. CASE consumed'[j][k] = e
        BY <1>5, <1>6, <3>2, <4>1
      <4>2. CASE k \in DOMAIN consumed[j] /\ consumed'[j][k] = consumed[j][k]
        <5>1. n + 1 \in DOMAIN buffer[h] /\ buffer'[h][n] = buffer[h][n + 1]
          BY <1>5, <1>6, <3>2
        <5> QED
          BY <1>6, <3>2, <4>2, <5>1 DEF InOrder
      <4> QED
        BY <1>10, <3>1, <4>1, <4>2
    <3>3. CASE j # who
      <4>1. receivers[j].handle # h
        BY <1>7, <3>3
      <4>2. buffer'[receivers[j].handle] = buffer[receivers[j].handle]
        BY <1>4, <3>1, <4>1
      <4>3. k \in DOMAIN consumed[j] /\ consumed'[j][k] = consumed[j][k]
        BY <1>10, <3>1, <3>3
      <4> QED
        BY <4>2, <4>3 DEF InOrder
    <3> QED
      BY <3>2, <3>3
  <2>2. \A g \in Sockets : Increasing(buffer'[g])
    BY <1>3, <1>4, <1>5
  <2> QED
    BY <1>1, <1>10, <2>1, <2>2 DEF InOrder
<1> QED
  BY <1>2, <1>11, <1>13, <1>14, <1>15

-----------------------------------------------------------------------------
LEMMA DeliveryNextInv == DInv /\ [DeliveryNext]_deliveryVars => DInv'
<1> SUFFICES ASSUME DInv, [DeliveryNext]_deliveryVars PROVE DInv'
  OBVIOUS
<1>1. [Next]_vars /\ IInv'
  BY NextImplementsNext, NextInv DEF DInv
<1>2. CASE Call
  BY <1>1, <1>2, CallStep DEF Call
<1>3. CASE \E i \in heldSenders, l \in Locators : Transmit(i, l)
  BY <1>3, TransmitStep
<1>4. CASE \E h \in Sockets : Read(h)
  BY <1>4, ReadStep
<1>5. CASE UNCHANGED deliveryVars
  BY <1>1, <1>5, CallStep DEF deliveryVars, network
<1> QED
  BY <1>2, <1>3, <1>4, <1>5 DEF DeliveryNext

(* The inductive invariant holds for ever.                                  *)
THEOREM DeliveryInvariance == DeliverySpec => []DInv
BY InitDInv, DeliveryNextInv, PTL DEF DeliverySpec

(* Buffers and callbacks hold datagrams that were sent.                     *)
THEOREM DeliveryTypeCorrect == DeliverySpec => []DeliveryTypeOK
<1>1. DInv => DeliveryTypeOK
  BY DEF DInv
<1> QED
  BY <1>1, DeliveryInvariance, PTL

(* However many sockets there are, of receivers, senders and refused opens, *)
(* only its receiver's can take a unicast datagram.                         *)
THEOREM NoInterception == DeliverySpec => []NobodyInterceptsUnicast
<1>1. DInv => NobodyInterceptsUnicast
  BY NobodyBeside DEF DInv
<1> QED
  BY <1>1, DeliveryInvariance, PTL

(* A callback is given only what was sent to its receiver's port, to its    *)
(* address if it is of one host address, and nothing unicast that another   *)
(* receiver listened for, whatever was opened or refused in between and     *)
(* whichever of the sockets the kernel chose.                               *)
THEOREM NoMisdelivery == DeliverySpec => []NothingMisdelivered
<1>1. ASSUME DInv PROVE NothingMisdelivered
  <2> SUFFICES ASSUME NEW i \in DOMAIN receivers, NEW n \in DOMAIN consumed[i]
               PROVE  LET d == sent[consumed[i][n]]
                          l == receivers[i].locator
                      IN  /\ d.to.port = l.port
                          /\ l.tail \notin Groups \cup {AnyTail} => d.to.tail = l.tail
                          /\ d.to.tail \notin Groups => d.listening \subseteq {i}
    BY DEF NothingMisdelivered
  <2> DEFINE h == handles[receivers[i].handle]
             d == sent[consumed[i][n]]
  <2>1. ReachedBy(receivers[i].handle, consumed[i][n])
    BY <1>1, Indices DEF DInv, ConsumedWhereHeld
  <2>2. h.addr = BindAddr(receivers[i].locator) /\ h.port = receivers[i].locator.port
    BY <1>1 DEF DInv, IInv, ReceiverOwnsChannel
  <2>3. ASSUME d.to.tail \notin Groups, NEW j \in d.listening PROVE j = i
    <3>1. consumed[i][n] \in DOMAIN sent /\ receivers[j].handle = receivers[i].handle
      BY <2>1, <2>3 DEF ReachedBy
    <3>2. d \in Datagram
      BY <1>1, <3>1, ElementsOf DEF DInv, DeliveryTypeOK
    <3>3. j \in DOMAIN receivers
      BY <2>3, <3>2 DEF Datagram
    <3> QED
      BY <1>1, <3>1, <3>3 DEF DInv, IInv, ReceiverOwnsChannel
  <2> QED
    BY <2>1, <2>2, <2>3 DEF ReachedBy, BindAddr, IsMulticast
<1> QED
  BY <1>1, DeliveryInvariance, PTL

(* No callback is given a datagram twice or out of order, and no two        *)
(* receivers of a locator are given the same one.                           *)
THEOREM OnceAndInOrderForEach == DeliverySpec => []ConsumedOnceInOrder
<1>1. ASSUME DInv PROVE ConsumedOnceInOrder
  <2>1. ASSUME NEW i \in DOMAIN receivers PROVE Increasing(consumed[i])
    BY <1>1, Indices DEF DInv, InOrder
  <2>2. ASSUME NEW i \in DOMAIN receivers, NEW j \in DOMAIN receivers \ {i},
               receivers[i].locator = receivers[j].locator
        PROVE  DOMAIN consumed[i] = {} \/ DOMAIN consumed[j] = {}
    <3>1. i \in Nat /\ j \in Nat /\ i \in Sockets /\ j \in Sockets
      BY <1>1, Indices DEF DInv, Sockets
    <3>2. i \notin heldReceivers \/ j \notin heldReceivers
      BY <1>1, <2>2, <3>1 DEF DInv, IInv, HeldReceiversAreFirst
    <3> QED
      BY <1>1, <3>1, <3>2 DEF DInv, ConsumedWhereHeld
  <2>3. ASSUME NEW i \in DOMAIN receivers, NEW j \in DOMAIN receivers \ {i},
               receivers[i].locator = receivers[j].locator
        PROVE  ToSet(consumed[i]) \cap ToSet(consumed[j]) = {}
    BY <2>2, <2>3 DEF ToSet
  <2> QED
    BY <2>1, <2>3 DEF ConsumedOnceInOrder, Increasing
<1> QED
  BY <1>1, DeliveryInvariance, PTL
=============================================================================
