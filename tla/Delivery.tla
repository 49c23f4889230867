------------------------------- MODULE Delivery -------------------------------
(***************************************************************************)
(* The channels of UdpChannels put to use: senders pass datagrams to the   *)
(* kernel, which hands each to sockets of this host or loses it, and the   *)
(* loop reads the sockets and calls the receivers back.                    *)
(*                                                                         *)
(* A datagram is passed to the kernel by the call that sends it; SendQueue *)
(* shows that waiting in libuv changes neither number nor order.           *)
(***************************************************************************)
EXTENDS UdpChannels

CONSTANT
    MaxSends        \* bound of the model: how many datagrams are sent

ASSUME MaxSendsAssumption == MaxSends \in Nat

VARIABLES
    sent,           \* the datagrams sent: by which sender, to which locator, and
                    \* (history) the receivers that listened there at the time
    buffer,         \* by socket, the datagrams not read yet, as indices of sent
    consumed        \* by receiver, the datagrams its callback was given

network == <<sent, buffer, consumed>>

deliveryVars == <<vars, network>>

Sockets == 1..MaxHandles

DeliveryInit ==
    /\ Init
    /\ sent = <<>>
    /\ buffer = [h \in Sockets |-> <<>>]
    /\ consumed = [i \in Sockets |-> <<>>]

(* The calls of the application that send nothing.                          *)
Call == Application /\ UNCHANGED network

-----------------------------------------------------------------------------
(***************************************************************************)
(* The kernel: who gets a datagram.  The UDPv4 and the UDPv6 transport both*)
(* address it with the last four octets and the low half of the port.      *)
(***************************************************************************)
BoundTo(addr, port) ==
    {h \in DOMAIN handles : handles[h].addr = addr /\ handles[h].port = port}

(* One of the sockets bound to the address, or else to the wildcard; when   *)
(* several are, it may be any.                                              *)
UnicastTakers(l) ==
    IF BoundTo(l.tail, l.port) # {} THEN BoundTo(l.tail, l.port)
                                    ELSE BoundTo(AnyTail, l.port)

(* Every socket that joined the group, and maybe others that are bound to   *)
(* the group or the wildcard (IP_MULTICAST_ALL).                            *)
GroupTakers(l) == BoundTo(l.tail, l.port) \cup BoundTo(AnyTail, l.port)

(* The sets of sockets a datagram may reach; none when it is lost or the    *)
(* address is of another host.                                              *)
Takers(l) ==
    IF l.tail \notin Bindable THEN {{}}
    ELSE IF l.tail \in Groups THEN SUBSET GroupTakers(l)
    ELSE {{}} \cup {{h} : h \in UnicastTakers(l)}

(* The listed receivers of the address and port of l, of any transport.     *)
Listening(l) ==
    {i \in DOMAIN receivers : /\ receivers[i].locator.tail = l.tail
                              /\ receivers[i].locator.port = l.port}

(***************************************************************************)
(* send of a sender the application holds, to a locator of its kind.  What *)
(* reaches a socket that is not read stays there and counts as lost.       *)
(***************************************************************************)
MutTransmit(i, l) ==
    /\ i \in heldSenders /\ senders[i].owner \in alive
    /\ Len(sent) < MaxSends
    /\ sent' = Append(sent, [sender |-> i, to |-> l, listening |-> Listening(l)])
    /\ UNCHANGED <<vars, buffer, consumed>>

Transmit(i, l) ==
    /\ i \in heldSenders /\ senders[i].owner \in alive
    /\ l.kind = senders[i].locator.kind
    /\ Len(sent) < MaxSends
    /\ sent' = Append(sent, [sender |-> i, to |-> l, listening |-> Listening(l)])
    /\ \E takers \in Takers(l) :
          buffer' = [h \in Sockets |->
                        IF h \in takers /\ handles[h].receiving
                          THEN Append(buffer[h], Len(sent')) ELSE buffer[h]]
    /\ UNCHANGED <<vars, consumed>>

(***************************************************************************)
(* The loop reads a socket and runs its handler.  The callback gets the    *)
(* datagram if there is one and the transport lives.                       *)
(***************************************************************************)
MutCallsBack(h) ==
    LET who == handles[h].handler IN
    /\ who \in DOMAIN receivers
    /\ receivers[who].callback # NoCallback
    /\ receivers[who].owner \in alive
    /\ slot[receivers[who].ref] = receivers[who].locator

CallsBack(h) ==
    LET who == handles[h].handler IN
    /\ who \in DOMAIN receivers
    /\ receivers[who].callback # NoCallback
    /\ receivers[who].owner \in alive

Read(h) ==
    /\ h \in DOMAIN handles
    /\ buffer[h] # <<>>
    /\ Dispatch(h)
    /\ buffer' = [buffer EXCEPT ![h] = Tail(@)]
    /\ consumed' = IF CallsBack(h)
                     THEN [consumed EXCEPT ![handles[h].handler] = Append(@, Head(buffer[h]))]
                     ELSE consumed
    /\ UNCHANGED sent

DeliveryNext ==
    \/ Call
    \/ \E i \in heldSenders, l \in Locators : Transmit(i, l)
    \/ \E h \in Sockets : Read(h)

(* The application runs the loop, which polls every socket that is read.    *)
(* Nobody owes a call, nor the network a delivery.                          *)
Polling == \A h \in Sockets : WF_deliveryVars(Read(h))

DeliverySpec == DeliveryInit /\ [][DeliveryNext]_deliveryVars /\ Polling

-----------------------------------------------------------------------------
(***************************************************************************)
(* Correctness.                                                            *)
(***************************************************************************)
Datagram ==
    [sender : DOMAIN senders, to : Locators, listening : SUBSET DOMAIN receivers]

(* Buffers and callbacks hold datagrams that were sent, by a sender to a    *)
(* locator of its kind.                                                     *)
DeliveryTypeOK ==
    /\ TypeOK
    /\ sent \in Seq(Datagram)
    /\ \A d \in DOMAIN sent : sent[d].to.kind = senders[sent[d].sender].locator.kind
    /\ buffer \in [Sockets -> Seq(DOMAIN sent)]
    /\ consumed \in [Sockets -> Seq(DOMAIN sent)]

(* A unicast datagram for the locator of a listed receiver can reach no     *)
(* socket but the receiver's: no sender's, no other receiver's and none     *)
(* that a refused open left behind takes it away.                           *)
NobodyInterceptsUnicast ==
    \A i \in DOMAIN receivers :
        LET l == receivers[i].locator IN
        l.tail \notin Groups => UnicastTakers(l) = {receivers[i].handle}

(* What a callback is given was sent to the port of its receiver; to its    *)
(* address, if the receiver is of one host address; and, if it was unicast  *)
(* and somebody listened at the address it was sent to, then that was this  *)
(* receiver.  So a receiver of a group or of 0.0.0.0 gets, of what was not  *)
(* sent to it, only other groups' datagrams and those nobody listened for.  *)
(* Nothing is said of the kind of the locator: see ConsumedOnOwnChannel.    *)
NothingMisdelivered ==
    \A i \in DOMAIN receivers : \A n \in DOMAIN consumed[i] :
        LET d == sent[consumed[i][n]]
            l == receivers[i].locator
        IN
        /\ d.to.port = l.port
        /\ l.tail \notin Groups \cup {AnyTail} => d.to.tail = l.tail
        /\ d.to.tail \notin Groups => d.listening \subseteq {i}

(* No callback is given a datagram twice or before an earlier one, and the  *)
(* receivers of one locator do not share one, though several of their       *)
(* sockets may get it.                                                      *)
ConsumedOnceInOrder ==
    \A i \in DOMAIN receivers :
        /\ \A m, n \in DOMAIN consumed[i] : m < n => consumed[i][m] < consumed[i][n]
        /\ \A j \in DOMAIN receivers \ {i} :
              receivers[i].locator = receivers[j].locator
              => ToSet(consumed[i]) \cap ToSet(consumed[j]) = {}

(* What has reached the socket of a receiver with a callback is given to    *)
(* that callback in the end, unless the application takes the callback away *)
(* or destroys the factory first.                                           *)
CanConsume(i) ==
    /\ i \in DOMAIN receivers
    /\ receivers[i].callback # NoCallback
    /\ receivers[i].owner \in alive

ArrivalsAreConsumed ==
    \A i \in Sockets, d \in 1..MaxSends :
        (CanConsume(i) /\ d \in ToSet(buffer[receivers[i].handle]))
        ~> (~CanConsume(i) \/ d \in ToSet(consumed[i]))

-----------------------------------------------------------------------------
(***************************************************************************)
(* What the documentation says and the code does not do.                   *)
(***************************************************************************)
(* type.h:78-79: a Locator "uniquely identifies a communication channel for *)
(* a particular transport", so a receiver of one transport is given nothing *)
(* that was sent to a locator of another.                                   *)
ConsumedOnOwnChannel ==
    \A i \in DOMAIN receivers : \A n \in DOMAIN consumed[i] :
        sent[consumed[i][n]].to.kind = receivers[i].locator.kind

=============================================================================
