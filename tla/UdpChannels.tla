----------------------------- MODULE UdpChannels -----------------------------
(***************************************************************************)
(* The channels a TransportFactory opens: the sockets (uvw handles) a UDP  *)
(* transport creates, the two process-wide lists of receiver and sender    *)
(* resources, the callbacks registered on the receivers, and the event     *)
(* loop that hands datagrams to them.                                      *)
(*                                                                         *)
(* The library is single threaded: every call runs to its end on the       *)
(* thread of the loop, so a call of the library is one step.  What is      *)
(* interleaved is the calls of the application, the lifetime of the        *)
(* variables it passes by reference, the destruction of factories, and the *)
(* arrival of datagrams.                                                   *)
(***************************************************************************)
EXTENDS Integers, Sequences, SequencesExt

CONSTANTS
    Factories,      \* the TransportFactory objects of the process
    Slots,          \* the application's variables of type Locator
    Callbacks,      \* the functions it passes to register_receiver
    Locators,       \* the locators it uses
    Descriptors,    \* the kinds of the descriptors it registers
    AnyTail,        \* the IPv4 address 0.0.0.0
    Groups,         \* the IPv4 addresses in 224.0.0.0/4 it uses
    Bindable,       \* the IPv4 addresses the kernel lets a socket bind
    Unbound,        \* the address of a socket that is not bound
    Gone,           \* the value of a slot that holds no Locator
    NoCallback,     \* the null std::function
    Faults,         \* whether bind and join may fail for reasons outside the model
    MaxHandles      \* bound of the model: how many sockets are created

(***************************************************************************)
(* Locator kinds (type.h) that a transport exists for.                     *)
(***************************************************************************)
UDPv4 == 1
UDPv6 == 2
Kinds == {UDPv4, UDPv6}

ASSUME DescriptorsAssumption == Descriptors \subseteq Kinds

(***************************************************************************)
(* A Locator.  A socket sees only part of it: `tail' is the last four      *)
(* octets of the address, all that toIPv4string and getIpByLocatorv4       *)
(* print, and `port' the low half of the 32-bit port, all that htons       *)
(* keeps.  `head' (the first twelve octets) and `logical' (the high half   *)
(* of the port) are compared by operator== and reach no socket.            *)
(***************************************************************************)
Tails == {l.tail : l \in Locators} \cup {AnyTail}
PhysicalPorts == {l.port : l \in Locators}

ASSUME LocatorsAssumption ==
    \A l \in Locators :
        /\ l = [kind |-> l.kind, logical |-> l.logical, port |-> l.port,
                head |-> l.head, tail |-> l.tail]
        /\ l.port \in 1..65535
        /\ l.logical \in 0..65535

ASSUME AddressAssumption ==
    /\ AnyTail \in Bindable
    /\ AnyTail \notin Groups
    /\ Unbound \notin Tails

ASSUME ValuesAssumption ==
    /\ Gone \notin Locators
    /\ NoCallback \notin Callbacks
    /\ Faults \in BOOLEAN
    /\ MaxHandles \in Nat

VARIABLES
    slot,           \* the application's Locator variables
    alive,          \* the factories not yet destroyed
    registered,     \* registered_transports_ of each factory, by kind
    udpHandles,     \* udp_handles_ of each transport, as indices of handles
    handles,        \* every uvw::udp_handle created on the loop; none is closed
    receivers,      \* receiver_resources_list of TransportFactory.cpp
    senders,        \* sender_resource_list of TransportFactory.cpp
    heldReceivers,  \* the receivers some call has returned, as indices
    heldSenders,    \* the senders some call has returned, as indices
    listener,       \* history: the receivers each locator was answered with
    speaker,        \* history: the senders each locator was answered with
    event           \* what the last call returned, or the last dispatch did

vars == <<slot, alive, registered, udpHandles, handles, receivers, senders,
          heldReceivers, heldSenders, listener, speaker, event>>

lists == <<receivers, senders, heldReceivers, heldSenders, listener, speaker>>

(***************************************************************************)
(* The handler of a socket: none, one that captured a resource no longer   *)
(* in memory, or the index in receivers of the resource it captured.       *)
(***************************************************************************)
NoHandler == 0
Dangling == -1

(***************************************************************************)
(* An event is an answer, to a call that asks for the receiver or the      *)
(* sender of a locator, with the index of a resource or 0 for nullptr; or  *)
(* something else that the program did.                                    *)
(***************************************************************************)
Answer(side, l, i) == [what |-> side, locator |-> l, resource |-> i]

Did(what) == [what |-> what, locator |-> Gone, resource |-> 0]

Events ==
    [what : {"receiver", "sender"}, locator : Locators, resource : 0..MaxHandles]
    \cup {Did(what) : what \in {"start", "call", "dropped", "own", "other",
                               "gone", "dead", "dangling"}}

-----------------------------------------------------------------------------
(***************************************************************************)
(* Sockets, as libuv and the Linux kernel keep them.                       *)
(***************************************************************************)
Handle == [addr : Tails \cup {Unbound}, port : PhysicalPorts \cup {0},
           reuse : BOOLEAN, joined : SUBSET Tails, receiving : BOOLEAN,
           handler : Int]

FreshHandle == [addr |-> Unbound, port |-> 0, reuse |-> FALSE, joined |-> {},
                receiving |-> FALSE, handler |-> NoHandler]

(* Two bound sockets that share a port and an address, 0.0.0.0 standing for *)
(* every address.                                                           *)
Overlap(g, h) ==
    /\ g.addr # Unbound /\ h.addr # Unbound
    /\ g.port = h.port
    /\ (g.addr = h.addr \/ g.addr = AnyTail \/ h.addr = AnyTail)

(* The socket with one more binding. *)
Bound(g, addr, port, reuse) ==
    [g EXCEPT !.addr = addr, !.port = port, !.reuse = reuse]

(* bind(2): a socket binds once, to an address of this host (or a group),   *)
(* that no other socket overlaps unless both allow reuse.                   *)
CanBind(hs, h, addr, port, reuse) ==
    /\ hs[h].addr = Unbound
    /\ addr \in Bindable
    /\ \A g \in DOMAIN hs \ {h} :
          Overlap(hs[g], Bound(hs[h], addr, port, reuse)) => reuse /\ hs[g].reuse

BindMayFail(hs, h, addr, port, reuse) ==
    Faults \/ ~CanBind(hs, h, addr, port, reuse)

-----------------------------------------------------------------------------
(***************************************************************************)
(* udp_handles_: the handle a call reuses, or a new one.  The condition on *)
(* the push_back calls is the code's: it remembers a handle only if it was *)
(* already there.                                                          *)
(***************************************************************************)
Match(f, l) ==
    SelectInSeq(udpHandles[f][l.kind],
                LAMBDA h : /\ handles[h].addr = l.tail
                           /\ handles[h].port = l.port
                           /\ l.logical = 0)

SocketFor(f, l) ==
    IF Match(f, l) # 0 THEN udpHandles[f][l.kind][Match(f, l)]
                       ELSE Len(handles) + 1

WithSocket(f, l) ==
    IF Match(f, l) # 0 THEN handles ELSE Append(handles, FreshHandle)

MutRememberNew(f, l) ==
    IF Match(f, l) = 0
      THEN [udpHandles EXCEPT ![f][l.kind] = Append(@, SocketFor(f, l))]
      ELSE udpHandles

Remember(f, l) ==
    IF Match(f, l) # 0
      THEN [udpHandles EXCEPT ![f][l.kind] = Append(@, SocketFor(f, l))]
      ELSE udpHandles

(***************************************************************************)
(* The find_if over a resource list: the first resource whose locator is l.*)
(***************************************************************************)
MutLastMatch(list, l) == SelectLastInSeq(list, LAMBDA r : r.locator = l)

MutMatchPort(list, l) == SelectInSeq(list, LAMBDA r : r.locator.port = l.port)

FirstMatch(list, l) == SelectInSeq(list, LAMBDA r : r.locator = l)

(* The resource with index i is handed to the caller who asked for l; 0 is  *)
(* nullptr.  The histories file it under the locator of the call, not under *)
(* the one in the resource.                                                 *)
Hold(held, i) == IF i = 0 THEN held ELSE held \cup {i}

AnswerReceiver(l, i) ==
    /\ heldReceivers' = Hold(heldReceivers, i)
    /\ listener' = [listener EXCEPT ![l] = Hold(@, i)]
    /\ event' = Answer("receiver", l, i)
    /\ UNCHANGED <<heldSenders, speaker>>

AnswerSender(l, i) ==
    /\ heldSenders' = Hold(heldSenders, i)
    /\ speaker' = [speaker EXCEPT ![l] = Hold(@, i)]
    /\ event' = Answer("sender", l, i)
    /\ UNCHANGED <<heldReceivers, listener>>

-----------------------------------------------------------------------------
Init ==
    /\ slot = [s \in Slots |-> Gone]
    /\ alive = Factories
    /\ registered = [f \in Factories |-> {}]
    /\ udpHandles = [f \in Factories |-> [k \in Kinds |-> <<>>]]
    /\ handles = <<>>
    /\ receivers = <<>>
    /\ senders = <<>>
    /\ heldReceivers = {}
    /\ heldSenders = {}
    /\ listener = [l \in Locators |-> {}]
    /\ speaker = [l \in Locators |-> {}]
    /\ event = Did("start")

(***************************************************************************)
(* The application assigns one of its Locator variables, or the variable   *)
(* goes out of scope.  Its memory may become a Locator variable again.     *)
(***************************************************************************)
SetSlot(s, l) ==
    /\ slot' = [slot EXCEPT ![s] = l]
    /\ event' = Did("call")
    /\ UNCHANGED <<alive, registered, udpHandles, handles, lists>>

DropSlot(s) ==
    /\ slot' = [slot EXCEPT ![s] = Gone]
    /\ event' = Did("call")
    /\ UNCHANGED <<alive, registered, udpHandles, handles, lists>>

(***************************************************************************)
(* register_transport with the descriptor of kind k; a second registration *)
(* of a kind changes nothing.                                              *)
(***************************************************************************)
RegisterTransport(f, k) ==
    /\ f \in alive
    /\ registered' = [registered EXCEPT ![f] = @ \cup {k}]
    /\ event' = Did("call")
    /\ UNCHANGED <<slot, alive, udpHandles, handles, lists>>

(***************************************************************************)
(* ~TransportFactory: its transports are destroyed; the lists are not its  *)
(* members, and the sockets stay open on the loop.                         *)
(***************************************************************************)
MutDestroyClears(f) ==
    /\ f \in alive
    /\ alive' = alive \ {f}
    /\ receivers' = SelectSeq(receivers, LAMBDA r : r.owner # f)
    /\ event' = Did("call")
    /\ UNCHANGED <<slot, registered, udpHandles, handles, senders,
                   heldReceivers, heldSenders, listener, speaker>>

DestroyFactory(f) ==
    /\ f \in alive
    /\ alive' = alive \ {f}
    /\ event' = Did("call")
    /\ UNCHANGED <<slot, registered, udpHandles, handles, lists>>

-----------------------------------------------------------------------------
(***************************************************************************)
(* build_receiver_resources, called with the variable s.                   *)
(***************************************************************************)
IsMulticast(l) == l.kind = UDPv4 /\ l.tail \in Groups

MutBindAddr(l) == AnyTail

BindAddr(l) == IF IsMulticast(l) THEN AnyTail ELSE l.tail

(* The flags open_input_channel passes to bind: REUSEADDR for a group. *)
MutAlwaysReuse(l) == TRUE

MutNeverReuse(l) == FALSE

InputReuse(l) == IsMulticast(l)

(* No channel is opened: the factory has no transport of the kind, or it is *)
(* the UDPv6 one, whose open_input_channel does nothing and returns true.   *)
BuildReceiverNoOpen(f, s) ==
    /\ f \in alive /\ slot[s] # Gone
    /\ slot[s].kind \in registered[f] => slot[s].kind = UDPv6
    /\ AnswerReceiver(slot[s], FirstMatch(receivers, slot[s]))
    /\ UNCHANGED <<slot, alive, registered, udpHandles, handles, receivers, senders>>

OpensInput(f, s) ==
    /\ f \in alive /\ slot[s] # Gone
    /\ slot[s].kind = UDPv4 /\ UDPv4 \in registered[f]
    /\ SocketFor(f, slot[s]) <= MaxHandles

(* The socket after the constructor of UDPReceiverResource has replaced its *)
(* handler.                                                                 *)
WithHandler(f, l, who) ==
    [WithSocket(f, l) EXCEPT ![SocketFor(f, l)].handler = who]

InputCanBind(f, l) ==
    CanBind(WithSocket(f, l), SocketFor(f, l), BindAddr(l), l.port, InputReuse(l))

(* bind fails: nullptr is returned and the resource just built destroyed,   *)
(* its handler still on the socket.                                         *)
BindRefused(f, s) ==
    LET l == slot[s] IN
    /\ OpensInput(f, s)
    /\ BindMayFail(WithSocket(f, l), SocketFor(f, l), BindAddr(l), l.port, InputReuse(l))
    /\ handles' = WithHandler(f, l, Dangling)
    /\ event' = Answer("receiver", l, 0)
    /\ UNCHANGED <<slot, alive, registered, udpHandles, lists>>

(* bind succeeds and the group cannot be joined: nullptr is returned, and   *)
(* the socket keeps the port.                                               *)
MutRecvBeforeJoin(f, s) ==
    LET l == slot[s] IN
    /\ OpensInput(f, s)
    /\ IsMulticast(l) /\ InputCanBind(f, l) /\ Faults
    /\ handles' = [WithHandler(f, l, Dangling) EXCEPT ![SocketFor(f, l)] =
                      [Bound(@, AnyTail, l.port, InputReuse(l)) EXCEPT !.receiving = TRUE]]
    /\ event' = Answer("receiver", l, 0)
    /\ UNCHANGED <<slot, alive, registered, udpHandles, lists>>

JoinRefused(f, s) ==
    LET l == slot[s] IN
    /\ OpensInput(f, s)
    /\ IsMulticast(l) /\ InputCanBind(f, l) /\ Faults
    /\ handles' = [WithHandler(f, l, Dangling) EXCEPT ![SocketFor(f, l)] =
                      Bound(@, AnyTail, l.port, InputReuse(l))]
    /\ event' = Answer("receiver", l, 0)
    /\ UNCHANGED <<slot, alive, registered, udpHandles, lists>>

Receiver(f, s, h) ==
    [locator |-> slot[s], ref |-> s, owner |-> f, handle |-> h,
     callback |-> NoCallback]

(* The socket bound, joined to the group of a multicast locator, and read. *)
Opened(h, l) ==
    [Bound(h, BindAddr(l), l.port, InputReuse(l)) EXCEPT
        !.joined = IF IsMulticast(l) THEN @ \cup {l.tail} ELSE @,
        !.receiving = TRUE]

(* The channel is open: the resource is listed, the socket receives, and    *)
(* the caller gets the first resource of the locator.                       *)
BuildReceiverOpen(f, s) ==
    LET l == slot[s]
        h == SocketFor(f, l)
    IN
    /\ OpensInput(f, s)
    /\ InputCanBind(f, l)
    /\ handles' = [WithHandler(f, l, Len(receivers) + 1) EXCEPT ![h] = Opened(@, l)]
    /\ udpHandles' = IF IsMulticast(l) THEN Remember(f, l) ELSE udpHandles
    /\ receivers' = Append(receivers, Receiver(f, s, h))
    /\ AnswerReceiver(l, FirstMatch(receivers', l))
    /\ UNCHANGED <<slot, alive, registered, senders>>

BuildReceiver(f, s) ==
    \/ BuildReceiverNoOpen(f, s)
    \/ BindRefused(f, s)
    \/ JoinRefused(f, s)
    \/ BuildReceiverOpen(f, s)

-----------------------------------------------------------------------------
(***************************************************************************)
(* build_send_resources.  open_output_channel ignores the result of bind   *)
(* and lists a sender in any case; its own result is ignored in turn.      *)
(***************************************************************************)
BuildSenderNoOpen(f, l) ==
    /\ f \in alive /\ l.kind \notin registered[f]
    /\ AnswerSender(l, FirstMatch(senders, l))
    /\ UNCHANGED <<slot, alive, registered, udpHandles, handles, receivers, senders>>

Sender(f, l, h) == [locator |-> l, owner |-> f, handle |-> h]

(* The flags open_output_channel passes to bind: none. *)
MutSenderReuse == TRUE

SenderReuse == FALSE

ListSender(f, l) ==
    /\ udpHandles' = Remember(f, l)
    /\ senders' = Append(senders, Sender(f, l, SocketFor(f, l)))
    /\ AnswerSender(l, FirstMatch(senders', l))
    /\ UNCHANGED <<slot, alive, registered, receivers>>

OpensOutput(f, l) ==
    /\ f \in alive /\ l.kind \in registered[f]
    /\ SocketFor(f, l) <= MaxHandles

BuildSenderBound(f, l) ==
    LET hs == WithSocket(f, l)
        h == SocketFor(f, l)
    IN
    /\ OpensOutput(f, l)
    /\ CanBind(hs, h, l.tail, l.port, SenderReuse)
    /\ handles' = [hs EXCEPT ![h] = Bound(@, l.tail, l.port, SenderReuse)]
    /\ ListSender(f, l)

BuildSenderUnbound(f, l) ==
    /\ OpensOutput(f, l)
    /\ BindMayFail(WithSocket(f, l), SocketFor(f, l), l.tail, l.port, SenderReuse)
    /\ handles' = WithSocket(f, l)
    /\ ListSender(f, l)

-----------------------------------------------------------------------------
(***************************************************************************)
(* register_receiver on a resource the application was given.              *)
(***************************************************************************)
RegisterReceiver(i, c) ==
    /\ i \in heldReceivers
    /\ receivers' = [receivers EXCEPT ![i].callback = c]
    /\ event' = Did("call")
    /\ UNCHANGED <<slot, alive, registered, udpHandles, handles, senders,
                   heldReceivers, heldSenders, listener, speaker>>

(***************************************************************************)
(* The loop reads a datagram from socket h and runs its handler, which     *)
(* reads the resource, then its transport, then the caller's Locator.      *)
(* "own" is a callback told the locator of its channel, "other" one told   *)
(* the locator now in the caller's variable.                               *)
(***************************************************************************)
Dispatch(h) ==
    LET who == handles[h].handler
        r == receivers[who]
    IN
    /\ handles[h].receiving
    /\ event' = Did(CASE who \notin DOMAIN receivers -> "dangling"
                      [] r.callback = NoCallback     -> "dropped"
                      [] r.owner \notin alive        -> "dead"
                      [] slot[r.ref] = Gone          -> "gone"
                      [] slot[r.ref] = r.locator     -> "own"
                      [] OTHER                       -> "other")
    /\ UNCHANGED <<slot, alive, registered, udpHandles, handles, lists>>

(* The calls of the application, and what it does with its variables.       *)
Application ==
    \/ \E s \in Slots : DropSlot(s) \/ \E l \in Locators : SetSlot(s, l)
    \/ \E f \in Factories :
          \/ DestroyFactory(f)
          \/ \E k \in Descriptors : RegisterTransport(f, k)
          \/ \E s \in Slots : BuildReceiver(f, s)
          \/ \E l \in Locators : \/ BuildSenderNoOpen(f, l)
                                 \/ BuildSenderBound(f, l)
                                 \/ BuildSenderUnbound(f, l)
    \/ \E i \in heldReceivers, c \in Callbacks \cup {NoCallback} : RegisterReceiver(i, c)

Next == Application \/ \E h \in DOMAIN handles : Dispatch(h)

Spec == Init /\ [][Next]_vars

-----------------------------------------------------------------------------
(***************************************************************************)
(* Correctness.                                                            *)
(***************************************************************************)
ReceiverType ==
    [locator : Locators, ref : Slots, owner : Factories,
     handle : 1..MaxHandles, callback : Callbacks \cup {NoCallback}]

SenderType == [locator : Locators, owner : Factories, handle : 1..MaxHandles]

(* Every variable has its type, every index names an element that exists,  *)
(* and no more than MaxHandles sockets are created.                        *)
TypeOK ==
    /\ slot \in [Slots -> Locators \cup {Gone}]
    /\ alive \subseteq Factories
    /\ registered \in [Factories -> SUBSET Kinds]
    /\ udpHandles \in [Factories -> [Kinds -> Seq(DOMAIN handles)]]
    /\ handles \in Seq(Handle) /\ Len(handles) <= MaxHandles
    /\ receivers \in Seq(ReceiverType)
    /\ senders \in Seq(SenderType)
    /\ \A i \in DOMAIN receivers : receivers[i].handle \in DOMAIN handles
    /\ \A i \in DOMAIN senders : senders[i].handle \in DOMAIN handles
    /\ heldReceivers \subseteq DOMAIN receivers
    /\ heldSenders \subseteq DOMAIN senders
    /\ listener \in [Locators -> SUBSET DOMAIN receivers]
    /\ speaker \in [Locators -> SUBSET DOMAIN senders]
    /\ event \in Events

(* A listed receiver has an open channel of its own: the socket it was      *)
(* built with is bound where its locator says, has joined its group,        *)
(* receives, and still runs its handler, whatever was opened, refused or    *)
(* destroyed since.                                                         *)
ReceiverOwnsChannel ==
    \A i \in DOMAIN receivers :
        LET l == receivers[i].locator
            h == handles[receivers[i].handle]
        IN
        /\ h.handler = i
        /\ h.receiving
        /\ h.addr = BindAddr(l) /\ h.port = l.port
        /\ IsMulticast(l) => l.tail \in h.joined

(* A socket the loop reads runs the handler of a listed resource, the one   *)
(* built with it: no datagram reaches a resource that a failed open has     *)
(* destroyed.                                                               *)
DispatchTargetsListed ==
    \A h \in DOMAIN handles :
        handles[h].receiving =>
            /\ handles[h].handler \in DOMAIN receivers
            /\ receivers[handles[h].handler].handle = h

(* Two listed receivers listen on a common address and port only if both    *)
(* are multicast ones: a unicast channel is never shared.                   *)
UnicastChannelsExclusive ==
    \A i, j \in DOMAIN receivers :
        /\ i # j
        /\ Overlap(handles[receivers[i].handle], handles[receivers[j].handle])
        => IsMulticast(receivers[i].locator) /\ IsMulticast(receivers[j].locator)

(* No listed receiver shares an address and port with the socket of a       *)
(* sender: a sender that got the address first keeps every later receiver   *)
(* of it from opening, and a receiver leaves a later sender unbound.        *)
SendersAndReceiversApart ==
    \A i \in DOMAIN receivers, j \in DOMAIN senders :
        ~Overlap(handles[receivers[i].handle], handles[senders[j].handle])

(* The sockets a multicast open has bound: those of the listed receivers of *)
(* groups, and those a failed join left behind.                             *)
GroupSockets ==
    {receivers[i].handle : i \in {j \in DOMAIN receivers : IsMulticast(receivers[j].locator)}}
    \cup {h \in DOMAIN handles : handles[h].handler = Dangling /\ handles[h].addr # Unbound}

(* Groups stay open to everybody: once some group has been opened on a port,*)
(* even in vain because the join failed and left the port bound, the kernel *)
(* never again refuses a bind for a group on that port, in any factory; no  *)
(* sender and no unicast receiver gets in between.                          *)
GroupOpensNeverBlocked ==
    \A h \in GroupSockets, f \in Factories, l \in Locators :
        IsMulticast(l) /\ l.port = handles[h].port => InputCanBind(f, l)

(* Of the receivers of one locator at most one has a callback, so a         *)
(* datagram that several sockets of a group receive is consumed once.       *)
OneConsumerPerLocator ==
    \A i, j \in DOMAIN receivers :
        /\ receivers[i].locator = receivers[j].locator
        /\ receivers[i].callback # NoCallback
        /\ receivers[j].callback # NoCallback
        => i = j

(* No call changes a socket that is bound: opening another channel, failing *)
(* to open one or destroying a factory never disturbs an open channel.      *)
BoundSocketsUndisturbed ==
    [][\A h \in DOMAIN handles :
          handles[h].addr # Unbound => handles'[h] = handles[h]]_vars

-----------------------------------------------------------------------------
(***************************************************************************)
(* The directory the application sees: what each locator was answered with,*)
(* and the last answer.                                                    *)
(***************************************************************************)
Directory == INSTANCE ChannelDirectory WITH
    Resources <- 1..MaxHandles,
    Nothing   <- 0,
    Nowhere   <- Gone,
    answer    <- IF event.what \in {"receiver", "sender"} THEN event ELSE Did("none")

(* A call that asks for the receiver or the sender of a locator is answered *)
(* with the resource the same locator was answered with before, by whatever *)
(* factory, and that no other locator was; a receiver may be refused at any *)
(* time, a sender not once there has been one.                              *)
DirectorySpec == Directory!Spec

-----------------------------------------------------------------------------
(***************************************************************************)
(* What the documentation says and the code does not do.                   *)
(***************************************************************************)
(* do_input_locators_match on the caller's variable, which is what          *)
(* support_locator reads.                                                   *)
SupportLocator(i, l) ==
    /\ slot[receivers[i].ref].kind = l.kind
    /\ slot[receivers[i].ref].port = l.port

(* ReceiverResource.h:56-57: support_locator reports whether the locator    *)
(* "maps to the transport channel managed by this resource", so it holds of *)
(* the locator the resource was built for.                                  *)
SupportsOwnLocator ==
    \A i \in heldReceivers :
        slot[receivers[i].ref] # Gone => SupportLocator(i, receivers[i].locator)

(* ReceiverResource.h:32-34: TransportFactory "guarantees the transport and *)
(* channel are in a valid state for this resource to exist".                *)
TransportOutlivesReceiver ==
    \A i \in heldReceivers : receivers[i].owner \in alive

(* ReceiverResource.h:25-27: "the act of constructing a Receiver Resource   *)
(* opens the channel and its destruction closes it", so a socket is bound   *)
(* only for a resource there is.                                            *)
ChannelClosesWithResource ==
    \A h \in DOMAIN handles :
        handles[h].addr # Unbound =>
            \/ \E i \in DOMAIN receivers : receivers[i].handle = h
            \/ \E i \in DOMAIN senders : senders[i].handle = h

=============================================================================
