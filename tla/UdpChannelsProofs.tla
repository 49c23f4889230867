-------------------------- MODULE UdpChannelsProofs --------------------------
(***************************************************************************)
(* Proofs about UdpChannels, for every value of its constants.             *)
(***************************************************************************)
EXTENDS UdpChannels, WellFoundedInduction, SequenceTheorems, TLAPS

(***************************************************************************)
(* The inductive invariant.  What makes the code correct is that the cache *)
(* udp_handles_ never holds a handle: every call then works on a socket of *)
(* its own, the last of handles, and leaves the others as they are.        *)
(***************************************************************************)
NothingRemembered == \A f \in Factories, k \in Kinds : udpHandles[f][k] = <<>>

(* A socket of a receiver allows reuse exactly for a group; one of a sender *)
(* never does, never receives and has no handler.                           *)
ReceiverSockets ==
    \A i \in DOMAIN receivers :
        handles[receivers[i].handle].reuse = IsMulticast(receivers[i].locator)

SenderSockets ==
    \A j \in DOMAIN senders :
        LET h == handles[senders[j].handle] IN
        h.handler = NoHandler /\ ~h.receiving /\ ~h.reuse

(* What an application holds is the first resource of its locator, and only *)
(* what it holds has a callback.                                            *)
HeldReceiversAreFirst ==
    \A i \in heldReceivers, j \in DOMAIN receivers :
        receivers[j].locator = receivers[i].locator => i <= j

HeldSendersAreFirst ==
    \A i \in heldSenders, j \in DOMAIN senders :
        senders[j].locator = senders[i].locator => i <= j

CallbacksAreHeld ==
    \A i \in DOMAIN receivers :
        receivers[i].callback # NoCallback => i \in heldReceivers

(* What the calls were answered is filed under the locators of the          *)
(* resources: a call gets only a resource of the locator it asked for.      *)
Given(list, held, l) == {i \in held : list[i].locator = l}

AnswersFiled ==
    \A l \in Locators : /\ listener[l] = Given(receivers, heldReceivers, l)
                        /\ speaker[l] = Given(senders, heldSenders, l)

(* A socket left behind by a failed join has the address of every group.    *)
AbandonedSockets ==
    \A h \in DOMAIN handles :
        handles[h].handler = Dangling /\ handles[h].addr # Unbound
        => handles[h].addr = AnyTail /\ handles[h].reuse

(* Two sockets overlap only if both allow reuse.                            *)
OverlapsAreShared ==
    \A g, h \in DOMAIN handles :
        g # h /\ Overlap(handles[g], handles[h]) => handles[g].reuse /\ handles[h].reuse

(* A resource is listed only with a socket of its own.                      *)
ListsWithinSockets ==
    Len(receivers) <= Len(handles) /\ Len(senders) <= Len(handles)

IInv ==
    /\ TypeOK
    /\ ListsWithinSockets
    /\ NothingRemembered
    /\ ReceiverOwnsChannel
    /\ DispatchTargetsListed
    /\ ReceiverSockets
    /\ SenderSockets
    /\ UnicastChannelsExclusive
    /\ SendersAndReceiversApart
    /\ AbandonedSockets
    /\ OverlapsAreShared
    /\ HeldReceiversAreFirst
    /\ HeldSendersAreFirst
    /\ CallbacksAreHeld
    /\ AnswersFiled

-----------------------------------------------------------------------------
(* find_if returns an index of the list, of an element with the locator and *)
(* with none before it, or 0 when no element has the locator.               *)
LEMMA FirstMatchProperties ==
    ASSUME NEW S, NEW list \in Seq(S), NEW l
    PROVE  /\ FirstMatch(list, l) \in 0..Len(list)
           /\ FirstMatch(list, l) # 0 =>
                 /\ list[FirstMatch(list, l)].locator = l
                 /\ \A j \in 1..Len(list) :
                       list[j].locator = l => FirstMatch(list, l) <= j
           /\ FirstMatch(list, l) = 0 =>
                 \A j \in 1..Len(list) : list[j].locator # l
<1> DEFINE I == {i \in 1..Len(list) : list[i].locator = l}
<1>1. FirstMatch(list, l) = IF I # {} THEN Min(I) ELSE 0
  BY DEF FirstMatch, SelectInSeq
<1>2. CASE I = {}
  BY <1>1, <1>2
<1>3. CASE I # {}
  <2>1. I \in SUBSET Nat
    OBVIOUS
  <2>2. \E n \in I : \A m \in I : n <= m
    <3> HIDE DEF I
    <3>1. PICK n \in I : \A m \in I : <<m, n>> \notin OpToRel(<, Nat)
      BY <1>3, <2>1, WFMin, NatLessThanWellFounded, Zenon
    <3>2. \A m \in I : ~(m < n)
      BY <2>1, <3>1 DEF OpToRel
    <3> QED BY <2>1, <3>2
  <2>3. Min(I) \in I /\ \A m \in I : Min(I) <= m
    BY <2>2 DEF Min
  <2> QED
    BY <1>1, <1>3, <2>3
<1> QED
  BY <1>2, <1>3

-----------------------------------------------------------------------------
(* While the cache is empty a call works on a new socket, appended to       *)
(* handles, and the cache stays empty.                                      *)
LEMMA FreshSocket ==
    ASSUME TypeOK, NothingRemembered, NEW f \in Factories, NEW l, l.kind \in Kinds
    PROVE  /\ SocketFor(f, l) = Len(handles) + 1
           /\ WithSocket(f, l) = Append(handles, FreshHandle)
           /\ Remember(f, l) = udpHandles
<1>1. udpHandles[f][l.kind] = <<>>
  BY DEF NothingRemembered
<1>2. Match(f, l) = 0
  BY <1>1 DEF Match, SelectInSeq
<1> QED
  BY <1>2 DEF SocketFor, WithSocket, Remember

(* A socket is appended: the others keep their index and their state. *)
LEMMA Appended ==
    ASSUME NEW S, NEW list \in Seq(S), NEW e \in S
    PROVE  /\ Append(list, e) \in Seq(S)
           /\ Len(Append(list, e)) = Len(list) + 1
           /\ DOMAIN Append(list, e) = DOMAIN list \cup {Len(list) + 1}
           /\ DOMAIN list = 1..Len(list) /\ Len(list) \in Nat
           /\ \A i \in DOMAIN list : Append(list, e)[i] = list[i]
           /\ Append(list, e)[Len(list) + 1] = e
OBVIOUS

(* Updating the last element of a sequence just appended to.                *)
LEMMA UpdateLast ==
    ASSUME NEW S, NEW list \in Seq(S), NEW d \in S, NEW e \in S
    PROVE  [Append(list, d) EXCEPT ![Len(list) + 1] = e] = Append(list, e)
<1> DEFINE n == Len(list) + 1
           before == Append(list, d)
           after == Append(list, e)
<1>1. /\ before \in Seq(S) /\ Len(before) = n
      /\ \A i \in 1..Len(list) : before[i] = list[i]
  OBVIOUS
<1>2. /\ after \in Seq(S) /\ Len(after) = n /\ after[n] = e
      /\ \A i \in 1..Len(list) : after[i] = list[i]
  OBVIOUS
<1>3. n \in 1..Len(before) /\ \A i \in 1..n : i = n \/ i \in 1..Len(list)
  BY <1>1
<1> HIDE DEF before, after
<1>4. /\ [before EXCEPT ![n] = e] \in Seq(S)
      /\ Len([before EXCEPT ![n] = e]) = n
      /\ \A j \in 1..n : [before EXCEPT ![n] = e][j] = IF j = n THEN e ELSE before[j]
  BY <1>1, <1>3, ExceptSeq
<1>5. \A j \in 1..n : [before EXCEPT ![n] = e][j] = after[j]
  BY <1>1, <1>2, <1>3, <1>4
<1>6. [before EXCEPT ![n] = e] = after
  BY <1>2, <1>4, <1>5, SeqEqual
<1> QED
  BY <1>6 DEF before, after

(* The parts of a locator a socket is bound with have their types. *)
LEMMA LocatorParts ==
    ASSUME NEW l \in Locators
    PROVE  /\ l.tail \in Tails /\ BindAddr(l) \in Tails
           /\ l.port \in PhysicalPorts
           /\ IsMulticast(l) \in BOOLEAN
           /\ Unbound \notin Tails
           /\ l # Gone
BY AddressAssumption, ValuesAssumption DEF Tails, BindAddr, PhysicalPorts, IsMulticast

(***************************************************************************)
(* What each call that creates a socket appends to handles.                *)
(***************************************************************************)
IsSocket(g, addr, port, reuse, joined, receiving, handler) ==
    /\ g \in Handle
    /\ g.addr = addr /\ g.port = port /\ g.reuse = reuse
    /\ g.joined = joined /\ g.receiving = receiving /\ g.handler = handler

(* The indices and the elements of a list that has grown by one.            *)
LEMMA DomainAppended ==
    ASSUME NEW S, NEW list \in Seq(S), NEW e \in S
    PROVE  DOMAIN Append(list, e) \ {Len(list) + 1} = DOMAIN list
<1>1. Len(list) + 1 \notin DOMAIN list
  OBVIOUS
<1>2. DOMAIN Append(list, e) = DOMAIN list \cup {Len(list) + 1}
  BY Appended
<1> QED
  BY <1>1, <1>2

LEMMA NewSocketHandler ==
    ASSUME TypeOK, NothingRemembered,
           NEW f \in Factories, NEW l \in Locators, l.kind \in Kinds, NEW who \in Int
    PROVE  \E g : /\ WithHandler(f, l, who) = Append(handles, g)
                  /\ IsSocket(g, Unbound, 0, FALSE, {}, FALSE, who)
<1> DEFINE n == Len(handles) + 1
           grown == Append(handles, FreshHandle)
           g == [FreshHandle EXCEPT !.handler = who]
<1>1. handles \in Seq(Handle)
  BY DEF TypeOK
<1>2. FreshHandle \in Handle /\ IsSocket(g, Unbound, 0, FALSE, {}, FALSE, who)
  <2>1. IsSocket(FreshHandle, Unbound, 0, FALSE, {}, FALSE, NoHandler)
    BY DEF FreshHandle, Handle, IsSocket, NoHandler
  <2> QED
    BY <2>1 DEF IsSocket, Handle
<1>3. grown[n] = FreshHandle
  BY <1>1, <1>2, Appended
<1>4. WithHandler(f, l, who) = [grown EXCEPT ![n] = [grown[n] EXCEPT !.handler = who]]
  BY FreshSocket DEF WithHandler
<1>5. WithHandler(f, l, who) = [grown EXCEPT ![n] = g]
  BY <1>3, <1>4
<1>6. g \in Handle
  BY <1>2 DEF IsSocket
<1> HIDE DEF g
<1>7. [grown EXCEPT ![n] = g] = Append(handles, g)
  BY <1>1, <1>2, <1>6, UpdateLast
<1>8. WithHandler(f, l, who) = Append(handles, g)
  BY <1>5, <1>7
<1> QED
  BY <1>2, <1>8

(* A bind that succeeds puts the socket where it overlaps another only if   *)
(* both allow reuse.                                                        *)
LEMMA NewSocketCanBind ==
    ASSUME TypeOK, NothingRemembered,
           NEW f \in Factories, NEW l, l.kind \in Kinds,
           NEW addr, NEW port, NEW reuse,
           CanBind(WithSocket(f, l), SocketFor(f, l), addr, port, reuse),
           NEW g, g.addr = addr, g.port = port
    PROVE  \A h \in DOMAIN handles :
              Overlap(handles[h], g) => reuse /\ handles[h].reuse
<1> DEFINE n == Len(handles) + 1
           grown == Append(handles, FreshHandle)
<1>1. handles \in Seq(Handle) /\ FreshHandle \in Handle
  BY DEF TypeOK, FreshHandle, Handle, NoHandler
<1>2. /\ grown[n] = FreshHandle
      /\ \A h \in DOMAIN handles : grown[h] = handles[h]
  BY <1>1, Appended
<1>3. DOMAIN handles = DOMAIN grown \ {n}
  BY <1>1, DomainAppended
<1>4. CanBind(grown, n, addr, port, reuse)
  BY FreshSocket
<1> HIDE DEF grown, n
<1>5. \A h \in DOMAIN handles :
         Overlap(handles[h], Bound(FreshHandle, addr, port, reuse))
         => reuse /\ handles[h].reuse
  BY <1>2, <1>3, <1>4 DEF CanBind
<1>6. /\ Bound(FreshHandle, addr, port, reuse).addr = addr
      /\ Bound(FreshHandle, addr, port, reuse).port = port
  BY DEF Bound, FreshHandle
<1> QED
  BY <1>5, <1>6 DEF Overlap

LEMMA BindRefusedSocket ==
    ASSUME TypeOK, NothingRemembered,
           NEW f \in Factories, NEW s \in Slots, BindRefused(f, s)
    PROVE  \E g : /\ handles' = Append(handles, g)
                  /\ IsSocket(g, Unbound, 0, FALSE, {}, FALSE, Dangling)
<1>1. slot[s] \in Locators /\ slot[s].kind \in Kinds /\ Dangling \in Int
  BY DEF TypeOK, BindRefused, OpensInput, Kinds, Dangling
<1>2. handles' = WithHandler(f, slot[s], Dangling)
  BY DEF BindRefused
<1> QED
  BY <1>1, <1>2, NewSocketHandler

LEMMA JoinRefusedSocket ==
    ASSUME TypeOK, NothingRemembered,
           NEW f \in Factories, NEW s \in Slots, JoinRefused(f, s)
    PROVE  \E g : /\ handles' = Append(handles, g)
                  /\ IsSocket(g, AnyTail, slot[s].port, TRUE, {}, FALSE, Dangling)
<1> DEFINE l == slot[s]
           n == Len(handles) + 1
<1>1. /\ l \in Locators /\ l.kind \in Kinds /\ handles \in Seq(Handle)
      /\ Dangling \in Int
  BY DEF TypeOK, JoinRefused, OpensInput, Kinds, Dangling
<1>2. InputReuse(l) = TRUE
  BY <1>1 DEF JoinRefused, InputReuse, IsMulticast
<1>3. SocketFor(f, l) = n
  BY <1>1, FreshSocket
<1>4. PICK g : /\ WithHandler(f, l, Dangling) = Append(handles, g)
               /\ IsSocket(g, Unbound, 0, FALSE, {}, FALSE, Dangling)
  BY <1>1, NewSocketHandler
<1> DEFINE bound == Bound(g, AnyTail, l.port, TRUE)
<1>5. IsSocket(bound, AnyTail, l.port, TRUE, {}, FALSE, Dangling)
  BY <1>1, <1>4, LocatorParts DEF Bound, IsSocket, Handle, Tails
<1>6. g \in Handle /\ bound \in Handle
  BY <1>4, <1>5 DEF IsSocket
<1>7. Append(handles, g)[n] = g
  BY <1>1, <1>6, Appended
<1>8. handles' = [Append(handles, g) EXCEPT ![n] =
                     Bound(Append(handles, g)[n], AnyTail, l.port, TRUE)]
  BY <1>2, <1>3, <1>4 DEF JoinRefused
<1>9. handles' = [Append(handles, g) EXCEPT ![n] = bound]
  BY <1>7, <1>8
<1> HIDE DEF bound
<1>10. [Append(handles, g) EXCEPT ![n] = bound] = Append(handles, bound)
  BY <1>1, <1>6, UpdateLast
<1> QED
  BY <1>5, <1>9, <1>10

LEMMA OpenSocket ==
    ASSUME TypeOK, NothingRemembered,
           NEW f \in Factories, NEW s \in Slots, BuildReceiverOpen(f, s)
    PROVE  \E g : /\ handles' = Append(handles, g)
                  /\ IsSocket(g, BindAddr(slot[s]), slot[s].port, IsMulticast(slot[s]),
                              IF IsMulticast(slot[s]) THEN {slot[s].tail} ELSE {},
                              TRUE, Len(receivers) + 1)
<1> DEFINE l == slot[s]
           n == Len(handles) + 1
           who == Len(receivers) + 1
           joined == IF IsMulticast(l) THEN {l.tail} ELSE {}
<1>1. /\ l \in Locators /\ l.kind \in Kinds /\ handles \in Seq(Handle)
      /\ who \in Int
  BY DEF TypeOK, BuildReceiverOpen, OpensInput, Kinds
<1>2. SocketFor(f, l) = n
  BY <1>1, FreshSocket
<1>3. PICK g : /\ WithHandler(f, l, who) = Append(handles, g)
               /\ IsSocket(g, Unbound, 0, FALSE, {}, FALSE, who)
  BY <1>1, NewSocketHandler
<1> DEFINE bound == Bound(g, BindAddr(l), l.port, InputReuse(l))
           open == Opened(g, l)
<1>4. IsSocket(bound, BindAddr(l), l.port, IsMulticast(l), {}, FALSE, who)
  BY <1>1, <1>3, LocatorParts DEF Bound, IsSocket, Handle, InputReuse
<1>5. joined \in SUBSET Tails
  BY <1>1, LocatorParts
<1>6. IsSocket(open, BindAddr(l), l.port, IsMulticast(l), joined, TRUE, who)
  <2>1. open = [bound EXCEPT
                   !.joined = IF IsMulticast(l) THEN @ \cup {l.tail} ELSE @,
                   !.receiving = TRUE]
    BY DEF Opened
  <2>2. CASE IsMulticast(l)
    <3>1. open = [bound EXCEPT !.joined = @ \cup {l.tail}, !.receiving = TRUE]
      BY <2>1, <2>2
    <3> HIDE DEF bound, open
    <3> QED BY <1>4, <1>5, <2>2, <3>1 DEF IsSocket, Handle
  <2>3. CASE ~IsMulticast(l)
    <3>1. open = [bound EXCEPT !.joined = @, !.receiving = TRUE]
      BY <2>1, <2>3
    <3> HIDE DEF bound, open
    <3> QED BY <1>4, <2>3, <3>1 DEF IsSocket, Handle
  <2> QED
    BY <2>2, <2>3
<1>7. g \in Handle /\ open \in Handle
  BY <1>3, <1>6 DEF IsSocket
<1>8. Append(handles, g)[n] = g
  BY <1>1, <1>7, Appended
<1>9. handles' = [Append(handles, g) EXCEPT ![n] = Opened(Append(handles, g)[n], l)]
  BY <1>2, <1>3 DEF BuildReceiverOpen
<1>10. handles' = [Append(handles, g) EXCEPT ![n] = open]
  BY <1>8, <1>9
<1>11. [Append(handles, g) EXCEPT ![n] = open] = Append(handles, open)
  <2> HIDE DEF open
  <2> QED BY <1>1, <1>7, UpdateLast
<1>12. handles' = Append(handles, open)
  BY <1>10, <1>11
<1> HIDE DEF open
<1> QED
  BY <1>6, <1>12

LEMMA SenderBoundSocket ==
    ASSUME TypeOK, NothingRemembered,
           NEW f \in Factories, NEW l \in Locators, BuildSenderBound(f, l)
    PROVE  \E g : /\ handles' = Append(handles, g)
                  /\ IsSocket(g, l.tail, l.port, FALSE, {}, FALSE, NoHandler)
<1> DEFINE n == Len(handles) + 1
           bound == Bound(FreshHandle, l.tail, l.port, FALSE)
<1>1. l.kind \in Kinds /\ handles \in Seq(Handle)
  BY DEF TypeOK, BuildSenderBound, OpensOutput, Kinds
<1>2. IsSocket(FreshHandle, Unbound, 0, FALSE, {}, FALSE, NoHandler)
  BY DEF FreshHandle, Handle, IsSocket, NoHandler
<1>3. IsSocket(bound, l.tail, l.port, FALSE, {}, FALSE, NoHandler)
  BY <1>2, LocatorParts DEF Bound, IsSocket, Handle
<1>4. FreshHandle \in Handle /\ bound \in Handle
  BY <1>2, <1>3 DEF IsSocket
<1>5. Append(handles, FreshHandle)[n] = FreshHandle
  BY <1>1, <1>4, Appended
<1>6. handles' = [Append(handles, FreshHandle) EXCEPT ![n] =
                     Bound(Append(handles, FreshHandle)[n], l.tail, l.port, FALSE)]
  <2>1. WithSocket(f, l) = Append(handles, FreshHandle) /\ SocketFor(f, l) = n
    BY <1>1, FreshSocket
  <2> QED
    BY <2>1 DEF BuildSenderBound, SenderReuse
<1>7. handles' = [Append(handles, FreshHandle) EXCEPT ![n] = bound]
  BY <1>5, <1>6
<1> HIDE DEF bound
<1>8. [Append(handles, FreshHandle) EXCEPT ![n] = bound] = Append(handles, bound)
  BY <1>1, <1>4, UpdateLast
<1> QED
  BY <1>3, <1>7, <1>8

LEMMA SenderUnboundSocket ==
    ASSUME TypeOK, NothingRemembered,
           NEW f \in Factories, NEW l \in Locators, BuildSenderUnbound(f, l)
    PROVE  \E g : /\ handles' = Append(handles, g)
                  /\ IsSocket(g, Unbound, 0, FALSE, {}, FALSE, NoHandler)
<1>1. l.kind \in Kinds
  BY DEF TypeOK, BuildSenderUnbound, OpensOutput, Kinds
<1>2. handles' = Append(handles, FreshHandle)
  BY <1>1, FreshSocket DEF BuildSenderUnbound
<1>3. IsSocket(FreshHandle, Unbound, 0, FALSE, {}, FALSE, NoHandler)
  BY DEF FreshHandle, Handle, IsSocket, NoHandler
<1> QED
  BY <1>2, <1>3

-----------------------------------------------------------------------------
(***************************************************************************)
(* Every step preserves the invariant: one lemma for each shape of step.   *)
(***************************************************************************)
LEMMA InitInv == Init => IInv
<1> SUFFICES ASSUME Init PROVE IInv
  OBVIOUS
<1> USE DEF Init
<1>1. TypeOK
  BY ValuesAssumption DEF TypeOK, Events, Did, Kinds
<1>2. NothingRemembered /\ ListsWithinSockets
  BY DEF NothingRemembered, ListsWithinSockets
<1>3. /\ ReceiverOwnsChannel /\ ReceiverSockets /\ UnicastChannelsExclusive
      /\ SendersAndReceiversApart /\ CallbacksAreHeld
  BY DEF ReceiverOwnsChannel, ReceiverSockets, UnicastChannelsExclusive,
         SendersAndReceiversApart, CallbacksAreHeld
<1>4. /\ DispatchTargetsListed /\ SenderSockets /\ AbandonedSockets
      /\ OverlapsAreShared
  BY DEF DispatchTargetsListed, SenderSockets, AbandonedSockets, OverlapsAreShared
<1>5. HeldReceiversAreFirst /\ HeldSendersAreFirst /\ AnswersFiled
  BY DEF HeldReceiversAreFirst, HeldSendersAreFirst, AnswersFiled, Given
<1> QED
  BY <1>1, <1>2, <1>3, <1>4, <1>5 DEF IInv

(* A step that touches neither sockets nor lists.                           *)
LEMMA QuietStep ==
    ASSUME IInv, UNCHANGED <<udpHandles, handles, lists>>,
           slot' \in [Slots -> Locators \cup {Gone}], alive' \subseteq Factories,
           registered' \in [Factories -> SUBSET Kinds], event' \in Events
    PROVE  IInv'
<1> USE DEF IInv, lists
<1>1. TypeOK'
  BY DEF TypeOK
<1>2. /\ NothingRemembered' /\ ReceiverOwnsChannel' /\ DispatchTargetsListed'
      /\ ListsWithinSockets'
  BY DEF NothingRemembered, ReceiverOwnsChannel, DispatchTargetsListed, ListsWithinSockets
<1>3. ReceiverSockets' /\ SenderSockets' /\ UnicastChannelsExclusive'
  BY DEF ReceiverSockets, SenderSockets, UnicastChannelsExclusive
<1>4. SendersAndReceiversApart' /\ AbandonedSockets' /\ OverlapsAreShared'
  BY DEF SendersAndReceiversApart, AbandonedSockets, OverlapsAreShared
<1>5. /\ HeldReceiversAreFirst' /\ HeldSendersAreFirst' /\ CallbacksAreHeld'
      /\ AnswersFiled'
  BY DEF HeldReceiversAreFirst, HeldSendersAreFirst, CallbacksAreHeld, AnswersFiled, Given
<1> QED
  BY <1>1, <1>2, <1>3, <1>4, <1>5

(* A new socket overlaps another only if both allow reuse.                  *)
LEMMA OverlapStep ==
    ASSUME OverlapsAreShared, handles \in Seq(Handle),
           NEW g \in Handle, handles' = Append(handles, g),
           \A h \in DOMAIN handles : Overlap(handles[h], g) => g.reuse /\ handles[h].reuse
    PROVE  OverlapsAreShared'
<1> DEFINE n == Len(handles) + 1
<1>1. /\ DOMAIN handles' = DOMAIN handles \cup {n}
      /\ handles'[n] = g
      /\ \A h \in DOMAIN handles : handles'[h] = handles[h]
  BY Appended
<1>2. \A h : Overlap(g, h) <=> Overlap(h, g)
  BY DEF Overlap
<1> HIDE DEF n
<1> SUFFICES ASSUME NEW x \in DOMAIN handles', NEW y \in DOMAIN handles', x # y,
                    Overlap(handles'[x], handles'[y])
             PROVE  handles'[x].reuse /\ handles'[y].reuse
  BY DEF OverlapsAreShared
<1>3. CASE x \in DOMAIN handles /\ y \in DOMAIN handles
  BY <1>1, <1>3 DEF OverlapsAreShared
<1>4. CASE x = n
  BY <1>1, <1>2, <1>4
<1>5. CASE y = n
  BY <1>1, <1>5
<1> QED
  BY <1>1, <1>3, <1>4, <1>5

(* An answer to a call for a receiver is filed under the locator of the     *)
(* resource, if that is the locator asked for.                              *)
LEMMA ReceiverFiled ==
    ASSUME TypeOK, AnswersFiled, NEW l \in Locators, NEW i \in 0..MaxHandles,
           AnswerReceiver(l, i), UNCHANGED senders,
           i # 0 => i \in DOMAIN receivers' /\ receivers'[i].locator = l,
           \A j \in DOMAIN receivers :
               j \in DOMAIN receivers' /\ receivers'[j].locator = receivers[j].locator
    PROVE  /\ AnswersFiled'
           /\ listener' \in [Locators -> SUBSET DOMAIN receivers']
           /\ heldReceivers' \subseteq DOMAIN receivers'
           /\ heldReceivers' = (IF i = 0 THEN heldReceivers ELSE heldReceivers \cup {i})
           /\ UNCHANGED <<heldSenders, speaker>>
           /\ event' \in Events
<1>1. /\ heldReceivers' = (IF i = 0 THEN heldReceivers ELSE heldReceivers \cup {i})
      /\ listener' = [listener EXCEPT ![l] = IF i = 0 THEN @ ELSE @ \cup {i}]
      /\ UNCHANGED <<heldSenders, speaker>>
  BY DEF AnswerReceiver, Hold
<1>2. event' \in Events
  BY DEF AnswerReceiver, Answer, Events
<1>3. /\ heldReceivers \subseteq DOMAIN receivers
      /\ listener \in [Locators -> SUBSET DOMAIN receivers]
  BY DEF TypeOK
<1>4. \A k \in Locators :
         listener'[k] = IF k = l /\ i # 0 THEN listener[k] \cup {i} ELSE listener[k]
  BY <1>1, <1>3
<1>5. ASSUME NEW k \in Locators PROVE listener'[k] = Given(receivers', heldReceivers', k)
  BY <1>1, <1>3, <1>4 DEF AnswersFiled, Given
<1>6. AnswersFiled'
  BY <1>1, <1>5 DEF AnswersFiled, Given
<1>7. listener' \in [Locators -> SUBSET DOMAIN receivers']
  BY <1>1, <1>3, <1>4
<1> QED
  BY <1>1, <1>2, <1>3, <1>6, <1>7

LEMMA SenderFiled ==
    ASSUME TypeOK, AnswersFiled, NEW l \in Locators, NEW i \in 0..MaxHandles,
           AnswerSender(l, i), UNCHANGED receivers,
           i # 0 => i \in DOMAIN senders' /\ senders'[i].locator = l,
           \A j \in DOMAIN senders :
               j \in DOMAIN senders' /\ senders'[j].locator = senders[j].locator
    PROVE  /\ AnswersFiled'
           /\ speaker' \in [Locators -> SUBSET DOMAIN senders']
           /\ heldSenders' \subseteq DOMAIN senders'
           /\ heldSenders' = (IF i = 0 THEN heldSenders ELSE heldSenders \cup {i})
           /\ UNCHANGED <<heldReceivers, listener>>
           /\ event' \in Events
<1>1. /\ heldSenders' = (IF i = 0 THEN heldSenders ELSE heldSenders \cup {i})
      /\ speaker' = [speaker EXCEPT ![l] = IF i = 0 THEN @ ELSE @ \cup {i}]
      /\ UNCHANGED <<heldReceivers, listener>>
  BY DEF AnswerSender, Hold
<1>2. event' \in Events
  BY DEF AnswerSender, Answer, Events
<1>3. /\ heldSenders \subseteq DOMAIN senders
      /\ speaker \in [Locators -> SUBSET DOMAIN senders]
  BY DEF TypeOK
<1>4. \A k \in Locators :
         speaker'[k] = IF k = l /\ i # 0 THEN speaker[k] \cup {i} ELSE speaker[k]
  BY <1>1, <1>3
<1>5. ASSUME NEW k \in Locators PROVE speaker'[k] = Given(senders', heldSenders', k)
  BY <1>1, <1>3, <1>4 DEF AnswersFiled, Given
<1>6. AnswersFiled'
  BY <1>1, <1>5 DEF AnswersFiled, Given
<1>7. speaker' \in [Locators -> SUBSET DOMAIN senders']
  BY <1>1, <1>3, <1>4
<1> QED
  BY <1>1, <1>2, <1>3, <1>6, <1>7

(* A call that opens nothing hands out the first match, if there is one.    *)
LEMMA NoOpenStep ==
    ASSUME IInv, NEW f \in Factories, NEW s \in Slots, BuildReceiverNoOpen(f, s)
    PROVE  IInv'
<1> DEFINE i == FirstMatch(receivers, slot[s])
<1> USE DEF IInv
<1>1. /\ UNCHANGED <<slot, alive, registered, udpHandles, handles, receivers, senders>>
      /\ AnswerReceiver(slot[s], i) /\ slot[s] \in Locators
  BY DEF BuildReceiverNoOpen, TypeOK
<1>2. /\ receivers \in Seq(ReceiverType)
      /\ DOMAIN receivers = 1..Len(receivers) /\ Len(receivers) \in 0..MaxHandles
  BY ValuesAssumption DEF TypeOK, ListsWithinSockets
<1>3. /\ i \in 0..Len(receivers)
      /\ i # 0 => /\ receivers[i].locator = slot[s]
                  /\ \A j \in DOMAIN receivers :
                        receivers[j].locator = receivers[i].locator => i <= j
  BY <1>2, FirstMatchProperties
<1> HIDE DEF i
<1>4. /\ heldReceivers' = (IF i = 0 THEN heldReceivers ELSE heldReceivers \cup {i})
      /\ UNCHANGED <<heldSenders, speaker>> /\ event' \in Events /\ AnswersFiled'
      /\ listener' \in [Locators -> SUBSET DOMAIN receivers']
  <2>1. i \in 0..MaxHandles /\ (i # 0 => i \in DOMAIN receivers')
    BY <1>1, <1>2, <1>3, ValuesAssumption
  <2> QED
    BY <1>1, <1>3, <2>1, ReceiverFiled
<1>5. TypeOK'
  BY <1>1, <1>2, <1>3, <1>4 DEF TypeOK
<1>6. /\ NothingRemembered' /\ ReceiverOwnsChannel' /\ DispatchTargetsListed'
      /\ ListsWithinSockets'
  BY <1>1 DEF NothingRemembered, ReceiverOwnsChannel, DispatchTargetsListed,
              ListsWithinSockets
<1>7. ReceiverSockets' /\ SenderSockets' /\ UnicastChannelsExclusive'
  BY <1>1 DEF ReceiverSockets, SenderSockets, UnicastChannelsExclusive
<1>8. SendersAndReceiversApart' /\ AbandonedSockets' /\ OverlapsAreShared'
  BY <1>1 DEF SendersAndReceiversApart, AbandonedSockets, OverlapsAreShared
<1>9. HeldReceiversAreFirst' /\ HeldSendersAreFirst' /\ CallbacksAreHeld'
  BY <1>1, <1>2, <1>3, <1>4
     DEF HeldReceiversAreFirst, HeldSendersAreFirst, CallbacksAreHeld
<1> QED
  BY <1>4, <1>5, <1>6, <1>7, <1>8, <1>9

LEMMA SenderNoOpenStep ==
    ASSUME IInv, NEW f \in Factories, NEW l \in Locators, BuildSenderNoOpen(f, l)
    PROVE  IInv'
<1> DEFINE i == FirstMatch(senders, l)
<1> USE DEF IInv
<1>1. /\ UNCHANGED <<slot, alive, registered, udpHandles, handles, receivers, senders>>
      /\ AnswerSender(l, i)
  BY DEF BuildSenderNoOpen
<1>2. /\ senders \in Seq(SenderType)
      /\ DOMAIN senders = 1..Len(senders) /\ Len(senders) \in 0..MaxHandles
  BY ValuesAssumption DEF TypeOK, ListsWithinSockets
<1>3. /\ i \in 0..Len(senders)
      /\ i # 0 => /\ senders[i].locator = l
                  /\ \A j \in DOMAIN senders :
                        senders[j].locator = senders[i].locator => i <= j
  BY <1>2, FirstMatchProperties
<1> HIDE DEF i
<1>4. /\ heldSenders' = (IF i = 0 THEN heldSenders ELSE heldSenders \cup {i})
      /\ UNCHANGED <<heldReceivers, listener>> /\ event' \in Events /\ AnswersFiled'
      /\ speaker' \in [Locators -> SUBSET DOMAIN senders']
  <2>1. i \in 0..MaxHandles /\ (i # 0 => i \in DOMAIN senders')
    BY <1>1, <1>2, <1>3, ValuesAssumption
  <2> QED
    BY <1>1, <1>3, <2>1, SenderFiled
<1>5. TypeOK'
  BY <1>1, <1>2, <1>3, <1>4 DEF TypeOK
<1>6. /\ NothingRemembered' /\ ReceiverOwnsChannel' /\ DispatchTargetsListed'
      /\ ListsWithinSockets'
  BY <1>1 DEF NothingRemembered, ReceiverOwnsChannel, DispatchTargetsListed,
              ListsWithinSockets
<1>7. ReceiverSockets' /\ SenderSockets' /\ UnicastChannelsExclusive'
  BY <1>1 DEF ReceiverSockets, SenderSockets, UnicastChannelsExclusive
<1>8. SendersAndReceiversApart' /\ AbandonedSockets' /\ OverlapsAreShared'
  BY <1>1 DEF SendersAndReceiversApart, AbandonedSockets, OverlapsAreShared
<1>9. HeldReceiversAreFirst' /\ HeldSendersAreFirst' /\ CallbacksAreHeld'
  BY <1>1, <1>2, <1>3, <1>4
     DEF HeldReceiversAreFirst, HeldSendersAreFirst, CallbacksAreHeld
<1> QED
  BY <1>4, <1>5, <1>6, <1>7, <1>8, <1>9

(* register_receiver changes the callback of a resource that is held.       *)
LEMMA RegisterReceiverStep ==
    ASSUME IInv, NEW i \in heldReceivers, NEW c \in Callbacks \cup {NoCallback},
           RegisterReceiver(i, c)
    PROVE  IInv'
<1> USE DEF IInv
<1>1. UNCHANGED <<slot, alive, registered, udpHandles, handles, senders,
                  heldReceivers, heldSenders, listener, speaker>>
  BY DEF RegisterReceiver
<1>2. /\ receivers \in Seq(ReceiverType) /\ i \in 1..Len(receivers)
      /\ DOMAIN receivers = 1..Len(receivers)
  BY DEF TypeOK
<1> DEFINE r == [receivers[i] EXCEPT !.callback = c]
<1>3. /\ r \in ReceiverType /\ r.locator = receivers[i].locator
      /\ r.handle = receivers[i].handle /\ r.callback = c
  <2>1. receivers[i] \in ReceiverType
    BY <1>2
  <2> QED
    BY <2>1 DEF ReceiverType
<1>4. receivers' = [receivers EXCEPT ![i] = r] /\ event' \in Events
  BY DEF RegisterReceiver, Events, Did
<1> HIDE DEF r
<1>5. /\ receivers' \in Seq(ReceiverType) /\ Len(receivers') = Len(receivers)
      /\ \A j \in DOMAIN receivers : receivers'[j] = IF j = i THEN r ELSE receivers[j]
  BY <1>2, <1>3, <1>4, ExceptSeq
<1>6. /\ DOMAIN receivers' = DOMAIN receivers
      /\ \A j \in DOMAIN receivers :
            /\ receivers'[j].locator = receivers[j].locator
            /\ receivers'[j].handle = receivers[j].handle
            /\ j # i => receivers'[j].callback = receivers[j].callback
  BY <1>2, <1>3, <1>5
<1>7. TypeOK'
  BY <1>1, <1>4, <1>5, <1>6 DEF TypeOK
<1>8. /\ NothingRemembered' /\ ReceiverOwnsChannel' /\ DispatchTargetsListed'
      /\ ListsWithinSockets'
  BY <1>1, <1>5, <1>6 DEF NothingRemembered, ReceiverOwnsChannel, DispatchTargetsListed,
                          ListsWithinSockets
<1>9. ReceiverSockets' /\ SenderSockets' /\ UnicastChannelsExclusive'
  BY <1>1, <1>6 DEF ReceiverSockets, SenderSockets, UnicastChannelsExclusive
<1>10. SendersAndReceiversApart' /\ AbandonedSockets' /\ OverlapsAreShared'
  BY <1>1, <1>6 DEF SendersAndReceiversApart, AbandonedSockets, OverlapsAreShared
<1>11. HeldReceiversAreFirst' /\ HeldSendersAreFirst' /\ CallbacksAreHeld'
  BY <1>1, <1>2, <1>6
     DEF HeldReceiversAreFirst, HeldSendersAreFirst, CallbacksAreHeld, TypeOK
<1>12. AnswersFiled'
  <2>1. heldReceivers \subseteq DOMAIN receivers
    BY DEF TypeOK
  <2> QED
    BY <1>1, <1>6, <2>1 DEF AnswersFiled, Given
<1> QED
  BY <1>7, <1>8, <1>9, <1>10, <1>11, <1>12

-----------------------------------------------------------------------------
(* A call that is refused leaves a socket that receives nothing, unbound or *)
(* bound to the port of a group.                                            *)
LEMMA RefusedStep ==
    ASSUME IInv, UNCHANGED <<slot, alive, registered, udpHandles, lists>>,
           event' \in Events, Len(handles) + 1 <= MaxHandles,
           NEW g \in Handle, handles' = Append(handles, g), ~g.receiving,
           g.addr # Unbound => g.addr = AnyTail /\ g.reuse,
           \A h \in DOMAIN handles : Overlap(handles[h], g) => g.reuse /\ handles[h].reuse
    PROVE  IInv'
<1> DEFINE n == Len(handles) + 1
<1> USE DEF IInv
<1>1. UNCHANGED <<slot, alive, registered, udpHandles, receivers, senders,
                  heldReceivers, heldSenders, listener, speaker>>
  BY DEF lists
<1>2. handles \in Seq(Handle)
  BY DEF TypeOK
<1>3. /\ handles' \in Seq(Handle) /\ Len(handles') = n
      /\ DOMAIN handles' = DOMAIN handles \cup {n}
      /\ handles'[n] = g
      /\ \A h \in DOMAIN handles : handles'[h] = handles[h]
  BY <1>2, Appended
<1>4. /\ \A i \in DOMAIN receivers : /\ receivers[i].handle \in DOMAIN handles
                                     /\ handles'[receivers[i].handle] = handles[receivers[i].handle]
      /\ \A i \in DOMAIN senders : /\ senders[i].handle \in DOMAIN handles
                                   /\ handles'[senders[i].handle] = handles[senders[i].handle]
  BY <1>3 DEF TypeOK
<1> HIDE DEF n
<1>5. TypeOK'
  <2>1. udpHandles' \in [Factories -> [Kinds -> Seq(DOMAIN handles')]]
    <3>1. Seq(DOMAIN handles) \subseteq Seq(DOMAIN handles')
      BY <1>3
    <3> QED
      BY <1>1, <3>1 DEF TypeOK
  <2> QED
    BY <1>1, <1>3, <1>4, <2>1 DEF TypeOK, n
<1>6. /\ NothingRemembered' /\ HeldReceiversAreFirst' /\ HeldSendersAreFirst'
      /\ CallbacksAreHeld' /\ AnswersFiled'
  BY <1>1 DEF NothingRemembered, HeldReceiversAreFirst, HeldSendersAreFirst,
              CallbacksAreHeld, AnswersFiled, Given
<1>7. ReceiverOwnsChannel' /\ ReceiverSockets' /\ SenderSockets'
  BY <1>1, <1>4 DEF ReceiverOwnsChannel, ReceiverSockets, SenderSockets
<1>8. DispatchTargetsListed' /\ ListsWithinSockets'
  BY <1>1, <1>2, <1>3 DEF DispatchTargetsListed, ListsWithinSockets, TypeOK, n
<1>9. UnicastChannelsExclusive' /\ SendersAndReceiversApart'
  BY <1>1, <1>4 DEF UnicastChannelsExclusive, SendersAndReceiversApart
<1>10. AbandonedSockets' /\ OverlapsAreShared'
  BY <1>1, <1>2, <1>3, OverlapStep DEF AbandonedSockets
<1> QED
  BY <1>5, <1>6, <1>7, <1>8, <1>9, <1>10

LEMMA OverlapSymmetric == \A g, h : Overlap(g, h) <=> Overlap(h, g)
BY DEF Overlap

(* The sequences over a set are among those over a larger one.              *)
LEMMA CacheStaysTyped ==
    ASSUME TypeOK, UNCHANGED udpHandles, DOMAIN handles \subseteq DOMAIN handles'
    PROVE  udpHandles' \in [Factories -> [Kinds -> Seq(DOMAIN handles')]]
<1>1. Seq(DOMAIN handles) \subseteq Seq(DOMAIN handles')
  OBVIOUS
<1> QED
  BY <1>1 DEF TypeOK

(* A channel is opened: a socket that nothing overlaps, unless it is one of *)
(* a group, and a resource that is the last of the list.                    *)
LEMMA OpenStep ==
    ASSUME IInv, NEW f \in Factories, NEW s \in Slots, BuildReceiverOpen(f, s)
    PROVE  IInv'
<1> DEFINE l == slot[s]
           n == Len(handles) + 1
           m == Len(receivers) + 1
           r == Receiver(f, s, n)
           first == FirstMatch(receivers', l)
<1> USE DEF IInv
<1>1. /\ l \in Locators /\ l.kind \in Kinds /\ n <= MaxHandles
      /\ SocketFor(f, l) = n /\ udpHandles' = udpHandles
      /\ InputCanBind(f, l)
  <2>1. l \in Locators /\ l.kind \in Kinds
    BY DEF TypeOK, BuildReceiverOpen, OpensInput, Kinds
  <2> QED
    BY <2>1, FreshSocket DEF BuildReceiverOpen, OpensInput
<1>2. /\ UNCHANGED <<slot, alive, registered, senders, heldSenders, speaker>>
      /\ AnswerReceiver(l, first)
  BY DEF BuildReceiverOpen, AnswerReceiver
<1>3. PICK g : /\ handles' = Append(handles, g)
               /\ IsSocket(g, BindAddr(l), l.port, IsMulticast(l),
                           IF IsMulticast(l) THEN {l.tail} ELSE {}, TRUE, m)
  BY OpenSocket
<1>4. g \in Handle /\ handles \in Seq(Handle)
  BY <1>3 DEF IsSocket, TypeOK
<1>5. /\ handles' \in Seq(Handle) /\ Len(handles') = n
      /\ DOMAIN handles' = DOMAIN handles \cup {n} /\ n \notin DOMAIN handles
      /\ handles'[n] = g /\ n \in Nat
      /\ \A h \in DOMAIN handles : handles'[h] = handles[h]
  <2>1. n \notin DOMAIN handles /\ n \in Nat
    BY <1>4
  <2> QED
    BY <1>3, <1>4, <2>1, Appended
<1>6. /\ r \in ReceiverType
      /\ r.locator = l /\ r.handle = n /\ r.callback = NoCallback
  BY <1>1, <1>5 DEF Receiver, ReceiverType
<1>7. /\ receivers' = Append(receivers, r) /\ receivers \in Seq(ReceiverType)
  BY <1>1 DEF BuildReceiverOpen, TypeOK
<1> HIDE DEF r
<1>8. /\ receivers' \in Seq(ReceiverType) /\ Len(receivers') = m
      /\ DOMAIN receivers' = DOMAIN receivers \cup {m} /\ m \in Nat
      /\ DOMAIN receivers = 1..Len(receivers) /\ Len(receivers) \in Nat
      /\ receivers'[m] = r
      /\ \A i \in DOMAIN receivers : receivers'[i] = receivers[i]
  BY <1>6, <1>7, Appended
<1>9. /\ first \in 0..m
      /\ first # 0 => /\ receivers'[first].locator = l
                      /\ \A j \in DOMAIN receivers' :
                         receivers'[j].locator = receivers'[first].locator => first <= j
  <2>1. DOMAIN receivers' = 1..Len(receivers')
    BY <1>8
  <2> QED
    BY <1>8, <2>1, FirstMatchProperties
<1>10. /\ heldReceivers' = (IF first = 0 THEN heldReceivers ELSE heldReceivers \cup {first})
       /\ event' \in Events /\ AnswersFiled'
       /\ heldReceivers' \subseteq DOMAIN receivers'
       /\ listener' \in [Locators -> SUBSET DOMAIN receivers']
  <2> HIDE DEF first
  <2>1. first \in 0..MaxHandles /\ (first # 0 => first \in DOMAIN receivers')
    <3>1. m <= n
      BY DEF ListsWithinSockets, TypeOK
    <3>2. DOMAIN receivers' = 1..m /\ m \in Nat
      BY <1>8
    <3> QED
      BY <1>1, <1>5, <1>9, <3>1, <3>2, ValuesAssumption
  <2> QED
    BY <1>1, <1>2, <1>8, <1>9, <2>1, ReceiverFiled
<1>11. \A h \in DOMAIN handles : Overlap(handles[h], g) => IsMulticast(l) /\ handles[h].reuse
  <2>1. g.addr = BindAddr(l) /\ g.port = l.port
    BY <1>3 DEF IsSocket
  <2> QED
    BY <1>1, <2>1, NewSocketCanBind DEF InputCanBind, InputReuse
<1> HIDE DEF n, m, first
<1>12. /\ \A i \in DOMAIN receivers :
             /\ receivers[i].handle \in DOMAIN handles
             /\ receivers'[i].handle # n
             /\ handles'[receivers'[i].handle] = handles[receivers[i].handle]
       /\ \A i \in DOMAIN senders :
             /\ senders[i].handle \in DOMAIN handles
             /\ handles'[senders[i].handle] = handles[senders[i].handle]
       /\ handles'[receivers'[m].handle] = g
  BY <1>5, <1>6, <1>8 DEF TypeOK
<1>13. TypeOK'
  <2>1. udpHandles' \in [Factories -> [Kinds -> Seq(DOMAIN handles')]]
    BY <1>1, <1>5, CacheStaysTyped
  <2>3. \A i \in DOMAIN receivers' : receivers'[i].handle \in DOMAIN handles'
    BY <1>5, <1>6, <1>8, <1>12
  <2>4. Len(handles') <= MaxHandles
    BY <1>1, <1>5
  <2> QED
    BY <1>2, <1>5, <1>8, <1>10, <1>12, <2>1, <2>3, <2>4 DEF TypeOK
<1>14. NothingRemembered' /\ HeldSendersAreFirst'
  BY <1>1, <1>2 DEF NothingRemembered, HeldSendersAreFirst
<1>15. ReceiverOwnsChannel'
  <2>1. \A i \in DOMAIN receivers :
           /\ receivers'[i].locator = receivers[i].locator
           /\ handles'[receivers'[i].handle] = handles[receivers[i].handle]
    BY <1>8, <1>12
  <2>2. /\ g.handler = m /\ g.receiving /\ g.addr = BindAddr(l) /\ g.port = l.port
        /\ IsMulticast(l) => l.tail \in g.joined
    BY <1>3 DEF IsSocket
  <2> QED
    BY <1>6, <1>8, <1>12, <2>1, <2>2 DEF ReceiverOwnsChannel
<1>16. DispatchTargetsListed'
  <2>1. g.handler = m
    BY <1>3 DEF IsSocket
  <2> QED
    BY <1>5, <1>6, <1>8, <2>1 DEF DispatchTargetsListed
<1>17. ReceiverSockets' /\ SenderSockets'
  <2>1. g.reuse = IsMulticast(l)
    BY <1>3 DEF IsSocket
  <2>2. ReceiverSockets'
    BY <1>6, <1>8, <1>12, <2>1 DEF ReceiverSockets
  <2> QED
    BY <1>2, <1>12, <2>2 DEF SenderSockets
<1>18. UnicastChannelsExclusive'
  <2>1. \A i \in DOMAIN receivers :
           Overlap(handles[receivers[i].handle], g)
           => IsMulticast(receivers[i].locator) /\ IsMulticast(l)
    BY <1>11, <1>12 DEF ReceiverSockets
  <2> QED
    BY <1>6, <1>8, <1>12, <2>1, OverlapSymmetric DEF UnicastChannelsExclusive
<1>19. SendersAndReceiversApart'
  <2>1. \A j \in DOMAIN senders : ~Overlap(handles[senders[j].handle], g)
    BY <1>11, <1>12 DEF SenderSockets
  <2> QED
    BY <1>2, <1>8, <1>12, <2>1, OverlapSymmetric DEF SendersAndReceiversApart
<1>20. AbandonedSockets' /\ OverlapsAreShared'
  <2>1. g.handler # Dangling /\ g.reuse = IsMulticast(l)
    BY <1>3, <1>8 DEF IsSocket, Dangling, m
  <2>2. AbandonedSockets'
    BY <1>5, <2>1 DEF AbandonedSockets
  <2>3. OverlapsAreShared'
    BY <1>3, <1>4, <1>11, <2>1, OverlapStep
  <2> QED
    BY <2>2, <2>3
<1>21. HeldReceiversAreFirst'
  <2>1. \A i \in heldReceivers : i \in DOMAIN receivers
    BY DEF TypeOK
  <2> QED
    BY <1>8, <1>9, <1>10, <2>1 DEF HeldReceiversAreFirst, m
<1>22. CallbacksAreHeld'
  BY <1>6, <1>8, <1>10 DEF CallbacksAreHeld
<1>23. ListsWithinSockets'
  BY <1>2, <1>4, <1>5, <1>8 DEF ListsWithinSockets, TypeOK, n, m
<1> QED
  BY <1>10, <1>13, <1>14, <1>15, <1>16, <1>17, <1>18, <1>19, <1>20, <1>21, <1>22, <1>23

(* A sender is listed, whether or not its socket could be bound: the socket *)
(* overlaps no other.                                                       *)
LEMMA ListSenderStep ==
    ASSUME IInv, NEW f \in Factories, NEW l \in Locators, OpensOutput(f, l),
           ListSender(f, l),
           NEW g \in Handle, handles' = Append(handles, g),
           g.handler = NoHandler, ~g.receiving, ~g.reuse,
           \A h \in DOMAIN handles : ~Overlap(handles[h], g)
    PROVE  IInv'
<1> DEFINE n == Len(handles) + 1
           m == Len(senders) + 1
           r == Sender(f, l, n)
           first == FirstMatch(senders', l)
<1> USE DEF IInv
<1>1. /\ l.kind \in Kinds /\ n <= MaxHandles
      /\ SocketFor(f, l) = n /\ udpHandles' = udpHandles
  <2>1. l.kind \in Kinds
    BY DEF TypeOK, OpensOutput, Kinds
  <2> QED
    BY <2>1, FreshSocket DEF OpensOutput, ListSender
<1>2. /\ UNCHANGED <<slot, alive, registered, receivers, heldReceivers, listener>>
      /\ AnswerSender(l, first)
  BY DEF ListSender, AnswerSender
<1>3. handles \in Seq(Handle)
  BY DEF TypeOK
<1>4. /\ handles' \in Seq(Handle) /\ Len(handles') = n
      /\ DOMAIN handles' = DOMAIN handles \cup {n} /\ n \notin DOMAIN handles
      /\ handles'[n] = g /\ n \in Nat
      /\ \A h \in DOMAIN handles : handles'[h] = handles[h]
  <2>1. n \notin DOMAIN handles /\ n \in Nat
    BY <1>3
  <2> QED
    BY <1>3, <2>1, Appended
<1>5. r \in SenderType /\ r.locator = l /\ r.handle = n
  BY <1>1, <1>4 DEF Sender, SenderType
<1>6. senders' = Append(senders, r) /\ senders \in Seq(SenderType)
  BY <1>1 DEF ListSender, TypeOK
<1> HIDE DEF r
<1>7. /\ senders' \in Seq(SenderType) /\ Len(senders') = m
      /\ DOMAIN senders' = DOMAIN senders \cup {m} /\ m \in Nat
      /\ DOMAIN senders = 1..Len(senders) /\ Len(senders) \in Nat
      /\ senders'[m] = r
      /\ \A i \in DOMAIN senders : senders'[i] = senders[i]
  BY <1>5, <1>6, Appended
<1>8. /\ first \in 0..m
      /\ first # 0 => /\ senders'[first].locator = l
                      /\ \A j \in DOMAIN senders' :
                         senders'[j].locator = senders'[first].locator => first <= j
  <2>1. DOMAIN senders' = 1..Len(senders')
    BY <1>7
  <2> QED
    BY <1>7, <2>1, FirstMatchProperties
<1>9. /\ heldSenders' = (IF first = 0 THEN heldSenders ELSE heldSenders \cup {first})
      /\ event' \in Events /\ AnswersFiled'
      /\ heldSenders' \subseteq DOMAIN senders'
      /\ speaker' \in [Locators -> SUBSET DOMAIN senders']
  <2> HIDE DEF first
  <2>1. first \in 0..MaxHandles /\ (first # 0 => first \in DOMAIN senders')
    <3>1. m <= n
      BY DEF ListsWithinSockets, TypeOK
    <3>2. DOMAIN senders' = 1..m /\ m \in Nat
      BY <1>7
    <3> QED
      BY <1>1, <1>4, <1>8, <3>1, <3>2, ValuesAssumption
  <2> QED
    BY <1>2, <1>7, <1>8, <2>1, SenderFiled
<1> HIDE DEF n, first
<1>10. /\ \A i \in DOMAIN receivers :
             /\ receivers[i].handle \in DOMAIN handles
             /\ handles'[receivers[i].handle] = handles[receivers[i].handle]
       /\ \A i \in DOMAIN senders :
             /\ senders[i].handle \in DOMAIN handles
             /\ handles'[senders'[i].handle] = handles[senders[i].handle]
       /\ handles'[senders'[m].handle] = g
  BY <1>4, <1>5, <1>7 DEF TypeOK
<1> HIDE DEF m
<1>12. TypeOK'
  <2>1. udpHandles' \in [Factories -> [Kinds -> Seq(DOMAIN handles')]]
    BY <1>1, <1>4, CacheStaysTyped
  <2>2. \A i \in DOMAIN senders' : senders'[i].handle \in DOMAIN handles'
    BY <1>4, <1>5, <1>7, <1>10
  <2>3. Len(handles') <= MaxHandles
    BY <1>1, <1>4
  <2> QED
    BY <1>2, <1>4, <1>7, <1>9, <1>10, <2>1, <2>2, <2>3 DEF TypeOK
<1>13. NothingRemembered' /\ HeldReceiversAreFirst' /\ CallbacksAreHeld'
  BY <1>1, <1>2 DEF NothingRemembered, HeldReceiversAreFirst, CallbacksAreHeld
<1>14. ReceiverOwnsChannel' /\ ReceiverSockets' /\ UnicastChannelsExclusive'
  BY <1>2, <1>10 DEF ReceiverOwnsChannel, ReceiverSockets, UnicastChannelsExclusive
<1>15. DispatchTargetsListed'
  BY <1>2, <1>4 DEF DispatchTargetsListed
<1>16. SenderSockets'
  BY <1>5, <1>7, <1>10 DEF SenderSockets
<1>17. SendersAndReceiversApart'
  <2> SUFFICES ASSUME NEW i \in DOMAIN receivers, NEW j \in DOMAIN senders'
               PROVE  ~Overlap(handles'[receivers[i].handle], handles'[senders'[j].handle])
    BY <1>2 DEF SendersAndReceiversApart
  <2>1. CASE j \in DOMAIN senders
    <3>1. ~Overlap(handles[receivers[i].handle], handles[senders[j].handle])
      BY <2>1 DEF SendersAndReceiversApart
    <3> QED
      BY <1>10, <2>1, <3>1
  <2>2. CASE j = m
    <3>1. handles'[receivers[i].handle] = handles[receivers[i].handle]
      BY <1>10
    <3>2. handles'[senders'[j].handle] = g /\ receivers[i].handle \in DOMAIN handles
      BY <1>10, <2>2
    <3> QED
      BY <3>1, <3>2
  <2> QED
    BY <1>7, <2>1, <2>2
<1>18. AbandonedSockets' /\ OverlapsAreShared'
  <2>1. AbandonedSockets'
    BY <1>4 DEF AbandonedSockets, NoHandler, Dangling
  <2>2. OverlapsAreShared'
    BY <1>3, OverlapStep
  <2> QED
    BY <2>1, <2>2
<1>19. HeldSendersAreFirst'
  <2>1. \A i \in heldSenders : i \in DOMAIN senders
    BY DEF TypeOK
  <2> QED
    BY <1>7, <1>8, <1>9, <2>1 DEF HeldSendersAreFirst, m
<1>20. ListsWithinSockets'
  BY <1>2, <1>3, <1>4, <1>7 DEF ListsWithinSockets, TypeOK, n, m
<1> QED
  BY <1>9, <1>12, <1>13, <1>14, <1>15, <1>16, <1>17, <1>18, <1>19, <1>20

LEMMA SenderBoundStep ==
    ASSUME IInv, NEW f \in Factories, NEW l \in Locators, BuildSenderBound(f, l)
    PROVE  IInv'
<1>1. PICK g : /\ handles' = Append(handles, g)
               /\ IsSocket(g, l.tail, l.port, FALSE, {}, FALSE, NoHandler)
  BY SenderBoundSocket DEF IInv
<1>2. g.addr = l.tail /\ g.port = l.port
  BY <1>1 DEF IsSocket
<1>3. /\ CanBind(WithSocket(f, l), SocketFor(f, l), l.tail, l.port, FALSE)
      /\ l.kind \in Kinds
  BY DEF BuildSenderBound, SenderReuse, OpensOutput, IInv, TypeOK
<1>4. \A h \in DOMAIN handles : ~Overlap(handles[h], g)
  BY <1>2, <1>3, NewSocketCanBind DEF IInv
<1> QED
  BY <1>1, <1>4, ListSenderStep DEF IsSocket, BuildSenderBound

LEMMA SenderUnboundStep ==
    ASSUME IInv, NEW f \in Factories, NEW l \in Locators, BuildSenderUnbound(f, l)
    PROVE  IInv'
<1>1. PICK g : /\ handles' = Append(handles, g)
               /\ IsSocket(g, Unbound, 0, FALSE, {}, FALSE, NoHandler)
  BY SenderUnboundSocket DEF IInv
<1>2. \A h \in DOMAIN handles : ~Overlap(handles[h], g)
  BY <1>1 DEF IsSocket, Overlap
<1> QED
  BY <1>1, <1>2, ListSenderStep DEF IsSocket, BuildSenderUnbound

-----------------------------------------------------------------------------
LEMMA RefusalIsEvent ==
    ASSUME TypeOK, NEW s \in Slots, slot[s] # Gone
    PROVE  Answer("receiver", slot[s], 0) \in Events
BY ValuesAssumption DEF TypeOK, Answer, Events

LEMMA NextInv == IInv /\ [Next]_vars => IInv'
<1> SUFFICES ASSUME IInv, [Next]_vars PROVE IInv'
  OBVIOUS
<1>1. ASSUME NEW s \in Slots, DropSlot(s) PROVE IInv'
  BY <1>1, QuietStep DEF DropSlot, lists, IInv, TypeOK, Events, Did
<1>2. ASSUME NEW s \in Slots, NEW l \in Locators, SetSlot(s, l) PROVE IInv'
  BY <1>2, QuietStep DEF SetSlot, lists, IInv, TypeOK, Events, Did
<1>3. ASSUME NEW f \in Factories, DestroyFactory(f) PROVE IInv'
  BY <1>3, QuietStep DEF DestroyFactory, lists, IInv, TypeOK, Events, Did
<1>4. ASSUME NEW f \in Factories, NEW k \in Descriptors, RegisterTransport(f, k)
      PROVE  IInv'
  BY <1>4, QuietStep, DescriptorsAssumption
     DEF RegisterTransport, lists, IInv, TypeOK, Events, Did
<1>5. ASSUME NEW f \in Factories, NEW s \in Slots, BuildReceiver(f, s) PROVE IInv'
  <2>1. CASE BuildReceiverNoOpen(f, s)
    BY <2>1, NoOpenStep
  <2>2. CASE BindRefused(f, s)
    <3>1. PICK g : /\ handles' = Append(handles, g)
                   /\ IsSocket(g, Unbound, 0, FALSE, {}, FALSE, Dangling)
      BY <2>2, BindRefusedSocket DEF IInv
    <3>2. /\ UNCHANGED <<slot, alive, registered, udpHandles, lists>>
          /\ event' \in Events
      BY <2>2, RefusalIsEvent DEF BindRefused, OpensInput, IInv
    <3>3. Len(handles) + 1 <= MaxHandles
      BY <2>2, FreshSocket DEF BindRefused, OpensInput, IInv, Kinds
    <3>4. \A h \in DOMAIN handles : ~Overlap(handles[h], g)
      BY <3>1 DEF IsSocket, Overlap
    <3> QED
      BY <3>1, <3>2, <3>3, <3>4, RefusedStep DEF IsSocket
  <2>3. CASE JoinRefused(f, s)
    <3>1. PICK g : /\ handles' = Append(handles, g)
                   /\ IsSocket(g, AnyTail, slot[s].port, TRUE, {}, FALSE, Dangling)
      BY <2>3, JoinRefusedSocket DEF IInv
    <3>2. /\ UNCHANGED <<slot, alive, registered, udpHandles, lists>>
          /\ event' \in Events
      BY <2>3, RefusalIsEvent DEF JoinRefused, OpensInput, IInv
    <3>3. Len(handles) + 1 <= MaxHandles
      BY <2>3, FreshSocket DEF JoinRefused, OpensInput, IInv, Kinds
    <3>4. \A h \in DOMAIN handles : Overlap(handles[h], g) => handles[h].reuse
      <4>1. /\ CanBind(WithSocket(f, slot[s]), SocketFor(f, slot[s]), AnyTail,
                       slot[s].port, TRUE)
            /\ slot[s].kind \in Kinds
        BY <2>3 DEF JoinRefused, InputCanBind, BindAddr, InputReuse, OpensInput, Kinds
      <4>2. g.addr = AnyTail /\ g.port = slot[s].port
        BY <3>1 DEF IsSocket
      <4> QED
        BY <4>1, <4>2, NewSocketCanBind DEF IInv
    <3> QED
      BY <3>1, <3>2, <3>3, <3>4, RefusedStep DEF IsSocket
  <2>4. CASE BuildReceiverOpen(f, s)
    BY <2>4, OpenStep
  <2> QED
    BY <1>5, <2>1, <2>2, <2>3, <2>4 DEF BuildReceiver
<1>6. ASSUME NEW f \in Factories, NEW l \in Locators, BuildSenderNoOpen(f, l) PROVE IInv'
  BY <1>6, SenderNoOpenStep
<1>7. ASSUME NEW f \in Factories, NEW l \in Locators, BuildSenderBound(f, l) PROVE IInv'
  BY <1>7, SenderBoundStep
<1>8. ASSUME NEW f \in Factories, NEW l \in Locators, BuildSenderUnbound(f, l) PROVE IInv'
  BY <1>8, SenderUnboundStep
<1>9. ASSUME NEW i \in heldReceivers, NEW c \in Callbacks \cup {NoCallback},
             RegisterReceiver(i, c)
      PROVE  IInv'
  BY <1>9, RegisterReceiverStep
<1>10. ASSUME NEW h \in DOMAIN handles, Dispatch(h) PROVE IInv'
  <2>1. event' \in Events
    BY <1>10 DEF Dispatch, Events, Did
  <2> QED
    BY <1>10, <2>1, QuietStep DEF Dispatch, lists, IInv, TypeOK
<1>11. CASE UNCHANGED vars
  BY <1>11, QuietStep DEF vars, lists, IInv, TypeOK
<1> QED
  BY <1>1, <1>2, <1>3, <1>4, <1>5, <1>6, <1>7, <1>8, <1>9, <1>10, <1>11 DEF Next, Application

(* The sockets, lists and callbacks stay as IInv says in every behaviour.   *)
THEOREM Invariance == Spec => []IInv
<1> QED
  BY InitInv, NextInv, PTL DEF Spec

(* Every variable keeps its type and every index names something, whatever  *)
(* factories, locators and faults there are.                                *)
THEOREM TypeCorrect == Spec => []TypeOK
<1>1. IInv => TypeOK
  BY DEF IInv
<1> QED
  BY <1>1, Invariance, PTL

(* Of the receivers of one locator at most one has a callback: callbacks    *)
(* are registered on what build_receiver_resources returned, which is       *)
(* always the first receiver of its locator.                                *)
LEMMA OneConsumer == IInv => OneConsumerPerLocator
<1> SUFFICES ASSUME IInv,
                    NEW i \in DOMAIN receivers, NEW j \in DOMAIN receivers,
                    receivers[i].locator = receivers[j].locator,
                    receivers[i].callback # NoCallback,
                    receivers[j].callback # NoCallback
             PROVE  i = j
  BY DEF OneConsumerPerLocator
<1>1. i \in heldReceivers /\ j \in heldReceivers
  BY DEF IInv, CallbacksAreHeld
<1>2. i <= j /\ j <= i
  BY <1>1 DEF IInv, HeldReceiversAreFirst
<1>3. i \in Nat /\ j \in Nat
  BY DEF IInv, TypeOK
<1> QED
  BY <1>2, <1>3

-----------------------------------------------------------------------------
(* An open channel is never taken over: a listed receiver keeps a socket    *)
(* that is bound, receives and runs its handler.                            *)
THEOREM ReceiversOwnChannels == Spec => []ReceiverOwnsChannel
<1>1. IInv => ReceiverOwnsChannel
  BY DEF IInv
<1> QED
  BY <1>1, Invariance, PTL

(* The loop never calls a resource that a failed open has destroyed.        *)
THEOREM DispatchesAreListed == Spec => []DispatchTargetsListed
<1>1. IInv => DispatchTargetsListed
  BY DEF IInv
<1> QED
  BY <1>1, Invariance, PTL

(* A unicast address and port is listened on by one receiver of the process.*)
THEOREM UnicastExclusion == Spec => []UnicastChannelsExclusive
<1>1. IInv => UnicastChannelsExclusive
  BY DEF IInv
<1> QED
  BY <1>1, Invariance, PTL

(* No sender is bound to an address and port a receiver listens on.         *)
THEOREM SendersApart == Spec => []SendersAndReceiversApart
<1>1. IInv => SendersAndReceiversApart
  BY DEF IInv
<1> QED
  BY <1>1, Invariance, PTL

(* Once a group has been opened on a port, in vain or not, no other channel *)
(* ever keeps a group from being opened on it, whatever the order of the    *)
(* calls and whichever of them the kernel refuses.                          *)
THEOREM GroupsStayOpen == Spec => []GroupOpensNeverBlocked
<1>1. ASSUME IInv PROVE GroupOpensNeverBlocked
  <2> USE <1>1 DEF IInv
  <2> SUFFICES ASSUME NEW h \in GroupSockets, NEW f \in Factories, NEW l \in Locators,
                      IsMulticast(l), l.port = handles[h].port
               PROVE  InputCanBind(f, l)
    BY DEF GroupOpensNeverBlocked
  <2>1. h \in DOMAIN handles /\ handles[h].addr = AnyTail /\ handles[h].reuse
    <3>1. CASE h \in DOMAIN handles /\ handles[h].handler = Dangling /\ handles[h].addr # Unbound
      BY <3>1 DEF AbandonedSockets
    <3>2. CASE \E i \in DOMAIN receivers :
                  IsMulticast(receivers[i].locator) /\ h = receivers[i].handle
      BY <3>2 DEF ReceiverOwnsChannel, ReceiverSockets, BindAddr, TypeOK
    <3> QED
      BY <3>1, <3>2 DEF GroupSockets
  <2>2. ASSUME NEW g \in DOMAIN handles, handles[g].addr # Unbound, handles[g].port = l.port
        PROVE  handles[g].reuse
    BY <2>1, <2>2, AddressAssumption DEF OverlapsAreShared, Overlap, Tails
  <2> DEFINE n == Len(handles) + 1
             grown == Append(handles, FreshHandle)
             new == Bound(FreshHandle, AnyTail, l.port, TRUE)
  <2>3. /\ WithSocket(f, l) = grown /\ SocketFor(f, l) = n
        /\ BindAddr(l) = AnyTail /\ InputReuse(l)
    BY FreshSocket DEF IsMulticast, BindAddr, InputReuse, Kinds
  <2>4. handles \in Seq(Handle) /\ FreshHandle \in Handle
    BY DEF TypeOK, FreshHandle, Handle, NoHandler
  <2>5. /\ grown[n] = FreshHandle
        /\ \A g \in DOMAIN handles : grown[g] = handles[g]
    BY <2>4, Appended
  <2>6. DOMAIN grown \ {n} = DOMAIN handles
    BY <2>4, DomainAppended
  <2>7. new.port = l.port /\ FreshHandle.addr = Unbound
    BY DEF Bound, FreshHandle
  <2> HIDE DEF grown, n, new
  <2>8. ASSUME NEW g \in DOMAIN grown \ {n}, Overlap(grown[g], new) PROVE grown[g].reuse
    BY <2>2, <2>5, <2>6, <2>7, <2>8 DEF Overlap
  <2>9. CanBind(grown, n, AnyTail, l.port, TRUE)
    BY <2>5, <2>7, <2>8, AddressAssumption DEF CanBind, new
  <2> QED
    BY <2>3, <2>9 DEF InputCanBind, IsMulticast, InputReuse
<1> QED
  BY <1>1, Invariance, PTL

(* A datagram of a group is consumed by one callback per locator.           *)
THEOREM OneConsumerEach == Spec => []OneConsumerPerLocator
BY OneConsumer, Invariance, PTL

-----------------------------------------------------------------------------
(* A step keeps every socket there was, as it was.                          *)
LEMMA SocketsKept ==
    ASSUME IInv, [Next]_vars
    PROVE  \A h \in DOMAIN handles : h \in DOMAIN handles' /\ handles'[h] = handles[h]
<1>1. handles \in Seq(Handle)
  BY DEF IInv, TypeOK
<1>2. ASSUME NEW g \in Handle, handles' = Append(handles, g)
      PROVE  \A h \in DOMAIN handles : h \in DOMAIN handles' /\ handles'[h] = handles[h]
  BY <1>1, <1>2, Appended
<1>3. CASE UNCHANGED handles
  BY <1>3
<1>4. ASSUME NEW f \in Factories, NEW s \in Slots, BindRefused(f, s)
      PROVE  \E g \in Handle : handles' = Append(handles, g)
  BY <1>4, BindRefusedSocket DEF IInv, IsSocket
<1>5. ASSUME NEW f \in Factories, NEW s \in Slots, JoinRefused(f, s)
      PROVE  \E g \in Handle : handles' = Append(handles, g)
  BY <1>5, JoinRefusedSocket DEF IInv, IsSocket
<1>6. ASSUME NEW f \in Factories, NEW s \in Slots, BuildReceiverOpen(f, s)
      PROVE  \E g \in Handle : handles' = Append(handles, g)
  BY <1>6, OpenSocket DEF IInv, IsSocket
<1>7. ASSUME NEW f \in Factories, NEW l \in Locators, BuildSenderBound(f, l)
      PROVE  \E g \in Handle : handles' = Append(handles, g)
  BY <1>7, SenderBoundSocket DEF IInv, IsSocket
<1>8. ASSUME NEW f \in Factories, NEW l \in Locators, BuildSenderUnbound(f, l)
      PROVE  \E g \in Handle : handles' = Append(handles, g)
  BY <1>8, SenderUnboundSocket DEF IInv, IsSocket
<1>9. UNCHANGED handles \/ \E g \in Handle : handles' = Append(handles, g)
  BY <1>4, <1>5, <1>6, <1>7, <1>8
     DEF Next, Application, vars, lists, DropSlot, SetSlot, DestroyFactory, RegisterTransport,
         BuildReceiver, BuildReceiverNoOpen, BuildSenderNoOpen, RegisterReceiver, Dispatch
<1> QED
  BY <1>2, <1>3, <1>9

(* No call rebinds, closes or re-registers a socket that is in use.         *)
THEOREM SocketsUndisturbed == Spec => BoundSocketsUndisturbed
<1>1. IInv /\ [Next]_vars => [\A h \in DOMAIN handles :
          handles[h].addr # Unbound => handles'[h] = handles[h]]_vars
  BY SocketsKept
<1> QED
  BY <1>1, Invariance, PTL DEF Spec, BoundSocketsUndisturbed

-----------------------------------------------------------------------------
(***************************************************************************)
(* The channels implement the directory.                                   *)
(***************************************************************************)
(* A receiver is handed out, or nothing: the first of its locator, old or   *)
(* new.                                                                     *)
LEMMA ReceiverAnswered ==
    ASSUME IInv, IInv', NEW l \in Locators,
           AnswerReceiver(l, FirstMatch(receivers', l)),
           \A i \in DOMAIN receivers :
               /\ i \in DOMAIN receivers'
               /\ receivers'[i].locator = receivers[i].locator
    PROVE  Directory!Next
<1> DEFINE first == FirstMatch(receivers', l)
           n == Len(receivers')
<1>1. /\ receivers' \in Seq(ReceiverType) /\ n \in Nat
      /\ DOMAIN receivers' = 1..n /\ n <= MaxHandles
  BY ValuesAssumption DEF IInv, TypeOK, ListsWithinSockets
<1>2. /\ first \in 0..n
      /\ first # 0 => /\ receivers'[first].locator = l
                      /\ \A j \in 1..n : receivers'[j].locator = l => first <= j
      /\ first = 0 => \A j \in 1..n : receivers'[j].locator # l
  BY <1>1, FirstMatchProperties
<1>3. /\ heldReceivers' = Hold(heldReceivers, first)
      /\ listener' = [listener EXCEPT ![l] = Hold(@, first)]
      /\ event' = [what |-> "receiver", locator |-> l, resource |-> first]
      /\ UNCHANGED speaker
  BY DEF AnswerReceiver, Answer
<1> HIDE DEF first
<1>4. /\ \A i \in heldReceivers : /\ i \in 1..n /\ i \in heldReceivers'
                                   /\ receivers'[i].locator = receivers[i].locator
      /\ \A k \in Locators : listener[k] = Given(receivers, heldReceivers, k)
      /\ listener \in [Locators -> SUBSET DOMAIN receivers]
  BY <1>1, <1>3 DEF IInv, TypeOK, AnswersFiled, Hold
<1>5. ASSUME NEW i \in listener[l] PROVE i = first
  <2>1. i \in heldReceivers /\ receivers'[i].locator = l
    BY <1>4 DEF Given
  <2>2. first # 0 /\ first <= i /\ first \in DOMAIN receivers'
    BY <1>1, <1>2, <1>4, <2>1
  <2>3. i <= first
    BY <1>2, <1>4, <2>1, <2>2 DEF IInv, HeldReceiversAreFirst
  <2> QED
    BY <1>2, <1>4, <2>1, <2>2, <2>3
<1>6. ASSUME NEW k \in Locators \ {l}, first # 0 PROVE first \notin listener[k]
  BY <1>2, <1>4, <1>6 DEF Given
<1>7. CASE first = 0
  <2>1. listener' = listener
    BY <1>3, <1>4, <1>7 DEF Hold
  <2> QED
    BY <1>3, <1>7, <2>1 DEF Directory!Next, Directory!AskListener
<1>8. CASE first # 0
  <2>1. first \in 1..MaxHandles /\ listener[l] \subseteq {first}
    BY <1>1, <1>2, <1>5, <1>8, ValuesAssumption
  <2>2. listener' = [listener EXCEPT ![l] = {first}]
    BY <1>3, <1>8, <2>1 DEF Hold
  <2>3. Directory!Enter(listener, listener', l, first)
    BY <1>6, <1>8, <2>1, <2>2 DEF Directory!Enter
  <2> QED
    BY <1>3, <2>1, <2>3 DEF Directory!Next, Directory!AskListener
<1> QED
  BY <1>7, <1>8

(* A sender is handed out, or nothing: then none has ever been.             *)
LEMMA SenderAnswered ==
    ASSUME IInv, IInv', NEW l \in Locators,
           AnswerSender(l, FirstMatch(senders', l)),
           \A i \in DOMAIN senders :
               /\ i \in DOMAIN senders'
               /\ senders'[i].locator = senders[i].locator
    PROVE  Directory!Next
<1> DEFINE first == FirstMatch(senders', l)
           n == Len(senders')
<1>1. /\ senders' \in Seq(SenderType) /\ n \in Nat
      /\ DOMAIN senders' = 1..n /\ n <= MaxHandles
  BY ValuesAssumption DEF IInv, TypeOK, ListsWithinSockets
<1>2. /\ first \in 0..n
      /\ first # 0 => /\ senders'[first].locator = l
                      /\ \A j \in 1..n : senders'[j].locator = l => first <= j
      /\ first = 0 => \A j \in 1..n : senders'[j].locator # l
  BY <1>1, FirstMatchProperties
<1>3. /\ heldSenders' = Hold(heldSenders, first)
      /\ speaker' = [speaker EXCEPT ![l] = Hold(@, first)]
      /\ event' = [what |-> "sender", locator |-> l, resource |-> first]
      /\ UNCHANGED listener
  BY DEF AnswerSender, Answer
<1> HIDE DEF first
<1>4. /\ \A i \in heldSenders : /\ i \in 1..n /\ i \in heldSenders'
                                 /\ senders'[i].locator = senders[i].locator
      /\ \A k \in Locators : speaker[k] = Given(senders, heldSenders, k)
      /\ speaker \in [Locators -> SUBSET DOMAIN senders]
  BY <1>1, <1>3 DEF IInv, TypeOK, AnswersFiled, Hold
<1>5. ASSUME NEW i \in speaker[l] PROVE i = first /\ first # 0
  <2>1. i \in heldSenders /\ senders'[i].locator = l
    BY <1>4 DEF Given
  <2>2. first # 0 /\ first <= i /\ first \in DOMAIN senders'
    BY <1>1, <1>2, <1>4, <2>1
  <2>3. i <= first
    BY <1>2, <1>4, <2>1, <2>2 DEF IInv, HeldSendersAreFirst
  <2> QED
    BY <1>2, <1>4, <2>1, <2>2, <2>3
<1>6. ASSUME NEW k \in Locators \ {l}, first # 0 PROVE first \notin speaker[k]
  BY <1>2, <1>4, <1>6 DEF Given
<1>7. CASE first = 0
  <2>1. speaker' = speaker /\ speaker[l] = {}
    BY <1>3, <1>4, <1>5, <1>7 DEF Hold
  <2> QED
    BY <1>3, <1>7, <2>1 DEF Directory!Next, Directory!AskSpeaker
<1>8. CASE first # 0
  <2>1. first \in 1..MaxHandles /\ speaker[l] \subseteq {first}
    BY <1>1, <1>2, <1>5, <1>8, ValuesAssumption
  <2>2. speaker' = [speaker EXCEPT ![l] = {first}]
    BY <1>3, <1>8, <2>1 DEF Hold
  <2>3. Directory!Enter(speaker, speaker', l, first)
    BY <1>6, <1>8, <2>1, <2>2 DEF Directory!Enter
  <2> QED
    BY <1>3, <2>1, <2>3 DEF Directory!Next, Directory!AskSpeaker
<1> QED
  BY <1>7, <1>8

(* A refused call is answered with nothing.                                 *)
LEMMA RefusalAnswered ==
    ASSUME NEW l \in Locators, event' = Answer("receiver", l, 0),
           UNCHANGED <<listener, speaker>>
    PROVE  Directory!Next
BY DEF Answer, Directory!Next, Directory!AskListener

(* What is no answer leaves the directory silent.                           *)
LEMMA NothingAnswered ==
    ASSUME NEW what, event' = Did(what), what \notin {"receiver", "sender"},
           UNCHANGED <<listener, speaker>>
    PROVE  Directory!Next
BY DEF Did, Directory!Next, Directory!Other, Directory!Silence

LEMMA DirectoryStep == IInv /\ [Next]_vars => [Directory!Next]_(Directory!vars)
<1> SUFFICES ASSUME IInv, [Next]_vars PROVE [Directory!Next]_(Directory!vars)
  OBVIOUS
<1>1. IInv'
  BY NextInv
<1>2. CASE UNCHANGED vars
  <2>1. UNCHANGED <<listener, speaker, event>>
    BY <1>2 DEF vars
  <2> QED
    BY <2>1 DEF Directory!vars
<1>3. ASSUME NEW f \in Factories, NEW s \in Slots,
             BuildReceiverNoOpen(f, s) \/ BuildReceiverOpen(f, s)
      PROVE  Directory!Next
  <2>1. /\ slot[s] \in Locators
        /\ AnswerReceiver(slot[s], FirstMatch(receivers', slot[s]))
    BY <1>3 DEF BuildReceiverNoOpen, BuildReceiverOpen, OpensInput, IInv, TypeOK
  <2>2. \A i \in DOMAIN receivers : i \in DOMAIN receivers' /\ receivers'[i] = receivers[i]
    <3>1. CASE BuildReceiverNoOpen(f, s)
      BY <3>1 DEF BuildReceiverNoOpen
    <3>2. CASE BuildReceiverOpen(f, s)
      <4>1. PICK r : receivers' = Append(receivers, r)
        BY <3>2 DEF BuildReceiverOpen
      <4> QED
        BY <4>1 DEF IInv, TypeOK
    <3> QED
      BY <1>3, <3>1, <3>2
  <2> QED
    BY <1>1, <2>1, <2>2, ReceiverAnswered
<1>4. ASSUME NEW f \in Factories, NEW l \in Locators,
             BuildSenderNoOpen(f, l) \/ ListSender(f, l)
      PROVE  Directory!Next
  <2>1. AnswerSender(l, FirstMatch(senders', l))
    BY <1>4 DEF BuildSenderNoOpen, ListSender
  <2>2. \A i \in DOMAIN senders : i \in DOMAIN senders' /\ senders'[i] = senders[i]
    <3>1. CASE BuildSenderNoOpen(f, l)
      BY <3>1 DEF BuildSenderNoOpen
    <3>2. CASE ListSender(f, l)
      <4>1. PICK r : senders' = Append(senders, r)
        BY <3>2 DEF ListSender
      <4> QED
        BY <4>1 DEF IInv, TypeOK
    <3> QED
      BY <1>4, <3>1, <3>2
  <2> QED
    BY <1>1, <2>1, <2>2, SenderAnswered
<1>5. ASSUME NEW f \in Factories, NEW s \in Slots, BindRefused(f, s) \/ JoinRefused(f, s)
      PROVE  Directory!Next
  <2>1. /\ slot[s] \in Locators /\ event' = Answer("receiver", slot[s], 0)
        /\ UNCHANGED <<listener, speaker>>
    BY <1>5 DEF BindRefused, JoinRefused, OpensInput, lists, IInv, TypeOK
  <2> QED
    BY <2>1, RefusalAnswered
<1>6. ASSUME NEW what \in {"call", "dropped", "own", "other", "gone", "dead", "dangling"},
             event' = Did(what), UNCHANGED <<listener, speaker>>
      PROVE  Directory!Next
  BY <1>6, NothingAnswered
<1>7. ASSUME NEW h \in DOMAIN handles, Dispatch(h) PROVE Directory!Next
  <2> DEFINE r == receivers[handles[h].handler]
             what == CASE handles[h].handler \notin DOMAIN receivers -> "dangling"
                       [] r.callback = NoCallback                 -> "dropped"
                       [] r.owner \notin alive                    -> "dead"
                       [] slot[r.ref] = Gone                      -> "gone"
                       [] slot[r.ref] = r.locator                 -> "own"
                       [] OTHER                                   -> "other"
  <2>1. event' = Did(what) /\ UNCHANGED <<listener, speaker>>
    BY <1>7 DEF Dispatch, lists
  <2>2. what \in {"dropped", "own", "other", "gone", "dead", "dangling"}
    OBVIOUS
  <2> HIDE DEF what
  <2> QED
    BY <1>6, <2>1, <2>2
<1>8. \/ event' = Did("call") /\ UNCHANGED <<listener, speaker>>
      \/ \E f \in Factories, s \in Slots : BuildReceiverNoOpen(f, s) \/ BuildReceiverOpen(f, s)
      \/ \E f \in Factories, s \in Slots : BindRefused(f, s) \/ JoinRefused(f, s)
      \/ \E f \in Factories, l \in Locators : BuildSenderNoOpen(f, l) \/ ListSender(f, l)
      \/ \E h \in DOMAIN handles : Dispatch(h)
      \/ UNCHANGED vars
  BY DEF Next, Application, DropSlot, SetSlot, DestroyFactory, RegisterTransport, BuildReceiver,
         BuildSenderBound, BuildSenderUnbound, RegisterReceiver, lists
<1> QED
  BY <1>2, <1>3, <1>4, <1>5, <1>6, <1>7, <1>8

(* The answers of the calls implement a write-once directory: a locator is  *)
(* answered with the resource it was answered with before, in any factory,  *)
(* and with nothing only as ChannelDirectory allows.                        *)
THEOREM ImplementsDirectory == Spec => DirectorySpec
<1>1. Init => Directory!Init
  BY DEF Init, Did, Directory!Init, Directory!Empty, Directory!Silence
<1> QED
  BY <1>1, DirectoryStep, Invariance, PTL DEF Spec, DirectorySpec, Directory!Spec

=============================================================================
