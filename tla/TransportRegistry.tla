-------------------------- MODULE TransportRegistry --------------------------
(***************************************************************************)
(* The transports registered in a TransportFactory, and the lists of       *)
(* locators an application has the factory complete: the default           *)
(* metatraffic locators of the transports, the port filled into a locator, *)
(* and the wildcard addresses replaced by those of the host's interfaces.  *)
(*                                                                         *)
(* The library runs on one thread, so each of its calls is a step.  The    *)
(* host's interfaces come and go between calls.                            *)
(***************************************************************************)
EXTENDS LocatorLists

CONSTANTS
    Descriptors,    \* the transport descriptors of the application
    Lists,          \* its variables of type LocatorList
    Locators,       \* the locators it puts in them itself
    Interfaces,     \* by UDP kind, the sets of addresses the host may have
    Ports,          \* the ports it passes, uint32_t
    Tails,          \* the last four octets of the addresses it meets
    Heads,          \* the first twelve
    AnyTail,        \* the last four octets, all zero
    AnyHead,        \* the first twelve, all zero
    GroupOf,        \* by kind, the default metatraffic multicast address
    LoopbackOf,     \* by UDP kind, the loopback address
    MaxUInt32,      \* numeric_limits<uint32_t>::max()
    MaxLen          \* bound of the model: the length of each list

UDPv4 == 1
UDPv6 == 2
SHM == 16
UDPKinds == {UDPv4, UDPv6}

(* No descriptor for shared memory comes with the library, but the factory *)
(* provides for one of the application's own.                              *)
Kinds == UDPKinds \cup {SHM}

ASSUME DescriptorsAssumption ==
    /\ Descriptors \subseteq [kind : Kinds, max : Nat, creates : BOOLEAN]
    /\ MaxUInt32 \in Nat
    /\ \A d \in Descriptors : d.max <= MaxUInt32

AddressType == [head : Heads, tail : Tails]

LocatorType == [kind : Int, port : Nat, address : AddressType]

ASSUME InputsAssumption ==
    /\ AnyHead \in Heads /\ AnyTail \in Tails
    /\ Locators \subseteq LocatorType /\ Ports \subseteq Nat
    /\ GroupOf \in [Kinds -> AddressType] /\ LoopbackOf \in [UDPKinds -> AddressType]
    /\ MaxLen \in [Lists -> Nat]

ASSUME InterfacesAssumption ==
    \A k \in UDPKinds :
        /\ LoopbackOf[k].tail # AnyTail
        /\ {} \in Interfaces[k]
        /\ \A addresses \in Interfaces[k] :
              /\ IsFiniteSet(addresses) /\ addresses \subseteq AddressType
              /\ \A a \in addresses : a.tail # AnyTail

VARIABLES
    transports,     \* registered_transports_, with what each was built from
    maxMessage,     \* max_message_size_between_transports_
    minSend,        \* min_send_buffer_size_
    up,             \* by UDP kind, the addresses of the interfaces now up
    lists           \* the application's lists

vars == <<transports, maxMessage, minSend, up, lists>>

-----------------------------------------------------------------------------
(***************************************************************************)
(* What one transport does with a locator.                                 *)
(***************************************************************************)
IsAny(l) ==
    /\ l.address.tail = AnyTail
    /\ l.kind = UDPv4 \/ l.address.head = AnyHead

(* setIPv4 copies the last four octets only, setIPv6 the whole address.    *)
WithAddress(l, a) ==
    IF l.kind = UDPv4 THEN [l EXCEPT !.address.tail = a.tail]
                      ELSE [l EXCEPT !.address = a]

(* normalize_locator, `found' being what its scan of the host finds for the *)
(* kind: a wildcard becomes one locator for each interface, or the loopback *)
(* when the scan finds none.                                                *)
MutNormalizeLocator(l, found) ==
    IF l.kind \notin UDPKinds \/ ~IsAny(l) \/ found = <<>>
      THEN <<l>>
      ELSE PushedAll(<<>>, [i \in DOMAIN found |-> WithAddress(l, found[i])])

NormalizeLocator(l, found) ==
    IF l.kind \notin UDPKinds \/ ~IsAny(l)
      THEN <<l>>
      ELSE IF found = <<>>
             THEN <<WithAddress(l, LoopbackOf[l.kind])>>
             ELSE PushedAll(<<>>, [i \in DOMAIN found |-> WithAddress(l, found[i])])

(* default_metatraffic_multicast_locators and its unicast twin: the port   *)
(* is cut to 16 bits.                                                      *)
DefaultLocator(kind, address, port) ==
    [kind |-> kind, port |-> port % 65536, address |-> address]

DefaultMulticast(kind, port) == DefaultLocator(kind, GroupOf[kind], port)

DefaultUnicast(kind, port) ==
    DefaultLocator(kind, [head |-> AnyHead, tail |-> AnyTail], port)

(* The three fill_ functions of a UDP transport have one body. *)
Filled(l, port) == IF l.port = 0 THEN [l EXCEPT !.port = port] ELSE l

-----------------------------------------------------------------------------
(***************************************************************************)
(* What the factory does with them.                                        *)
(***************************************************************************)
IsRegistered(kind) == \E i \in DOMAIN transports : transports[i].kind = kind

(* normalize_locators, into a new list that is then swapped with the old   *)
(* one; scans[i] is what is found for element i.  A second transport of the*)
(* kind would push the same locators.                                      *)
Normalized(list, scans) ==
    Joined([i \in DOMAIN list |->
              IF IsRegistered(list[i].kind) THEN NormalizeLocator(list[i], scans[i])
                                            ELSE <<list[i]>>])

(* The locators of every transport are added in the order of registration, *)
(* those of shared memory only to a list that is empty after that.         *)
OthersThanShm == Kept(transports, {t \in ToSet(transports) : t.kind # SHM})

DefaultsOfOthers(port) ==
    [i \in DOMAIN OthersThanShm |-> DefaultMulticast(OthersThanShm[i].kind, port)]

MutWithDefaultMulticast(list, port) ==
    LET others == PushedAll(list, DefaultsOfOthers(port))
    IN  IF list = <<>> /\ IsRegistered(SHM)
          THEN Pushed(others, DefaultMulticast(SHM, port)) ELSE others

WithDefaultMulticast(list, port) ==
    LET others == PushedAll(list, DefaultsOfOthers(port))
    IN  IF others = <<>> /\ IsRegistered(SHM)
          THEN Pushed(others, DefaultMulticast(SHM, port)) ELSE others

WithDefaultUnicast(list, port) ==
    PushedAll(list, [i \in DOMAIN transports |-> DefaultUnicast(transports[i].kind, port)])

Init ==
    /\ transports = <<>>
    /\ maxMessage = MaxUInt32
    /\ minSend = MaxUInt32
    /\ up = [k \in UDPKinds |-> {}]
    /\ lists = [v \in Lists |-> <<>>]

Registry == <<transports, maxMessage, minSend>>

-----------------------------------------------------------------------------
(***************************************************************************)
(* register_transport: nothing changes for a kind that is registered, when *)
(* it returns true, or when the descriptor creates no transport, when it   *)
(* returns false.  init of a UDP transport returns true.                   *)
(***************************************************************************)
RegisterNothing(d) ==
    /\ IsRegistered(d.kind) \/ ~d.creates
    /\ UNCHANGED vars

MutRegisterNew(d) ==
    /\ ~IsRegistered(d.kind) /\ d.creates
    /\ transports' = Append(transports, [kind |-> d.kind, max |-> d.max])
    /\ maxMessage' = d.max
    /\ UNCHANGED <<minSend, up, lists>>

MutRegisterNull(d) ==
    /\ ~IsRegistered(d.kind)
    /\ transports' = Append(transports, [kind |-> d.kind, max |-> d.max])
    /\ maxMessage' = IF d.max < maxMessage THEN d.max ELSE maxMessage
    /\ UNCHANGED <<minSend, up, lists>>

RegisterNew(d) ==
    /\ ~IsRegistered(d.kind) /\ d.creates
    /\ transports' = Append(transports, [kind |-> d.kind, max |-> d.max])
    /\ maxMessage' = IF d.max < maxMessage THEN d.max ELSE maxMessage
    /\ minSend' = IF MaxUInt32 < minSend THEN MaxUInt32 ELSE minSend
    /\ UNCHANGED <<up, lists>>

(***************************************************************************)
(* The host: interfaces come up or go down.                                *)
(***************************************************************************)
InterfacesChange(k, addresses) ==
    /\ up' = [up EXCEPT ![k] = addresses]
    /\ UNCHANGED <<Registry, lists>>

-----------------------------------------------------------------------------
(***************************************************************************)
(* The calls that change a list.                                           *)
(***************************************************************************)
SetList(v, list) ==
    /\ Len(list) <= MaxLen[v]
    /\ lists' = [lists EXCEPT ![v] = list]

(* The IPFinder lists the addresses of a kind in any order, or fails, of    *)
(* which a transport does not hear.  Each wildcard has a scan of its own,   *)
(* another locator has none.                                               *)
Found(l) == IF l.kind \in UDPKinds /\ IsAny(l) THEN {<<>>} \cup SetToSeqs(up[l.kind])
                                              ELSE {<<>>}

Scans(list) ==
    {scans \in [DOMAIN list -> UNION {Found(l) : l \in ToSet(list)}] :
        \A i \in DOMAIN list : scans[i] \in Found(list[i])}

NormalizeLocators(v) ==
    /\ \E scans \in Scans(lists[v]) : SetList(v, Normalized(lists[v], scans))
    /\ UNCHANGED <<Registry, up>>

DefaultMulticastLocators(v, port) ==
    /\ SetList(v, WithDefaultMulticast(lists[v], port))
    /\ UNCHANGED <<Registry, up>>

DefaultUnicastLocators(v, port) ==
    /\ SetList(v, WithDefaultUnicast(lists[v], port))
    /\ UNCHANGED <<Registry, up>>

(* fill_metatraffic_*_locator on an element of a list, which begin() gives *)
(* the application write access to.                                        *)
FillLocator(v, i, port) ==
    /\ SetList(v, [lists[v] EXCEPT
                      ![i] = IF IsRegistered(@.kind) THEN Filled(@, port) ELSE @])
    /\ UNCHANGED <<Registry, up>>

PushLocator(v, l) ==
    /\ SetList(v, Pushed(lists[v], l))
    /\ UNCHANGED <<Registry, up>>

PushList(v, w) ==
    /\ SetList(v, PushedAll(lists[v], lists[w]))
    /\ UNCHANGED <<Registry, up>>

AssignList(v, w) ==
    /\ SetList(v, Assigned(lists[v], lists[w]))
    /\ UNCHANGED <<Registry, up>>

(* The two assignments of C++: a copy, and a move that empties the other    *)
(* list.  Unlike assign they never keep the old list.                       *)
CopyList(v, w) ==
    /\ SetList(v, lists[w])
    /\ UNCHANGED <<Registry, up>>

MoveList(v, w) ==
    /\ v # w /\ Len(lists[w]) <= MaxLen[v]
    /\ lists' = [lists EXCEPT ![v] = lists[w], ![w] = <<>>]
    /\ UNCHANGED <<Registry, up>>

EraseLocator(v, i) ==
    /\ SetList(v, Erased(lists[v], i))
    /\ UNCHANGED <<Registry, up>>

ClearList(v) ==
    /\ SetList(v, <<>>)
    /\ UNCHANGED <<Registry, up>>

SwapLists(v, w) ==
    /\ Len(lists[v]) <= MaxLen[w] /\ Len(lists[w]) <= MaxLen[v]
    /\ lists' = [lists EXCEPT ![v] = lists[w], ![w] = lists[v]]
    /\ UNCHANGED <<Registry, up>>

(* The calls by which a list may change, those on its elements excepted.   *)
ListCall(v) ==
    \/ NormalizeLocators(v) \/ ClearList(v)
    \/ \E p \in Ports : DefaultMulticastLocators(v, p) \/ DefaultUnicastLocators(v, p)
    \/ \E l \in Locators : PushLocator(v, l)
    \/ \E w \in Lists : \/ PushList(v, w) \/ AssignList(v, w) \/ SwapLists(v, w)
                        \/ CopyList(v, w) \/ MoveList(v, w)
    \/ \E i \in DOMAIN lists[v] : EraseLocator(v, i)

Next ==
    \/ \E d \in Descriptors : RegisterNothing(d) \/ RegisterNew(d)
    \/ \E k \in UDPKinds : \E addresses \in Interfaces[k] : InterfacesChange(k, addresses)
    \/ \E v \in Lists :
          \/ ListCall(v)
          \/ \E i \in DOMAIN lists[v], p \in Ports : FillLocator(v, i, p)

Spec == Init /\ [][Next]_vars

-----------------------------------------------------------------------------
(***************************************************************************)
(* Correctness.                                                            *)
(***************************************************************************)
TransportType ==
    {[kind |-> d.kind, max |-> d.max] : d \in {e \in Descriptors : e.creates}}

RegistryTypeOK ==
    /\ transports \in Seq(TransportType)
    /\ maxMessage \in 0..MaxUInt32 /\ minSend \in 0..MaxUInt32

UpTypeOK == DOMAIN up = UDPKinds /\ \A k \in UDPKinds : up[k] \in Interfaces[k]

ListsTypeOK ==
    /\ lists \in [Lists -> Seq(LocatorType)]
    /\ \A v \in Lists : Len(lists[v]) <= MaxLen[v]

(* The registry and the lists have their types; no list outgrows its bound. *)
TypeOK == RegistryTypeOK /\ UpTypeOK /\ ListsTypeOK

(* A kind is registered once, and the message size that fits all transports *)
(* is the smallest of theirs, whatever was refused or registered again.     *)
MaxMessageIsSmallest ==
    /\ \A i, j \in DOMAIN transports : transports[i].kind = transports[j].kind => i = j
    /\ \A i \in DOMAIN transports : maxMessage <= transports[i].max
    /\ \/ maxMessage = MaxUInt32
       \/ \E i \in DOMAIN transports : maxMessage = transports[i].max

(* No call on whole lists, of the list class or of the factory, puts a      *)
(* locator twice into a list that has none twice.                           *)
CallsKeepListsDistinct ==
    [][/\ \A v \in Lists : NoDuplicates(lists[v])
       /\ \E v \in Lists : ~NoDuplicates(lists'[v])
       => ~\E v \in Lists : ListCall(v)]_vars

(* assign gives a list the locators of the other, although it compares them *)
(* without their order and may keep its own: true while neither list holds  *)
(* a locator twice.                                                         *)
AssignReplaces ==
    \A v, w \in Lists :
        NoDuplicates(lists[v]) /\ NoDuplicates(lists[w])
        => ToSet(Assigned(lists[v], lists[w])) = ToSet(lists[w])

(* Normalizing a list replaces its wildcards of a registered kind by every  *)
(* interface of the kind, the loopback if the scan found none, and neither  *)
(* loses nor invents a locator.                                             *)
Expansion(l, found) ==
    IF ~(IsRegistered(l.kind) /\ l.kind \in UDPKinds /\ IsAny(l)) THEN {l}
    ELSE {WithAddress(l, a) : a \in IF found = <<>> THEN {LoopbackOf[l.kind]} ELSE up[l.kind]}

NormalizedIsExpansion ==
    \A v \in Lists : \A scans \in Scans(lists[v]) :
        ToSet(Normalized(lists[v], scans))
        = UNION {Expansion(lists[v][i], scans[i]) : i \in DOMAIN lists[v]}

FoundEver ==
    LET orders == [k \in UDPKinds |-> {<<>>} \cup UNION {SetToSeqs(addresses) :
                                                          addresses \in Interfaces[k]}]
    IN  {found \in [UDPKinds -> UNION {orders[k] : k \in UDPKinds}] :
            \A k \in UDPKinds : found[k] \in orders[k]}

(* A normalized list stays as it is when it is normalized again, whatever   *)
(* interfaces have come or gone since.                                      *)
NormalizationSettles ==
    \A v \in Lists : \A now \in Scans(lists[v]) :
        LET list == Normalized(lists[v], now) IN
        \A later \in FoundEver :
            Normalized(list, [i \in DOMAIN list |->
                                IF list[i].kind \in UDPKinds THEN later[list[i].kind] ELSE <<>>])
            = list

(* The default multicast locators of shared memory are "avoided if it is    *)
(* already provided by another transport" (TransportFactory.cpp:174-175),   *)
(* and by the list itself: they are added only to a list that no other      *)
(* transport and no earlier call put anything in; and no list stays empty   *)
(* while there is a transport.                                              *)
ShmIsFallback ==
    \A v \in Lists, port \in Ports :
        LET after == WithDefaultMulticast(lists[v], port)
            others == \E i \in DOMAIN transports : transports[i].kind # SHM
        IN
        /\ (\E l \in ToSet(after) \ ToSet(lists[v]) : l.kind = SHM)
           <=> IsRegistered(SHM) /\ ~others /\ lists[v] = <<>>
        /\ transports # <<>> => after # <<>>
=============================================================================
