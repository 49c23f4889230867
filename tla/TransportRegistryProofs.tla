----------------------- MODULE TransportRegistryProofs -----------------------
(***************************************************************************)
(* Proofs about TransportRegistry, on top of ListTheorems.                 *)
(***************************************************************************)
EXTENDS TransportRegistry, ListTheorems, TLAPS

-----------------------------------------------------------------------------
(***************************************************************************)
(* The registry.  RegistryTypeOK and MaxMessageIsSmallest are inductive    *)
(* together: the bound by MaxUInt32 is what the first registration needs.  *)
(***************************************************************************)
RInv == RegistryTypeOK /\ MaxMessageIsSmallest

LEMMA RegistryStarts == Init => RInv
BY DescriptorsAssumption
   DEF Init, RInv, RegistryTypeOK, MaxMessageIsSmallest

(* Registering a kind that is not registered keeps the registry correct.    *)
LEMMA RegisterNewKeeps ==
    ASSUME RInv, NEW d \in Descriptors, RegisterNew(d)
    PROVE  RInv'
<1> DEFINE t == [kind |-> d.kind, max |-> d.max]
<1>1. t \in TransportType
  BY DEF RegisterNew, TransportType
<1>2. transports \in Seq(TransportType) /\ maxMessage \in 0..MaxUInt32
      /\ minSend \in 0..MaxUInt32
  BY DEF RInv, RegistryTypeOK
<1>3. transports' = Append(transports, t)
  BY DEF RegisterNew
<1>4. t.kind = d.kind /\ t.max = d.max
  OBVIOUS
<1>5. d.max \in 0..MaxUInt32 /\ MaxUInt32 \in Nat
  BY DescriptorsAssumption
<1>6. maxMessage' = IF d.max < maxMessage THEN d.max ELSE maxMessage
  BY DEF RegisterNew
<1>7. \A i \in DOMAIN transports : transports[i].kind # d.kind
  BY DEF RegisterNew, IsRegistered
<1>8. \A i \in DOMAIN transports : transports[i].max \in 0..MaxUInt32
  BY <1>2, DescriptorsAssumption DEF TransportType
<1> HIDE DEF t
<1>9. /\ DOMAIN transports' = DOMAIN transports \cup {Len(transports) + 1}
      /\ \A i \in DOMAIN transports : transports'[i] = transports[i]
      /\ transports'[Len(transports) + 1] = t
  BY <1>2, <1>3
<1>10. RegistryTypeOK'
  <2>1. transports' \in Seq(TransportType)
    BY <1>1, <1>2, <1>3
  <2>2. maxMessage' \in 0..MaxUInt32
    BY <1>2, <1>5, <1>6
  <2>3. minSend' \in 0..MaxUInt32
    BY <1>2, <1>5 DEF RegisterNew
  <2> QED
    BY <2>1, <2>2, <2>3 DEF RegistryTypeOK, TransportType
<1>11. \A i, j \in DOMAIN transports' : transports'[i].kind = transports'[j].kind => i = j
  BY <1>4, <1>7, <1>9 DEF RInv, MaxMessageIsSmallest
<1>12. \A i \in DOMAIN transports' : maxMessage' <= transports'[i].max
  BY <1>2, <1>4, <1>5, <1>6, <1>8, <1>9 DEF RInv, MaxMessageIsSmallest
<1>13. \/ maxMessage' = MaxUInt32
       \/ \E i \in DOMAIN transports' : maxMessage' = transports'[i].max
  BY <1>2, <1>4, <1>5, <1>6, <1>9 DEF RInv, MaxMessageIsSmallest
<1> QED
  BY <1>10, <1>11, <1>12, <1>13 DEF RInv, MaxMessageIsSmallest

(* No call on a list and no change of the host touches the registry.        *)
LEMMA ListsLeaveRegistry ==
    ASSUME NEW v \in Lists,
           ListCall(v) \/ \E i \in DOMAIN lists[v], p \in Ports : FillLocator(v, i, p)
    PROVE  UNCHANGED Registry
BY DEF ListCall, FillLocator, NormalizeLocators, ClearList, DefaultMulticastLocators,
       DefaultUnicastLocators, PushLocator, PushList, AssignList, CopyList, MoveList, EraseLocator,
       SwapLists

LEMMA UnchangedKeeps == ASSUME RInv, UNCHANGED Registry PROVE RInv'
BY DEF Registry, RInv, RegistryTypeOK, MaxMessageIsSmallest, TransportType

LEMMA RegistryStep == RInv /\ [Next]_vars => RInv'
<1> SUFFICES ASSUME RInv, [Next]_vars
             PROVE  RInv'
  OBVIOUS
<1>1. CASE \E d \in Descriptors : RegisterNothing(d)
  BY <1>1, UnchangedKeeps DEF RegisterNothing, vars, Registry
<1>2. CASE \E d \in Descriptors : RegisterNew(d)
  BY <1>2, RegisterNewKeeps
<1>3. CASE \E k \in UDPKinds : \E addresses \in Interfaces[k] : InterfacesChange(k, addresses)
  BY <1>3, UnchangedKeeps DEF InterfacesChange
<1>4. CASE \E v \in Lists :
              \/ ListCall(v)
              \/ \E i \in DOMAIN lists[v], p \in Ports : FillLocator(v, i, p)
  BY <1>4, ListsLeaveRegistry, UnchangedKeeps
<1>5. CASE UNCHANGED vars
  BY <1>5, UnchangedKeeps DEF vars, Registry
<1> QED
  BY <1>1, <1>2, <1>3, <1>4, <1>5 DEF Next

(* The registry has its type, each kind is registered once, and the message *)
(* size the factory reports is the smallest of its transports', in every    *)
(* reachable state and for any set of descriptors.                          *)
THEOREM MaxMessageCorrect == Spec => [](RegistryTypeOK /\ MaxMessageIsSmallest)
<1>1. RInv => RegistryTypeOK /\ MaxMessageIsSmallest
  BY DEF RInv
<1> QED
  BY RegistryStarts, RegistryStep, <1>1, PTL DEF Spec

-----------------------------------------------------------------------------
(***************************************************************************)
(* Normalizing.                                                            *)
(***************************************************************************)
(* What a scan of the host may find for a wildcard. *)
HostScan(found) ==
    found \in Seq(AddressType) /\ \A i \in DOMAIN found : found[i].tail # AnyTail

LEMMA ListingsAreHostScans ==
    ASSUME NEW k \in UDPKinds, NEW addresses \in Interfaces[k], NEW found \in SetToSeqs(addresses)
    PROVE  HostScan(found) /\ ToSet(found) = addresses
<1>1. /\ IsFiniteSet(addresses) /\ addresses \subseteq AddressType
      /\ \A a \in addresses : a.tail # AnyTail
  BY InterfacesAssumption
<1>2. found \in Seq(addresses) /\ ToSet(found) = addresses
  BY <1>1, ListingHasAll
<1>3. \A i \in DOMAIN found : found[i] \in addresses
  BY <1>2
<1>4. found \in Seq(AddressType)
  BY <1>1, <1>2
<1> QED
  BY <1>1, <1>2, <1>3, <1>4 DEF HostScan

LEMMA EmptyIsHostScan == HostScan(<<>>)
BY DEF HostScan

(* The scans of a call are those of the host as it is. *)
LEMMA ScansOfCall ==
    ASSUME UpTypeOK, NEW list \in Seq(LocatorType), NEW scans \in Scans(list), NEW i \in DOMAIN list
    PROVE  /\ HostScan(scans[i])
           /\ list[i].kind \in UDPKinds /\ IsAny(list[i])
              => scans[i] = <<>> \/ ToSet(scans[i]) = up[list[i].kind]
<1>1. scans[i] \in Found(list[i])
  BY DEF Scans
<1>2. CASE scans[i] = <<>>
  BY <1>2, EmptyIsHostScan
<1>3. CASE list[i].kind \in UDPKinds /\ scans[i] \in SetToSeqs(up[list[i].kind])
  BY <1>3, ListingsAreHostScans DEF UpTypeOK
<1> QED
  BY <1>1, <1>2, <1>3 DEF Found

LEMMA AddressSet ==
    ASSUME NEW l \in LocatorType, l.kind \in UDPKinds, NEW a \in AddressType, a.tail # AnyTail
    PROVE  /\ WithAddress(l, a) \in LocatorType /\ WithAddress(l, a).kind = l.kind
           /\ ~IsAny(WithAddress(l, a))
BY DEF WithAddress, IsAny, LocatorType, AddressType

(* A wildcard becomes every address its scan found, or the loopback.        *)
LEMMA WildcardNormalized ==
    ASSUME NEW l \in LocatorType, l.kind \in UDPKinds, IsAny(l), NEW found, HostScan(found)
    PROVE  /\ NormalizeLocator(l, found) \in Seq(LocatorType)
           /\ ToSet(NormalizeLocator(l, found))
              = {WithAddress(l, a) :
                    a \in IF found = <<>> THEN {LoopbackOf[l.kind]} ELSE ToSet(found)}
<1>1. found \in Seq(AddressType) /\ \A i \in DOMAIN found : found[i].tail # AnyTail
  BY DEF HostScan
<1>2. CASE found = <<>>
  <2>1. NormalizeLocator(l, found) = <<WithAddress(l, LoopbackOf[l.kind])>>
    BY <1>2 DEF NormalizeLocator
  <2>2. WithAddress(l, LoopbackOf[l.kind]) \in LocatorType
    BY AddressSet, InputsAssumption, InterfacesAssumption
  <2> DEFINE m == WithAddress(l, LoopbackOf[l.kind])
  <2>3. <<m>> \in Seq(LocatorType) /\ ToSet(<<m>>) = {m}
    BY <2>2 DEF ToSet
  <2>4. {WithAddress(l, a) : a \in {LoopbackOf[l.kind]}} = {m}
    OBVIOUS
  <2> HIDE DEF m
  <2> QED
    BY <1>2, <2>1, <2>3, <2>4 DEF m
<1>3. CASE found # <<>>
  <2> DEFINE all == [i \in DOMAIN found |-> WithAddress(l, found[i])]
  <2>1. NormalizeLocator(l, found) = PushedAll(<<>>, all)
    BY <1>3 DEF NormalizeLocator
  <2>2. all \in Seq(LocatorType)
    <3>1. \A i \in DOMAIN found : WithAddress(l, found[i]) \in LocatorType
      BY <1>1, AddressSet
    <3>2. DOMAIN found = 1..Len(found) /\ Len(found) \in Nat
      BY <1>1
    <3>3. all \in [1..Len(found) -> LocatorType]
      BY <3>1, <3>2
    <3> HIDE DEF all
    <3> QED
      BY <3>2, <3>3, FunctionIsSeq
  <2>3. ToSet(all) = {WithAddress(l, a) : a \in ToSet(found)}
    BY DEF ToSet
  <2> HIDE DEF all
  <2>4. PushedAll(<<>>, all) \in Seq(LocatorType)
    BY <2>2, PushedOntoNothing
  <2>5. ToSet(PushedAll(<<>>, all)) = ToSet(all)
    BY <2>2, PushedOntoNothing
  <2> QED
    BY <1>3, <2>1, <2>3, <2>4, <2>5
<1> QED
  BY <1>2, <1>3

(* What normalizing makes of one element of a list. *)
NormalizedPart(l, found) == IF IsRegistered(l.kind) THEN NormalizeLocator(l, found) ELSE <<l>>

LEMMA PartNormalized ==
    ASSUME NEW l \in LocatorType, NEW found, HostScan(found)
    PROVE  /\ NormalizedPart(l, found) \in Seq(LocatorType)
           /\ ToSet(NormalizedPart(l, found))
              = IF IsRegistered(l.kind) /\ l.kind \in UDPKinds /\ IsAny(l)
                  THEN {WithAddress(l, a) :
                           a \in IF found = <<>> THEN {LoopbackOf[l.kind]} ELSE ToSet(found)}
                  ELSE {l}
<1>1. CASE IsRegistered(l.kind) /\ l.kind \in UDPKinds /\ IsAny(l)
  BY <1>1, WildcardNormalized DEF NormalizedPart
<1>2. CASE ~(IsRegistered(l.kind) /\ l.kind \in UDPKinds /\ IsAny(l))
  <2>1. NormalizedPart(l, found) = <<l>>
    BY <1>2 DEF NormalizedPart, NormalizeLocator
  <2>2. <<l>> \in Seq(LocatorType) /\ ToSet(<<l>>) = {l}
    BY DEF ToSet
  <2> QED
    BY <1>2, <2>1, <2>2
<1> QED
  BY <1>1, <1>2

(* Normalizing joins what it makes of the elements. *)
LEMMA NormalizedList ==
    ASSUME NEW list \in Seq(LocatorType), NEW scans, \A i \in DOMAIN list : HostScan(scans[i])
    PROVE  /\ Normalized(list, scans) \in Seq(LocatorType)
           /\ NoDuplicates(Normalized(list, scans))
           /\ ToSet(Normalized(list, scans))
              = UNION {ToSet(NormalizedPart(list[i], scans[i])) : i \in DOMAIN list}
<1> DEFINE parts == [i \in DOMAIN list |-> NormalizedPart(list[i], scans[i])]
<1>1. Normalized(list, scans) = Joined(parts)
  BY DEF Normalized, NormalizedPart
<1>2. \A i \in DOMAIN list : NormalizedPart(list[i], scans[i]) \in Seq(LocatorType)
  BY PartNormalized
<1>3. DOMAIN parts = DOMAIN list /\ \A i \in DOMAIN list : parts[i] = NormalizedPart(list[i], scans[i])
  OBVIOUS
<1>4. DOMAIN list = 1..Len(list) /\ Len(list) \in Nat
  OBVIOUS
<1>5. parts \in [1..Len(list) -> Seq(LocatorType)]
  BY <1>2, <1>4
<1> HIDE DEF parts
<1>6. parts \in Seq(Seq(LocatorType))
  BY <1>4, <1>5, FunctionIsSeq
<1>7. /\ Joined(parts) \in Seq(LocatorType) /\ NoDuplicates(Joined(parts))
      /\ ToSet(Joined(parts)) = UNION {ToSet(parts[i]) : i \in DOMAIN parts}
  BY <1>6, JoinedHolds
<1>8. {ToSet(parts[i]) : i \in DOMAIN parts}
      = {ToSet(NormalizedPart(list[i], scans[i])) : i \in DOMAIN list}
  BY <1>3
<1> QED
  BY <1>1, <1>7, <1>8

LEMMA ExpansionOfList ==
    ASSUME UpTypeOK, NEW list \in Seq(LocatorType), NEW scans \in Scans(list)
    PROVE  ToSet(Normalized(list, scans))
           = UNION {Expansion(list[i], scans[i]) : i \in DOMAIN list}
<1>1. \A i \in DOMAIN list : HostScan(scans[i])
  BY ScansOfCall
<1>2. ASSUME NEW i \in DOMAIN list
      PROVE  ToSet(NormalizedPart(list[i], scans[i])) = Expansion(list[i], scans[i])
  <2>1. list[i] \in LocatorType
    OBVIOUS
  <2>2. HostScan(scans[i])
    BY <1>1
  <2>3. list[i].kind \in UDPKinds /\ IsAny(list[i])
        => scans[i] = <<>> \/ ToSet(scans[i]) = up[list[i].kind]
    BY ScansOfCall
  <2> DEFINE l == list[i]
             found == scans[i]
  <2>4. ToSet(NormalizedPart(l, found))
        = IF IsRegistered(l.kind) /\ l.kind \in UDPKinds /\ IsAny(l)
            THEN {WithAddress(l, a) :
                     a \in IF found = <<>> THEN {LoopbackOf[l.kind]} ELSE ToSet(found)}
            ELSE {l}
    BY <2>1, <2>2, PartNormalized
  <2> HIDE DEF l, found
  <2> QED
    BY <2>3, <2>4 DEF Expansion, l, found
<1>3. {ToSet(NormalizedPart(list[i], scans[i])) : i \in DOMAIN list}
      = {Expansion(list[i], scans[i]) : i \in DOMAIN list}
  BY <1>2
<1>4. ToSet(Normalized(list, scans))
      = UNION {ToSet(NormalizedPart(list[i], scans[i])) : i \in DOMAIN list}
  BY <1>1, NormalizedList
<1> QED
  BY <1>3, <1>4

(* A normalized list has no wildcard of a registered kind left.             *)
LEMMA NoWildcardLeft ==
    ASSUME NEW list \in Seq(LocatorType), NEW scans, \A i \in DOMAIN list : HostScan(scans[i]),
           NEW m \in ToSet(Normalized(list, scans))
    PROVE  ~(IsRegistered(m.kind) /\ m.kind \in UDPKinds /\ IsAny(m))
<1>1. PICK i \in DOMAIN list : m \in ToSet(NormalizedPart(list[i], scans[i]))
  BY NormalizedList
<1> DEFINE l == list[i]
           found == scans[i]
<1>2. l \in LocatorType /\ HostScan(found)
  OBVIOUS
<1>3. m \in ToSet(NormalizedPart(l, found))
  BY <1>1
<1> HIDE DEF l, found
<1>4. CASE ~(IsRegistered(l.kind) /\ l.kind \in UDPKinds /\ IsAny(l))
  BY <1>2, <1>3, <1>4, PartNormalized
<1>5. CASE IsRegistered(l.kind) /\ l.kind \in UDPKinds /\ IsAny(l)
  <2>1. PICK a \in IF found = <<>> THEN {LoopbackOf[l.kind]} ELSE ToSet(found) :
           m = WithAddress(l, a)
    BY <1>2, <1>3, <1>5, PartNormalized
  <2>2. a \in AddressType /\ a.tail # AnyTail
    BY <1>2, <1>5, InputsAssumption, InterfacesAssumption DEF HostScan, ToSet
  <2> QED
    BY <1>2, <1>5, <2>1, <2>2, AddressSet
<1> QED
  BY <1>4, <1>5

(* A list without such wildcards stays as it is. *)
LEMMA NormalizingChangesNothing ==
    ASSUME NEW list \in Seq(LocatorType), NoDuplicates(list), NEW scans,
           \A i \in DOMAIN list :
              ~(IsRegistered(list[i].kind) /\ list[i].kind \in UDPKinds /\ IsAny(list[i]))
    PROVE  Normalized(list, scans) = list
<1>1. \A i \in DOMAIN list : NormalizedPart(list[i], scans[i]) = <<list[i]>>
  BY DEF NormalizedPart, NormalizeLocator
<1>2. [i \in DOMAIN list |-> NormalizedPart(list[i], scans[i])] = [i \in DOMAIN list |-> <<list[i]>>]
  BY <1>1
<1>3. Normalized(list, scans) = Joined([i \in DOMAIN list |-> NormalizedPart(list[i], scans[i])])
  BY DEF Normalized, NormalizedPart
<1> QED
  BY <1>2, <1>3, JoinedSingletons

LEMMA SettlesOnList ==
    ASSUME UpTypeOK, NEW list \in Seq(LocatorType), NEW now \in Scans(list), NEW scans
    PROVE  Normalized(Normalized(list, now), scans) = Normalized(list, now)
<1> DEFINE first == Normalized(list, now)
<1>1. \A i \in DOMAIN list : HostScan(now[i])
  BY ScansOfCall
<1>2. first \in Seq(LocatorType) /\ NoDuplicates(first)
  BY <1>1, NormalizedList
<1>3. \A m \in ToSet(first) : ~(IsRegistered(m.kind) /\ m.kind \in UDPKinds /\ IsAny(m))
  BY <1>1, NoWildcardLeft
<1> HIDE DEF first
<1>4. \A i \in DOMAIN first :
         ~(IsRegistered(first[i].kind) /\ first[i].kind \in UDPKinds /\ IsAny(first[i]))
  BY <1>3 DEF ToSet
<1>5. Normalized(first, scans) = first
  BY <1>2, <1>4, NormalizingChangesNothing
<1> QED
  BY <1>5 DEF first

-----------------------------------------------------------------------------
(***************************************************************************)
(* The default locators.                                                   *)
(***************************************************************************)
LEMMA DefaultsAreLocators ==
    ASSUME NEW kind \in Kinds, NEW port \in Ports
    PROVE  /\ DefaultMulticast(kind, port) \in LocatorType
           /\ DefaultMulticast(kind, port).kind = kind
           /\ DefaultUnicast(kind, port) \in LocatorType
<1>1. kind \in Int /\ port % 65536 \in Nat
  BY InputsAssumption DEF Kinds, UDPKinds, UDPv4, UDPv6, SHM
<1>2. GroupOf[kind] \in AddressType /\ [head |-> AnyHead, tail |-> AnyTail] \in AddressType
  BY InputsAssumption DEF AddressType
<1> QED
  BY <1>1, <1>2 DEF DefaultMulticast, DefaultUnicast, DefaultLocator, LocatorType

LEMMA KindsRegistered ==
    ASSUME RegistryTypeOK
    PROVE  transports \in Seq(TransportType) /\ \A t \in TransportType : t.kind \in Kinds
BY DescriptorsAssumption DEF RegistryTypeOK, TransportType

(* What the transports other than shared memory add. *)
LEMMA OthersDefaults ==
    ASSUME RegistryTypeOK, NEW port \in Ports
    PROVE  /\ DefaultsOfOthers(port) \in Seq(LocatorType)
           /\ \A l \in ToSet(DefaultsOfOthers(port)) : l.kind # SHM
           /\ DefaultsOfOthers(port) # <<>>
              <=> \E i \in DOMAIN transports : transports[i].kind # SHM
<1> DEFINE T == {t \in ToSet(transports) : t.kind # SHM}
           kept == OthersThanShm
           new == DefaultsOfOthers(port)
<1>1. transports \in Seq(TransportType) /\ \A t \in TransportType : t.kind \in Kinds
  BY KindsRegistered
<1>2. kept \in Seq(TransportType \cap T)
  BY <1>1, KeptHolds DEF OthersThanShm
<1>3. ToSet(kept) = ToSet(transports) \cap T
  BY <1>1, KeptHolds DEF OthersThanShm
<1>4. /\ DOMAIN kept = 1..Len(kept) /\ Len(kept) \in Nat
      /\ \A i \in DOMAIN kept : kept[i] \in TransportType /\ kept[i] \in T
  BY <1>2
<1>5. new = [i \in DOMAIN kept |-> DefaultMulticast(kept[i].kind, port)]
  BY DEF DefaultsOfOthers
<1>6. \A i \in DOMAIN kept : /\ kept[i].kind \in Kinds /\ kept[i].kind # SHM
  BY <1>1, <1>4
<1> HIDE DEF kept, new, T
<1>7. new \in [1..Len(kept) -> LocatorType]
  BY <1>4, <1>5, <1>6, DefaultsAreLocators
<1>8. new \in Seq(LocatorType) /\ Len(new) = Len(kept)
  BY <1>4, <1>7, FunctionIsSeq
<1>9. \A i \in DOMAIN new : new[i].kind # SHM
  BY <1>5, <1>6, DefaultsAreLocators
<1>10. new # <<>> <=> \E i \in DOMAIN transports : transports[i].kind # SHM
  <2>1. new # <<>> <=> ToSet(kept) # {}
    <3>1. new # <<>> <=> kept # <<>>
      BY <1>2, <1>8
    <3>2. kept = <<>> <=> ToSet(kept) = {}
      BY <1>2, EmptyHasNothing
    <3> QED
      BY <3>1, <3>2
  <2>2. ToSet(kept) # {} <=> \E i \in DOMAIN transports : transports[i].kind # SHM
    BY <1>3 DEF T, ToSet
  <2> QED
    BY <2>1, <2>2
<1> QED
  BY <1>8, <1>9, <1>10 DEF new, ToSet

LEMMA MulticastDefaults ==
    ASSUME RegistryTypeOK, NEW list \in Seq(LocatorType), NEW port \in Ports
    PROVE  LET others == \E i \in DOMAIN transports : transports[i].kind # SHM
               after == WithDefaultMulticast(list, port)
           IN  /\ after \in Seq(LocatorType)
               /\ NoDuplicates(list) => NoDuplicates(after)
               /\ (\E l \in ToSet(after) \ ToSet(list) : l.kind = SHM)
                  <=> IsRegistered(SHM) /\ ~others /\ list = <<>>
               /\ transports # <<>> => after # <<>>
<1> DEFINE others == \E i \in DOMAIN transports : transports[i].kind # SHM
           new == DefaultsOfOthers(port)
           pushed == PushedAll(list, new)
           shm == DefaultMulticast(SHM, port)
           after == WithDefaultMulticast(list, port)
<1>1. /\ new \in Seq(LocatorType) /\ \A l \in ToSet(new) : l.kind # SHM
      /\ new # <<>> <=> others
  BY OthersDefaults
<1>2. shm \in LocatorType /\ shm.kind = SHM
  BY DefaultsAreLocators DEF Kinds
<1>3. after = IF pushed = <<>> /\ IsRegistered(SHM) THEN Pushed(pushed, shm) ELSE pushed
  BY DEF WithDefaultMulticast
<1>4. transports # <<>> => others \/ IsRegistered(SHM)
  <2>1. transports \in Seq(TransportType)
    BY DEF RegistryTypeOK
  <2>2. transports # <<>> => 1 \in DOMAIN transports
    BY <2>1
  <2> QED
    BY <2>2 DEF IsRegistered
<1> HIDE DEF new, shm, after, others
<1>5. pushed \in Seq(LocatorType)
  BY <1>1, PushedAllHolds
<1>6. ToSet(pushed) = ToSet(list) \cup ToSet(new)
  BY <1>1, PushedAllHolds
<1>7. NoDuplicates(list) => NoDuplicates(pushed)
  BY <1>1, PushedAllHolds
<1> HIDE DEF pushed
<1>8. /\ pushed = <<>> <=> ToSet(pushed) = {}
      /\ list = <<>> <=> ToSet(list) = {}
      /\ new = <<>> <=> ToSet(new) = {}
  BY <1>1, <1>5, EmptyHasNothing
<1>9. CASE pushed = <<>> /\ IsRegistered(SHM)
  <2>1. after = <<shm>>
    <3>1. Pushed(<<>>, shm) = <<shm>>
      BY DEF Pushed
    <3> QED
      BY <1>3, <1>9, <3>1
  <2>2. /\ <<shm>> \in Seq(LocatorType) /\ ToSet(<<shm>>) = {shm}
        /\ NoDuplicates(<<shm>>) /\ <<shm>> # <<>>
    BY <1>2 DEF ToSet, NoDuplicates, IsInjective
  <2>3. list = <<>> /\ ToSet(list) = {} /\ ~others
    BY <1>1, <1>6, <1>8, <1>9
  <2> QED
    BY <1>2, <1>9, <2>1, <2>2, <2>3 DEF after, others
<1>10. CASE ~(pushed = <<>> /\ IsRegistered(SHM))
  <2>1. after = pushed
    BY <1>3, <1>10
  <2>2. ~(\E l \in ToSet(after) \ ToSet(list) : l.kind = SHM)
    BY <1>1, <1>6, <2>1
  <2>3. ~(IsRegistered(SHM) /\ ~others /\ list = <<>>)
    BY <1>1, <1>6, <1>8, <1>10
  <2>4. transports # <<>> => after # <<>>
    BY <1>1, <1>4, <1>6, <1>8, <1>10, <2>1
  <2> QED
    BY <1>5, <1>7, <2>1, <2>2, <2>3, <2>4 DEF after, others
<1> QED
  BY <1>9, <1>10

LEMMA UnicastDefaults ==
    ASSUME RegistryTypeOK, NEW list \in Seq(LocatorType), NEW port \in Ports
    PROVE  /\ WithDefaultUnicast(list, port) \in Seq(LocatorType)
           /\ NoDuplicates(list) => NoDuplicates(WithDefaultUnicast(list, port))
<1> DEFINE new == [i \in DOMAIN transports |-> DefaultUnicast(transports[i].kind, port)]
<1>1. transports \in Seq(TransportType) /\ \A t \in TransportType : t.kind \in Kinds
  BY KindsRegistered
<1>2. /\ DOMAIN transports = 1..Len(transports) /\ Len(transports) \in Nat
      /\ \A i \in DOMAIN transports : transports[i].kind \in Kinds
  BY <1>1
<1>3. new \in [1..Len(transports) -> LocatorType]
  BY <1>2, DefaultsAreLocators
<1>4. WithDefaultUnicast(list, port) = PushedAll(list, new)
  BY DEF WithDefaultUnicast
<1> HIDE DEF new
<1>5. new \in Seq(LocatorType)
  BY <1>2, <1>3, FunctionIsSeq
<1>6. PushedAll(list, new) \in Seq(LocatorType)
  BY <1>5, PushedAllHolds
<1>7. NoDuplicates(list) => NoDuplicates(PushedAll(list, new))
  BY <1>5, PushedAllHolds
<1> QED
  BY <1>4, <1>6, <1>7

-----------------------------------------------------------------------------
(***************************************************************************)
(* The calls on lists.                                                     *)
(***************************************************************************)
AllDistinct == \A v \in Lists : NoDuplicates(lists[v])

(* A call that gives one list a new content. *)
LEMMA SetListKeeps ==
    ASSUME ListsTypeOK, NEW v \in Lists, NEW list \in Seq(LocatorType), SetList(v, list),
           AllDistinct => NoDuplicates(list)
    PROVE  ListsTypeOK' /\ (AllDistinct => AllDistinct')
<1>1. Len(list) <= MaxLen[v] /\ lists' = [lists EXCEPT ![v] = list]
  BY DEF SetList
<1>2. lists \in [Lists -> Seq(LocatorType)] /\ \A w \in Lists : Len(lists[w]) <= MaxLen[w]
  BY DEF ListsTypeOK
<1>3. lists' \in [Lists -> Seq(LocatorType)]
  BY <1>1, <1>2
<1>4. \A w \in Lists : lists'[w] = IF w = v THEN list ELSE lists[w]
  BY <1>1, <1>2
<1>5. \A w \in Lists : Len(lists'[w]) <= MaxLen[w]
  BY <1>1, <1>2, <1>4
<1>6. AllDistinct => \A w \in Lists : NoDuplicates(lists'[w])
  BY <1>4 DEF AllDistinct
<1>7. ListsTypeOK'
  BY <1>3, <1>5 DEF ListsTypeOK, LocatorType, AddressType
<1> QED
  BY <1>6, <1>7 DEF AllDistinct

(* A call that gives one list the content of another, which gets `back'.    *)
LEMMA ExchangeKeeps ==
    ASSUME ListsTypeOK, NEW v \in Lists, NEW w \in Lists, NEW back \in Seq(LocatorType),
           Len(lists[w]) <= MaxLen[v], Len(back) <= MaxLen[w],
           lists' = [lists EXCEPT ![v] = lists[w], ![w] = back],
           AllDistinct => NoDuplicates(back)
    PROVE  ListsTypeOK' /\ (AllDistinct => AllDistinct')
<1>1. lists \in [Lists -> Seq(LocatorType)] /\ \A u \in Lists : Len(lists[u]) <= MaxLen[u]
  BY DEF ListsTypeOK
<1>2. \A u \in Lists :
         lists'[u] = IF u = w THEN back ELSE IF u = v THEN lists[w] ELSE lists[u]
  BY <1>1
<1>3. lists' \in [Lists -> Seq(LocatorType)]
  BY <1>1
<1>4. \A u \in Lists : Len(lists'[u]) <= MaxLen[u]
  BY <1>1, <1>2
<1>5. AllDistinct => \A u \in Lists : NoDuplicates(lists'[u])
  BY <1>2 DEF AllDistinct
<1>6. ListsTypeOK'
  BY <1>3, <1>4 DEF ListsTypeOK, LocatorType, AddressType
<1> QED
  BY <1>5, <1>6 DEF AllDistinct

LEMMA ListCallKeeps ==
    ASSUME TypeOK, NEW v \in Lists, ListCall(v)
    PROVE  ListsTypeOK' /\ (AllDistinct => AllDistinct')
<1>1. /\ lists \in [Lists -> Seq(LocatorType)] /\ lists[v] \in Seq(LocatorType)
      /\ \A w \in Lists : lists[w] \in Seq(LocatorType) /\ Len(lists[w]) <= MaxLen[w]
      /\ ListsTypeOK /\ UpTypeOK /\ RegistryTypeOK
      /\ AllDistinct => \A w \in Lists : NoDuplicates(lists[w])
  BY DEF TypeOK, ListsTypeOK, AllDistinct
<1>2. <<>> \in Seq(LocatorType) /\ NoDuplicates(<<>>)
  BY DEF NoDuplicates, IsInjective
<1>3. CASE NormalizeLocators(v)
  <2>1. PICK scans \in Scans(lists[v]) : SetList(v, Normalized(lists[v], scans))
    BY <1>3 DEF NormalizeLocators
  <2>2. \A i \in DOMAIN lists[v] : HostScan(scans[i])
    BY <1>1, ScansOfCall
  <2>3. Normalized(lists[v], scans) \in Seq(LocatorType)
    BY <1>1, <2>2, NormalizedList
  <2>4. NoDuplicates(Normalized(lists[v], scans))
    BY <1>1, <2>2, NormalizedList
  <2> QED
    BY <1>1, <2>1, <2>3, <2>4, SetListKeeps
<1>4. CASE ClearList(v)
  BY <1>1, <1>2, <1>4, SetListKeeps DEF ClearList
<1>5. CASE \E p \in Ports : DefaultMulticastLocators(v, p)
  <2>1. PICK p \in Ports : SetList(v, WithDefaultMulticast(lists[v], p))
    BY <1>5 DEF DefaultMulticastLocators
  <2>2. WithDefaultMulticast(lists[v], p) \in Seq(LocatorType)
    BY <1>1, MulticastDefaults
  <2>3. NoDuplicates(lists[v]) => NoDuplicates(WithDefaultMulticast(lists[v], p))
    BY <1>1, MulticastDefaults
  <2> QED
    BY <1>1, <2>1, <2>2, <2>3, SetListKeeps
<1>6. CASE \E p \in Ports : DefaultUnicastLocators(v, p)
  <2>1. PICK p \in Ports : SetList(v, WithDefaultUnicast(lists[v], p))
    BY <1>6 DEF DefaultUnicastLocators
  <2>2. WithDefaultUnicast(lists[v], p) \in Seq(LocatorType)
    BY <1>1, UnicastDefaults
  <2>3. NoDuplicates(lists[v]) => NoDuplicates(WithDefaultUnicast(lists[v], p))
    BY <1>1, UnicastDefaults
  <2> QED
    BY <1>1, <2>1, <2>2, <2>3, SetListKeeps
<1>7. CASE \E l \in Locators : PushLocator(v, l)
  <2>1. PICK l \in Locators : SetList(v, Pushed(lists[v], l))
    BY <1>7 DEF PushLocator
  <2>2. l \in LocatorType
    BY InputsAssumption
  <2>3. Pushed(lists[v], l) \in Seq(LocatorType)
    BY <1>1, <2>2, PushKeepsDistinct
  <2>4. NoDuplicates(lists[v]) => NoDuplicates(Pushed(lists[v], l))
    BY <1>1, <2>2, PushKeepsDistinct
  <2> QED
    BY <1>1, <2>1, <2>3, <2>4, SetListKeeps
<1>8. CASE \E w \in Lists : PushList(v, w)
  <2>1. PICK w \in Lists : SetList(v, PushedAll(lists[v], lists[w]))
    BY <1>8 DEF PushList
  <2>2. PushedAll(lists[v], lists[w]) \in Seq(LocatorType)
    BY <1>1, PushedAllHolds
  <2>3. NoDuplicates(lists[v]) => NoDuplicates(PushedAll(lists[v], lists[w]))
    BY <1>1, PushedAllHolds
  <2> QED
    BY <1>1, <2>1, <2>2, <2>3, SetListKeeps
<1>9. CASE \E w \in Lists : AssignList(v, w)
  <2>1. PICK w \in Lists : SetList(v, Assigned(lists[v], lists[w]))
    BY <1>9 DEF AssignList
  <2>2. Assigned(lists[v], lists[w]) \in {lists[v], lists[w]}
    BY DEF Assigned
  <2> QED
    BY <1>1, <2>1, <2>2, SetListKeeps
<1>10. CASE \E w \in Lists : CopyList(v, w)
  BY <1>1, <1>10, SetListKeeps DEF CopyList
<1>11. CASE \E w \in Lists : MoveList(v, w)
  <2>1. PICK w \in Lists :
           /\ Len(lists[w]) <= MaxLen[v]
           /\ lists' = [lists EXCEPT ![v] = lists[w], ![w] = <<>>]
    BY <1>11 DEF MoveList
  <2>2. Len(<<>>) <= MaxLen[w]
    BY InputsAssumption
  <2> QED
    BY <1>1, <1>2, <2>1, <2>2, ExchangeKeeps
<1>12. CASE \E w \in Lists : SwapLists(v, w)
  BY <1>1, <1>12, ExchangeKeeps DEF SwapLists
<1>13. CASE \E i \in DOMAIN lists[v] : EraseLocator(v, i)
  <2>1. PICK i \in DOMAIN lists[v] : SetList(v, Erased(lists[v], i))
    BY <1>13 DEF EraseLocator
  <2>2. Erased(lists[v], i) \in Seq(LocatorType)
    BY <1>1, EraseKeepsDistinct
  <2>3. NoDuplicates(lists[v]) => NoDuplicates(Erased(lists[v], i))
    BY <1>1, EraseKeepsDistinct
  <2> QED
    BY <1>1, <2>1, <2>2, <2>3, SetListKeeps
<1> QED
  BY <1>3, <1>4, <1>5, <1>6, <1>7, <1>8, <1>9, <1>10, <1>11, <1>12, <1>13 DEF ListCall

(* An element of a list gets a port: its type stays, its list may come to   *)
(* hold it twice.                                                           *)
LEMMA FillKeepsType ==
    ASSUME TypeOK, NEW v \in Lists, NEW i \in DOMAIN lists[v], NEW p \in Ports,
           FillLocator(v, i, p)
    PROVE  ListsTypeOK'
<1>1. /\ lists \in [Lists -> Seq(LocatorType)] /\ lists[v] \in Seq(LocatorType)
      /\ \A w \in Lists : Len(lists[w]) <= MaxLen[w]
  BY DEF TypeOK, ListsTypeOK
<1> DEFINE l == IF IsRegistered(lists[v][i].kind) THEN Filled(lists[v][i], p) ELSE lists[v][i]
           list == [lists[v] EXCEPT ![i] = l]
<1>2. lists[v][i] \in LocatorType /\ p \in Nat
  BY <1>1, InputsAssumption
<1>3. l \in LocatorType
  BY <1>2 DEF Filled, LocatorType
<1>4. SetList(v, list)
  BY DEF FillLocator
<1> HIDE DEF l
<1>5. list \in Seq(LocatorType)
  BY <1>1, <1>3
<1> HIDE DEF list
<1>6. Len(list) <= MaxLen[v] /\ lists' = [lists EXCEPT ![v] = list]
  BY <1>4 DEF SetList
<1>7. lists' \in [Lists -> Seq(LocatorType)]
  BY <1>1, <1>5, <1>6
<1>8. \A w \in Lists : Len(lists'[w]) <= MaxLen[w]
  BY <1>1, <1>6
<1> QED
  BY <1>7, <1>8 DEF ListsTypeOK, LocatorType, AddressType

LEMMA ListsStart == Init => UpTypeOK /\ ListsTypeOK
<1> SUFFICES ASSUME Init
             PROVE  UpTypeOK /\ ListsTypeOK
  OBVIOUS
<1>1. UpTypeOK
  BY InterfacesAssumption DEF Init, UpTypeOK
<1>2. ListsTypeOK
  BY InputsAssumption DEF Init, ListsTypeOK
<1> QED
  BY <1>1, <1>2

LEMMA HostUntouched == ASSUME UpTypeOK, UNCHANGED up PROVE UpTypeOK'
BY DEF UpTypeOK

LEMMA ListsUntouched == ASSUME ListsTypeOK, UNCHANGED lists PROVE ListsTypeOK'
BY DEF ListsTypeOK, LocatorType, AddressType

LEMMA TypeStep == TypeOK /\ [Next]_vars => UpTypeOK' /\ ListsTypeOK'
<1> SUFFICES ASSUME TypeOK, [Next]_vars
             PROVE  UpTypeOK' /\ ListsTypeOK'
  OBVIOUS
<1>1. UpTypeOK /\ ListsTypeOK
  BY DEF TypeOK
<1>2. CASE \E d \in Descriptors : RegisterNothing(d) \/ RegisterNew(d)
  BY <1>1, <1>2, HostUntouched, ListsUntouched DEF RegisterNothing, RegisterNew, vars
<1>3. CASE \E k \in UDPKinds : \E addresses \in Interfaces[k] : InterfacesChange(k, addresses)
  <2>1. UpTypeOK'
    BY <1>1, <1>3 DEF UpTypeOK, InterfacesChange
  <2> QED
    BY <1>1, <1>3, <2>1, ListsUntouched DEF InterfacesChange
<1>4. CASE \E v \in Lists : ListCall(v)
  <2>1. UNCHANGED up
    BY <1>4 DEF ListCall, NormalizeLocators, ClearList, DefaultMulticastLocators,
       DefaultUnicastLocators, PushLocator, PushList, AssignList, CopyList, MoveList,
       EraseLocator, SwapLists
  <2> QED
    BY <1>1, <1>4, <2>1, ListCallKeeps, HostUntouched
<1>5. CASE \E v \in Lists : \E i \in DOMAIN lists[v], p \in Ports : FillLocator(v, i, p)
  BY <1>1, <1>5, FillKeepsType, HostUntouched DEF FillLocator
<1>6. CASE UNCHANGED vars
  BY <1>1, <1>6, HostUntouched, ListsUntouched DEF vars
<1> QED
  BY <1>2, <1>3, <1>4, <1>5, <1>6 DEF Next

-----------------------------------------------------------------------------
(***************************************************************************)
(* What holds of every behaviour.                                          *)
(***************************************************************************)
(* The registry and the lists keep their types and bounds.                  *)
THEOREM RegistryTypeCorrect == Spec => []TypeOK
<1>1. Init => RInv /\ TypeOK
  BY RegistryStarts, ListsStart DEF TypeOK, RInv
<1>2. (RInv /\ TypeOK) /\ [Next]_vars => (RInv /\ TypeOK)'
  BY RegistryStep, TypeStep DEF TypeOK, RInv
<1> QED
  BY <1>1, <1>2, PTL DEF Spec

(* No call on whole lists puts a locator twice into a list: whatever the    *)
(* application does with them, only writing to an element can.              *)
THEOREM ListCallsKeepDistinct == Spec => CallsKeepListsDistinct
<1>1. TypeOK /\ [Next]_vars
      => [/\ \A v \in Lists : NoDuplicates(lists[v])
          /\ \E v \in Lists : ~NoDuplicates(lists'[v])
          => ~\E v \in Lists : ListCall(v)]_vars
  BY ListCallKeeps DEF AllDistinct
<1> QED
  BY <1>1, RegistryTypeCorrect, PTL DEF Spec, CallsKeepListsDistinct

(* assign replaces, in every state where neither list has duplicates.       *)
THEOREM AssignAlwaysReplaces == Spec => []AssignReplaces
<1>1. TypeOK => AssignReplaces
  <2> SUFFICES ASSUME TypeOK, NEW v \in Lists, NEW w \in Lists,
                      NoDuplicates(lists[v]), NoDuplicates(lists[w])
               PROVE  ToSet(Assigned(lists[v], lists[w])) = ToSet(lists[w])
    BY DEF AssignReplaces
  <2>1. lists[v] \in Seq(LocatorType) /\ lists[w] \in Seq(LocatorType)
    BY DEF TypeOK, ListsTypeOK
  <2> QED
    BY <2>1, AssignGivesTheOthers
<1> QED
  BY <1>1, RegistryTypeCorrect, PTL

(* A normalized list has every locator that is not a wildcard of a          *)
(* registered kind, and for each such wildcard the locators of all          *)
(* interfaces of its kind, or of the loopback.                              *)
THEOREM NormalizingExpands == Spec => []NormalizedIsExpansion
<1>1. TypeOK => NormalizedIsExpansion
  <2> SUFFICES ASSUME TypeOK, NEW v \in Lists, NEW scans \in Scans(lists[v])
               PROVE  ToSet(Normalized(lists[v], scans))
                      = UNION {Expansion(lists[v][i], scans[i]) : i \in DOMAIN lists[v]}
    BY DEF NormalizedIsExpansion
  <2>1. UpTypeOK /\ lists[v] \in Seq(LocatorType)
    BY DEF TypeOK, ListsTypeOK
  <2> QED
    BY <2>1, ExpansionOfList
<1> QED
  BY <1>1, RegistryTypeCorrect, PTL

(* Normalizing again changes nothing, whatever a later scan finds.          *)
THEOREM NormalizingSettles == Spec => []NormalizationSettles
<1>1. TypeOK => NormalizationSettles
  <2> SUFFICES ASSUME TypeOK, NEW v \in Lists, NEW now \in Scans(lists[v]), NEW later \in FoundEver
               PROVE  LET list == Normalized(lists[v], now) IN
                      Normalized(list, [i \in DOMAIN list |->
                                          IF list[i].kind \in UDPKinds
                                            THEN later[list[i].kind] ELSE <<>>]) = list
    BY DEF NormalizationSettles
  <2>1. UpTypeOK /\ lists[v] \in Seq(LocatorType)
    BY DEF TypeOK, ListsTypeOK
  <2> QED
    BY <2>1, SettlesOnList
<1> QED
  BY <1>1, RegistryTypeCorrect, PTL

(* The default locators of shared memory are added to a list exactly if it  *)
(* is empty and no other transport is registered.                           *)
THEOREM ShmOnlyAsFallback == Spec => []ShmIsFallback
<1>1. TypeOK => ShmIsFallback
  <2> SUFFICES ASSUME TypeOK, NEW v \in Lists, NEW port \in Ports
               PROVE  LET after == WithDefaultMulticast(lists[v], port)
                          others == \E i \in DOMAIN transports : transports[i].kind # SHM
                      IN  /\ (\E l \in ToSet(after) \ ToSet(lists[v]) : l.kind = SHM)
                             <=> IsRegistered(SHM) /\ ~others /\ lists[v] = <<>>
                          /\ transports # <<>> => after # <<>>
    BY DEF ShmIsFallback
  <2>1. RegistryTypeOK /\ lists[v] \in Seq(LocatorType)
    BY DEF TypeOK, ListsTypeOK
  <2> QED
    BY <2>1, MulticastDefaults
<1> QED
  BY <1>1, RegistryTypeCorrect, PTL
=============================================================================
