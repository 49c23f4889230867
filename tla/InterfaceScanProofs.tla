-------------------------- MODULE InterfaceScanProofs --------------------------
(***************************************************************************)
(* Proofs about InterfaceScan, for every value of its constants.           *)
(***************************************************************************)
EXTENDS InterfaceScan, ListTheorems, TLAPS

(***************************************************************************)
(* The inductive invariant: getAllMACAddress asks about interfaces, one    *)
(* after the other, and the vector has grown by what it has asked about.   *)
(***************************************************************************)
AskedInOrder ==
    /\ next \in Nat
    /\ \A i \in DOMAIN ips : i # 0 /\ ips[i].dev \in Devices
    /\ macs \in Seq(Macs)

GrownByAsked ==
    /\ NoDuplicates(macs)
    /\ next # 0 => ToSet(macs) = before \cup MacsOf(next - 1)

MInv == AskedInOrder /\ GrownByAsked

(* A scan finds addresses of interfaces.                                    *)
LEMMA ScansFindDevices ==
    ASSUME NEW scan \in UncheckedScans
    PROVE  \A i \in DOMAIN scan : i # 0 /\ scan[i].dev \in Devices
<1>1. \A e \in Entries : e.dev \in Devices
  BY DEF Entries, Listed
<1>2. CASE scan = <<>>
  BY <1>2
<1>3. CASE scan \in Scans
  BY <1>1, <1>3 DEF Scans, SetToSeqs
<1> QED
  BY <1>2, <1>3 DEF UncheckedScans

-----------------------------------------------------------------------------
(***************************************************************************)
(* Every step keeps the invariant.                                         *)
(***************************************************************************)
LEMMA MacsStart == Init => MInv
BY DEF Init, MInv, AskedInOrder, GrownByAsked, NoDuplicates, IsInjective

(* What leaves the question, the scan and the vector alone.                 *)
LEMMA AskingKept ==
    ASSUME MInv, UNCHANGED <<ips, next, macs, before>>
    PROVE  MInv'
BY DEF MInv, AskedInOrder, GrownByAsked, MacsOf, Macs

LEMMA MacsReturn ==
    ASSUME MInv, NEW value, Return(value), UNCHANGED macs
    PROVE  MInv'
BY DEF MInv, AskedInOrder, GrownByAsked, Return, Macs

LEMMA MacsScan ==
    ASSUME MInv, StartMacs
    PROVE  MInv'
<1>1. /\ ips' \in UncheckedScans /\ next' = 1 /\ macs' \in {macs, <<>>}
      /\ before' = ToSet(macs')
  BY DEF StartMacs
<1>2. \A i \in DOMAIN ips' : i # 0 /\ ips'[i].dev \in Devices
  BY <1>1, ScansFindDevices
<1>3. macs' \in Seq(Macs) /\ NoDuplicates(macs')
  <2>1. macs \in Seq(Macs) /\ NoDuplicates(macs)
    BY DEF MInv, AskedInOrder, GrownByAsked
  <2>2. <<>> \in Seq(Macs) /\ NoDuplicates(<<>>)
    BY DEF NoDuplicates, IsInjective
  <2>3. CASE macs' = macs
    BY <2>1, <2>3
  <2>4. CASE macs' = <<>>
    BY <2>2, <2>4
  <2> QED
    BY <1>1, <2>3, <2>4
<1>4. AskedInOrder'
  BY <1>1, <1>2, <1>3 DEF AskedInOrder, Macs
<1>5. MacsOf(next - 1)' = {}
  BY <1>1 DEF MacsOf
<1>6. GrownByAsked'
  BY <1>1, <1>3, <1>5 DEF GrownByAsked
<1> QED
  BY <1>4, <1>6 DEF MInv

(* The answer for the next interface of the scan.                           *)
LEMMA MacsAnswer ==
    ASSUME MInv, AskAnswered
    PROVE  MInv'
<1> DEFINE mac == HardwareOf[ips[next].dev]
<1>1. /\ next \in DOMAIN ips /\ next \in Nat /\ macs \in Seq(Macs) /\ NoDuplicates(macs)
      /\ ips' = ips /\ next' = next + 1 /\ next # 0 /\ before' = before
      /\ macs' = IF mac = NotEthernet THEN macs ELSE Pushed(macs, mac)
  BY DEF AskAnswered, MInv, AskedInOrder, GrownByAsked
<1>2. mac # NotEthernet => mac \in Macs
  BY <1>1 DEF Macs, MInv, AskedInOrder
<1>3. /\ macs' \in Seq(Macs) /\ NoDuplicates(macs')
      /\ ToSet(macs') = ToSet(macs) \cup ({mac} \ {NotEthernet})
  <2>1. CASE mac = NotEthernet
    BY <1>1, <2>1
  <2>2. CASE mac # NotEthernet
    <3> HIDE DEF mac
    <3>1. macs' = Pushed(macs, mac)
      BY <1>1, <2>2
    <3>2. /\ Pushed(macs, mac) \in Seq(Macs) /\ NoDuplicates(Pushed(macs, mac))
          /\ ToSet(Pushed(macs, mac)) = ToSet(macs) \cup {mac}
      BY <1>1, <1>2, <2>2, PushKeepsDistinct
    <3> QED
      BY <2>2, <3>1, <3>2
  <2> QED
    BY <2>1, <2>2
<1>4. AskedInOrder'
  BY <1>1, <1>3 DEF MInv, AskedInOrder, Macs
<1>5. MacsOf(next - 1)' = MacsOf(next - 1) \cup ({mac} \ {NotEthernet})
  <2>1. 1..next' - 1 = (1..next - 1) \cup {next}
    BY <1>1
  <2> QED
    BY <1>1, <2>1 DEF MacsOf
<1>6. GrownByAsked'
  <2>1. ToSet(macs) = before \cup MacsOf(next - 1)
    BY <1>1 DEF MInv, GrownByAsked
  <2> QED
    BY <1>1, <1>3, <1>5, <2>1 DEF GrownByAsked
<1> QED
  BY <1>4, <1>6 DEF MInv

LEMMA MacsStep == MInv /\ [Next]_vars => MInv'
<1> SUFFICES ASSUME MInv, [Next]_vars
             PROVE  MInv'
  OBVIOUS
<1>1. CASE \E d \in Devices : HostChanges(d)
  BY <1>1, AskingKept DEF HostChanges, asking
<1>2. CASE \E kinds \in {{UDPv4}, {UDPv6}, UDPKinds} : ListAddresses(kinds)
  BY <1>2, AskingKept DEF ListAddresses, asking
<1>3. CASE ScanFails
  BY <1>3, AskingKept DEF ScanFails, asking
<1>4. CASE \E k \in UDPKinds : ExpandWildcard(k)
  BY <1>4, AskingKept DEF ExpandWildcard, asking
<1>5. CASE StartMacs
  BY <1>5, MacsScan
<1>6. CASE AskRefused
  BY <1>6, MacsReturn DEF AskRefused
<1>7. CASE AskAnswered
  BY <1>7, MacsAnswer
<1>8. CASE FinishMacs
  BY <1>8, MacsReturn DEF FinishMacs
<1>9. CASE UNCHANGED vars
  BY <1>9, AskingKept DEF vars
<1> QED
  BY <1>1, <1>2, <1>3, <1>4, <1>5, <1>6, <1>7, <1>8, <1>9 DEF Next

(* The call returns in two steps only: the one that finishes returns true   *)
(* when all were asked about, the other false.                              *)
LEMMA MacsReturned ==
    ASSUME MInv, [Next]_vars, next # 0, next' = 0
    PROVE  /\ macs' = macs /\ NoDuplicates(macs)
           /\ ToSet(macs) = before \cup MacsOf(IF answer' THEN Len(ips) ELSE next - 1)
<1>1. NoDuplicates(macs) /\ ToSet(macs) = before \cup MacsOf(next - 1) /\ next \in Nat
  BY DEF MInv, AskedInOrder, GrownByAsked
<1>2. CASE AskRefused
  BY <1>1, <1>2 DEF AskRefused, Return
<1>3. CASE FinishMacs
  <2>1. answer' = TRUE /\ macs' = macs /\ next = Len(ips) + 1
    BY <1>3 DEF FinishMacs, Return
  <2>2. next - 1 = Len(ips)
    BY <1>1, <2>1
  <2> QED
    BY <1>1, <2>1, <2>2
<1>4. next' = next \/ next' = next + 1 \/ next' = 1 \/ AskRefused \/ FinishMacs
  BY DEF Next, HostChanges, ListAddresses, ScanFails, ExpandWildcard, StartMacs, AskAnswered,
         asking, vars
<1> QED
  BY <1>1, <1>2, <1>3, <1>4

(* A getAllMACAddress that returns true has put each Ethernet interface of  *)
(* its scan in the vector, one that returns false those it asked about, and *)
(* neither anything else or anything twice, on any host and however its     *)
(* interfaces change meanwhile.                                             *)
THEOREM MacsAnswered == Spec => MacsAnswerForTheScan
<1>1. MInv /\ [Next]_vars =>
        [next # 0 /\ next' = 0 =>
            /\ ToSet(macs') = before \cup MacsOf(IF answer' THEN Len(ips) ELSE next - 1)
            /\ NoDuplicates(macs')]_vars
  BY MacsReturned
<1> QED
  BY MacsStart, MacsStep, <1>1, PTL DEF Spec, MacsAnswerForTheScan

-----------------------------------------------------------------------------
(***************************************************************************)
(* What a scan finds.                                                      *)
(***************************************************************************)
Found == [dev : Devices, locator : {a \in Addresses : a.kind \in UDPKinds}]

Listable == {a \in Addresses : a.kind \in UDPKinds} \cup {LocalOf[k] : k \in UDPKinds}

LEMMA EntriesFound ==
    ASSUME DOMAIN host = Devices, \A d \in Devices : host[d] \in States[d]
    PROVE  Entries \subseteq Found /\ IsFiniteSet(Entries)
<1> DEFINE Of(d) == {[dev |-> d, locator |-> a] : a \in host[d].addresses}
           P == {d \in Devices : host[d].present}
<1>1. \A d \in Devices : host[d].addresses \subseteq Addresses
  BY DEF Addresses
<1>2. \A e \in Entries : \E d \in Devices : \E a \in host[d].addresses :
         e = [dev |-> d, locator |-> a] /\ a.kind \in UDPKinds
  BY DEF Entries, Listed
<1>3. Entries \subseteq Found
  BY <1>1, <1>2 DEF Found
<1>4. IsFiniteSet(P)
  BY DevicesAssumption, FS_Subset
<1>5. \A d \in P : IsFiniteSet(Of(d))
  <2> TAKE d \in P
  <2>1. IsFiniteSet(host[d].addresses)
    BY StatesAssumption
  <2> DEFINE f == [a \in host[d].addresses |-> [dev |-> d, locator |-> a]]
  <2>2. f \in Surjection(host[d].addresses, Of(d))
    BY DEF Surjection
  <2> QED
    BY <2>1, <2>2, FS_Surjection
<1>6. Listed = UNION {Of(d) : d \in P}
  BY DEF Listed
<1> HIDE DEF Of, P
<1>7. IsFiniteSet({Of(d) : d \in P})
  <2> DEFINE f == [d \in P |-> Of(d)]
  <2>1. f \in Surjection(P, {Of(d) : d \in P})
    BY DEF Surjection
  <2> QED
    BY <1>4, <2>1, FS_Surjection
<1>8. IsFiniteSet(Listed)
  BY <1>5, <1>6, <1>7, FS_UNION
<1>9. Entries \subseteq Listed
  BY DEF Entries
<1>10. IsFiniteSet(Entries)
  BY <1>8, <1>9, FS_Subset
<1> QED
  BY <1>3, <1>10

(* A scan lists each entry once.                                            *)
LEMMA ScanListsEntries ==
    ASSUME DOMAIN host = Devices, \A d \in Devices : host[d] \in States[d],
           NEW scan \in Scans
    PROVE  scan \in Seq(Found) /\ ToSet(scan) = Entries
<1>1. Entries \subseteq Found /\ IsFiniteSet(Entries)
  BY EntriesFound
<1>2. scan \in Seq(Entries) /\ ToSet(scan) = Entries
  BY <1>1, ListingHasAll DEF Scans
<1>3. scan \in Seq(Found)
  <2> DEFINE n == Len(scan)
  <2>1. scan \in [1..n -> Entries] /\ n \in Nat
    BY <1>2
  <2> HIDE DEF n
  <2>2. scan \in [1..n -> Found]
    BY <1>1, <2>1
  <2> QED
    BY <2>1, <2>2, FunctionIsSeq
<1> QED
  BY <1>2, <1>3

LEMMA UncheckedScanFinds ==
    ASSUME DOMAIN host = Devices, \A d \in Devices : host[d] \in States[d],
           NEW scan \in UncheckedScans
    PROVE  scan \in Seq(Found)
<1>1. CASE scan = <<>>
  BY <1>1
<1>2. CASE scan \in Scans
  BY <1>2, ScanListsEntries
<1> QED
  BY <1>1, <1>2 DEF UncheckedScans

(* The locators of some kinds among what was found.                         *)
LEMMA LocatorsFound ==
    ASSUME NEW scan \in Seq(Found), NEW kinds
    PROVE  /\ LocatorsOf(scan, kinds) \in Seq({a \in Addresses : a.kind \in UDPKinds})
           /\ ToSet(LocatorsOf(scan, kinds))
                = {e.locator : e \in {f \in ToSet(scan) : f.locator.kind \in kinds}}
<1> DEFINE A == {a \in Addresses : a.kind \in UDPKinds}
           T == {e \in ToSet(scan) : e.locator.kind \in kinds}
           kept == Kept(scan, T)
<1>1. kept \in Seq(Found \cap T) /\ ToSet(kept) = ToSet(scan) \cap T
  BY KeptHolds
<1>2. LocatorsOf(scan, kinds) = [i \in DOMAIN kept |-> kept[i].locator]
  BY DEF LocatorsOf
<1>3. \A e \in Found \cap T : e.locator \in A
  BY DEF Found
<1>4. ToSet(kept) = T
  BY <1>1
<1> HIDE DEF A, T, kept
<1>5. DOMAIN kept = 1..Len(kept) /\ Len(kept) \in Nat /\ \A i \in 1..Len(kept) : kept[i] \in Found \cap T
  BY <1>1
<1>6. LocatorsOf(scan, kinds) \in [1..Len(kept) -> A]
  BY <1>2, <1>3, <1>5
<1>7. LocatorsOf(scan, kinds) \in Seq(A)
  BY <1>5, <1>6, FunctionIsSeq
<1>8. ToSet(LocatorsOf(scan, kinds)) = {e.locator : e \in ToSet(kept)}
  BY <1>2 DEF ToSet
<1> QED
  BY <1>4, <1>7, <1>8 DEF A, T

(* Pushed onto an empty list, what a scan found is the addresses that reach *)
(* the host from another, each once.                                        *)
LEMMA ScanReaches ==
    ASSUME DOMAIN host = Devices, \A d \in Devices : host[d] \in States[d],
           NEW scan \in Scans, NEW kinds \in SUBSET UDPKinds
    PROVE  /\ ToSet(PushedAll(<<>>, LocatorsOf(scan, kinds))) = Reachable(kinds)
           /\ NoDuplicates(PushedAll(<<>>, LocatorsOf(scan, kinds)))
<1> DEFINE A == {a \in Addresses : a.kind \in UDPKinds}
           found == LocatorsOf(scan, kinds)
<1>1. scan \in Seq(Found) /\ ToSet(scan) = Entries
  BY ScanListsEntries
<1>2. found \in Seq(A)
  BY <1>1, LocatorsFound
<1>3. ToSet(found) = {e.locator : e \in {f \in Entries : f.locator.kind \in kinds}}
  BY <1>1, LocatorsFound
<1>4. ASSUME NEW a
      PROVE  (\E e \in Entries : e.locator = a /\ a.kind \in kinds) <=> a \in Reachable(kinds)
  <2>1. ASSUME NEW e \in Entries, e.locator = a, a.kind \in kinds
        PROVE  a \in Reachable(kinds)
    <3>1. PICK d \in Devices : host[d].present /\ a \in host[d].addresses /\ e.dev = d
      BY <2>1 DEF Entries, Listed
    <3>2. a \in Addresses
      BY <3>1 DEF Addresses
    <3> QED
      BY <2>1, <3>1, <3>2 DEF Entries, Reachable, IsLocal, ReturnLoopback
  <2>2. ASSUME a \in Reachable(kinds)
        PROVE  \E e \in Entries : e.locator = a /\ a.kind \in kinds
    <3>1. PICK d \in Devices : host[d].present /\ host[d].running /\ a \in host[d].addresses
      BY <2>2 DEF Reachable
    <3> DEFINE e == [dev |-> d, locator |-> a]
    <3>2. e \in Listed /\ e.dev = d /\ e.locator = a
      BY <3>1 DEF Listed
    <3> HIDE DEF e
    <3>3. e \in Entries /\ a.kind \in kinds
      BY <2>2, <3>1, <3>2 DEF Entries, Reachable, IsLocal
    <3> QED
      BY <3>2, <3>3
  <2> QED
    BY <2>1, <2>2
<1>5. ToSet(found) = Reachable(kinds)
  BY <1>3, <1>4
<1> HIDE DEF A, found
<1>6. ToSet(PushedAll(<<>>, found)) = ToSet(found) /\ NoDuplicates(PushedAll(<<>>, found))
  <2>1. ToSet(PushedAll(<<>>, found)) = ToSet(found)
    BY <1>2, PushedOntoNothing
  <2>2. NoDuplicates(PushedAll(<<>>, found))
    BY <1>2, PushedOntoNothing
  <2> QED
    BY <2>1, <2>2
<1> QED
  BY <1>5, <1>6 DEF found

-----------------------------------------------------------------------------
(***************************************************************************)
(* Types.                                                                  *)
(***************************************************************************)
HostTypeOK == DOMAIN host = Devices /\ \A d \in Devices : host[d] \in States[d]

AskingTypeOK ==
    /\ ips \in Seq(Found) /\ next \in 0..Len(ips) + 1
    /\ macs \in Seq(Macs) /\ before \subseteq Macs /\ open \in 0..MaxDescriptors

LEMMA TypeParts ==
    TypeOK <=> HostTypeOK /\ list \in Seq(Listable) /\ AskingTypeOK /\ answer \in BOOLEAN
BY DEF TypeOK, HostTypeOK, AskingTypeOK, Found, Listable

LEMMA ListableBy ==
    ASSUME HostTypeOK, NEW scan \in UncheckedScans, NEW kinds
    PROVE  PushedAll(<<>>, LocatorsOf(scan, kinds)) \in Seq(Listable)
<1> DEFINE A == {a \in Addresses : a.kind \in UDPKinds}
           found == LocatorsOf(scan, kinds)
<1>1. scan \in Seq(Found)
  BY UncheckedScanFinds DEF HostTypeOK
<1>2. found \in Seq(A)
  BY <1>1, LocatorsFound
<1>3. A \subseteq Listable
  BY DEF Listable
<1> HIDE DEF A, found
<1>4. found \in Seq(Listable)
  <2>1. Len(found) \in Nat /\ found \in [1..Len(found) -> Listable]
    BY <1>2, <1>3
  <2> QED
    BY <2>1, FunctionIsSeq
<1>5. PushedAll(<<>>, found) \in Seq(Listable)
  BY <1>4, PushedOntoNothing
<1> QED
  BY <1>5 DEF found

LEMMA ReturnKeepsAsking ==
    ASSUME AskingTypeOK, NEW value, Return(value), UNCHANGED <<macs, open>>
    PROVE  AskingTypeOK'
BY DEF AskingTypeOK, Return, Macs

LEMMA StepKeepsType ==
    ASSUME TypeOK, [Next]_vars
    PROVE  TypeOK'
<1>1. HostTypeOK /\ list \in Seq(Listable) /\ AskingTypeOK /\ answer \in BOOLEAN
  BY TypeParts
<1> DEFINE Goal == HostTypeOK' /\ list' \in Seq(Listable) /\ AskingTypeOK' /\ answer' \in BOOLEAN
<1> SUFFICES Goal
  BY DEF TypeOK, HostTypeOK, AskingTypeOK, Found, Listable
<1>2. /\ UNCHANGED host => HostTypeOK'
      /\ UNCHANGED list => list' \in Seq(Listable)
      /\ UNCHANGED answer => answer' \in BOOLEAN
  <2>1. UNCHANGED host => HostTypeOK'
    BY <1>1 DEF HostTypeOK
  <2>2. UNCHANGED list => list' \in Seq(Listable)
    <3>1. Listable' = Listable
      BY DEF Listable
    <3> QED
      BY <1>1, <3>1, Zenon
  <2>3. UNCHANGED answer => answer' \in BOOLEAN
    BY <1>1
  <2> QED
    BY <2>1, <2>2, <2>3
<1>3. UNCHANGED asking => AskingTypeOK'
  BY <1>1 DEF AskingTypeOK, asking, Macs
<1>4. CASE \E d \in Devices : HostChanges(d)
  <2>1. HostTypeOK'
    BY <1>1, <1>4 DEF HostTypeOK, HostChanges
  <2> QED
    BY <1>2, <1>3, <1>4, <2>1, Zenon DEF HostChanges
<1>5. ASSUME NEW kinds \in {{UDPv4}, {UDPv6}, UDPKinds}, ListAddresses(kinds)
      PROVE  Goal
  <2>1. list' \in Seq(Listable)
    <3>1. PICK scan \in Scans : list' = PushedAll(<<>>, LocatorsOf(scan, kinds))
      BY <1>5 DEF ListAddresses
    <3> QED
      BY <1>1, <3>1, ListableBy DEF UncheckedScans
  <2> QED
    BY <1>2, <1>3, <1>5, <2>1 DEF ListAddresses
<1>6. CASE ScanFails
  BY <1>2, <1>3, <1>6 DEF ScanFails
<1>7. ASSUME NEW k \in UDPKinds, ExpandWildcard(k)
      PROVE  Goal
  <2>1. list' \in Seq(Listable)
    <3>1. PICK scan \in UncheckedScans :
            \/ list' = PushedAll(<<>>, LocatorsOf(scan, {k}))
            \/ list' = <<LocalOf[k]>>
      BY <1>7 DEF ExpandWildcard
    <3>2. PushedAll(<<>>, LocatorsOf(scan, {k})) \in Seq(Listable)
      BY <1>1, ListableBy
    <3>3. <<LocalOf[k]>> \in Seq(Listable)
      <4> DEFINE L == LocalOf[k]
      <4>1. L \in Listable
        BY DEF Listable
      <4> HIDE DEF L
      <4>2. <<L>> \in Seq(Listable)
        BY <4>1
      <4> QED
        BY <4>2 DEF L
    <3> QED
      BY <3>1, <3>2, <3>3, Zenon
  <2> QED
    BY <1>1, <1>2, <1>3, <1>7, <2>1 DEF ExpandWildcard
<1>8. CASE StartMacs
  <2>1. ips' \in Seq(Found)
    BY <1>1, <1>8, UncheckedScanFinds DEF HostTypeOK, StartMacs
  <2>2. AskingTypeOK'
    <3>1. macs' \in Seq(Macs)
      <4>1. macs \in Seq(Macs) /\ <<>> \in Seq(Macs)
        BY <1>1 DEF AskingTypeOK
      <4>2. macs' = macs \/ macs' = <<>>
        BY <1>8 DEF StartMacs
      <4> QED
        BY <4>1, <4>2, Zenon
    <3>2. next' \in 0..Len(ips') + 1
      <4>1. Len(ips') \in Nat /\ next' = 1
        BY <1>8, <2>1 DEF StartMacs
      <4> QED
        BY <4>1
    <3>3. open' \in 0..MaxDescriptors
      BY <1>1, <1>8 DEF AskingTypeOK, StartMacs
    <3>4. before' \subseteq Macs
      <4>1. before' = ToSet(macs')
        BY <1>8 DEF StartMacs
      <4> QED
        BY <3>1, <4>1 DEF ToSet
    <3> QED
      BY <2>1, <3>1, <3>2, <3>3, <3>4, Zenon DEF AskingTypeOK, Macs, Found
  <2> QED
    BY <1>2, <1>8, <2>2, Zenon DEF StartMacs
<1>9. CASE AskRefused
  <2>1. AskingTypeOK' /\ answer' \in BOOLEAN
    BY <1>1, <1>9, ReturnKeepsAsking DEF AskRefused, Return
  <2> QED
    BY <1>2, <1>9, <2>1, Zenon DEF AskRefused
<1>10. CASE AskAnswered
  <2> DEFINE mac == HardwareOf[ips[next].dev]
  <2>1. /\ next \in DOMAIN ips /\ next' = next + 1 /\ ips' = ips
        /\ open < MaxDescriptors /\ open' = open + 1 /\ before' = before
        /\ macs' = IF mac = NotEthernet THEN macs ELSE Pushed(macs, mac)
    BY <1>10 DEF AskAnswered
  <2>2. ips[next].dev \in Devices
    <3>1. \A i \in DOMAIN ips : ips[i] \in Found
      BY <1>1 DEF AskingTypeOK
    <3> QED
      BY <2>1, <3>1 DEF Found
  <2>3. mac # NotEthernet => mac \in Macs
    BY <2>2 DEF Macs
  <2>4. macs' \in Seq(Macs)
    <3> HIDE DEF mac
    <3>1. macs \in Seq(Macs)
      BY <1>1 DEF AskingTypeOK
    <3>2. CASE mac = NotEthernet
      BY <2>1, <3>1, <3>2
    <3>3. CASE mac # NotEthernet
      <4>1. Pushed(macs, mac) \in Seq(Macs)
        BY <2>3, <3>1, <3>3, PushKeepsDistinct
      <4> QED
        BY <2>1, <3>3, <4>1
    <3> QED
      BY <3>2, <3>3
  <2>5. next' \in 0..Len(ips') + 1 /\ open' \in 0..MaxDescriptors
    BY <1>1, <2>1, ValuesAssumption DEF AskingTypeOK
  <2>6. AskingTypeOK'
    BY <1>1, <2>1, <2>4, <2>5 DEF AskingTypeOK, Macs
  <2> QED
    BY <1>2, <1>10, <2>6, Zenon DEF AskAnswered
<1>11. CASE FinishMacs
  <2>1. AskingTypeOK' /\ answer' \in BOOLEAN
    BY <1>1, <1>11, ReturnKeepsAsking DEF FinishMacs, Return
  <2> QED
    BY <1>2, <1>11, <2>1, Zenon DEF FinishMacs
<1>12. CASE UNCHANGED vars
  BY <1>2, <1>3, <1>12, Zenon DEF vars, asking
<1> HIDE DEF Goal
<1> QED
  BY <1>4, <1>5, <1>6, <1>7, <1>8, <1>9, <1>10, <1>11, <1>12, Zenon DEF Next

(* The lists hold IP addresses of the host or loopbacks, the vector MAC     *)
(* addresses of its interfaces, and a scan finds interfaces of the host, on *)
(* any host and however it changes.                                         *)
THEOREM ScanTypeCorrect == Spec => []TypeOK
<1>1. Init => TypeOK
  <2> SUFFICES ASSUME Init
               PROVE  TypeOK
    OBVIOUS
  <2>1. HostTypeOK
    BY DEF Init, HostTypeOK
  <2>2. list \in Seq(Listable) /\ answer \in BOOLEAN
    BY DEF Init
  <2>3. AskingTypeOK
    BY ValuesAssumption DEF Init, AskingTypeOK
  <2> QED
    BY <2>1, <2>2, <2>3, TypeParts
<1>2. TypeOK /\ [Next]_vars => TypeOK'
  BY StepKeepsType
<1> QED
  BY <1>1, <1>2, PTL DEF Spec

-----------------------------------------------------------------------------
(***************************************************************************)
(* What the calls return.                                                  *)
(***************************************************************************)
LEMMA CallsList ==
    ASSUME TypeOK, NEW kinds \in {{UDPv4}, {UDPv6}, UDPKinds}, ListAddresses(kinds)
    PROVE  ToSet(list') = Reachable(kinds) /\ NoDuplicates(list')
<1>1. PICK scan \in Scans : list' = PushedAll(<<>>, LocatorsOf(scan, kinds))
  BY DEF ListAddresses
<1>2. kinds \in SUBSET UDPKinds
  BY DEF UDPKinds
<1>3. HostTypeOK
  BY TypeParts
<1>4. /\ ToSet(PushedAll(<<>>, LocatorsOf(scan, kinds))) = Reachable(kinds)
      /\ NoDuplicates(PushedAll(<<>>, LocatorsOf(scan, kinds)))
  BY <1>2, <1>3, ScanReaches DEF HostTypeOK
<1> QED
  BY <1>1, <1>4, Zenon

LEMMA WildcardGives ==
    ASSUME TypeOK, NEW k \in UDPKinds, ExpandWildcard(k)
    PROVE  \/ Reachable({k}) # {} /\ ToSet(list') = Reachable({k})
           \/ (Faults \/ Reachable({k}) = {}) /\ list' = <<LocalOf[k]>>
<1> DEFINE found(scan) == PushedAll(<<>>, LocatorsOf(scan, {k}))
<1>1. PICK scan \in UncheckedScans :
          list' = IF found(scan) = <<>> THEN <<LocalOf[k]>> ELSE found(scan)
  BY DEF ExpandWildcard
<1>2. HostTypeOK
  BY TypeParts
<1>3. found(scan) \in Seq(Listable)
  BY <1>2, ListableBy
<1> HIDE DEF found
<1>4. found(scan) = <<>> <=> ToSet(found(scan)) = {}
  BY <1>3, EmptyHasNothing
<1>5. CASE scan \in Scans
  <2>1. ToSet(found(scan)) = Reachable({k})
    BY <1>2, <1>5, ScanReaches DEF HostTypeOK, found
  <2> QED
    BY <1>1, <1>4, <2>1, Zenon
<1>6. CASE Faults /\ scan = <<>>
  <2>1. found(scan) = <<>>
    <3>1. <<>> \in Seq(Found)
      OBVIOUS
    <3>2. ToSet(LocatorsOf(<<>>, {k})) = {}
      <4>1. ToSet(LocatorsOf(<<>>, {k}))
              = {e.locator : e \in {f \in ToSet(<<>>) : f.locator.kind \in {k}}}
        BY <3>1, LocatorsFound
      <4>2. ToSet(<<>>) = {}
        BY DEF ToSet
      <4> QED
        BY <4>1, <4>2
    <3>3. LocatorsOf(<<>>, {k}) \in Seq({a \in Addresses : a.kind \in UDPKinds})
      BY <3>1, LocatorsFound
    <3>4. ToSet(found(<<>>)) = {}
      BY <3>2, <3>3, PushedOntoNothing DEF found
    <3> QED
      BY <1>4, <1>6, <3>4
  <2> QED
    BY <1>1, <1>6, <2>1, Zenon
<1>7. scan \in Scans \/ (Faults /\ scan = <<>>)
  BY DEF UncheckedScans
<1> QED
  BY <1>5, <1>6, <1>7

(* A list of addresses answers for the host as it is at the call, whatever  *)
(* the list held before and in whatever order the scan finds them: every    *)
(* address of an interface that is up is there once, and no other.          *)
THEOREM ListsAnswer == Spec => ListsAnswerForTheHost
<1>1. ASSUME TypeOK, [Next]_vars
      PROVE  [\A kinds \in {{UDPv4}, {UDPv6}, UDPKinds} :
                 ListAddresses(kinds) => /\ ToSet(list') = Reachable(kinds)
                                         /\ NoDuplicates(list')]_vars
  BY <1>1, CallsList
<1> QED
  BY <1>1, ScanTypeCorrect, PTL DEF Spec, ListsAnswerForTheHost

(* A wildcard becomes the addresses of its kind that the host has, or the   *)
(* loopback when there are none or the scan failed; never nothing.          *)
THEOREM WildcardsExpand == Spec => WildcardsBecomeAddresses
<1>1. ASSUME TypeOK, [Next]_vars
      PROVE  [\A k \in UDPKinds :
                 ExpandWildcard(k) =>
                    \/ Reachable({k}) # {} /\ ToSet(list') = Reachable({k})
                    \/ (Faults \/ Reachable({k}) = {}) /\ list' = <<LocalOf[k]>>]_vars
  BY <1>1, WildcardGives
<1> QED
  BY <1>1, ScanTypeCorrect, PTL DEF Spec, WildcardsBecomeAddresses
=============================================================================
