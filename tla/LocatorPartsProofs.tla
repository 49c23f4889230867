-------------------------- MODULE LocatorPartsProofs --------------------------
(***************************************************************************)
(* Proofs about LocatorParts.  All of them are about a locator of the      *)
(* right type, whatever calls made it, so that the one inductive invariant *)
(* is the type.                                                            *)
(***************************************************************************)
EXTENDS LocatorParts, ListTheorems, TLAPS

(* A locator the application may hold. *)
IsLocator(l) == l \in LocatorType /\ LogicalPort(l) \in Uint16

Parts == {LAN, WAN, IPv4}

(* Numbers that fill a part, and what of them is written there.             *)
Fills(numbers, p) == \A i \in 1..p.size : numbers[i] \in Nat

Cut(numbers, p) == [i \in 1..p.size |-> numbers[i] % 256]

LEMMA PartsOfAddress ==
    ASSUME NEW p \in Parts
    PROVE  /\ p.at \in 0..12 /\ p.size \in {4, 8} /\ p.at + p.size <= 16
           /\ \A q \in Parts \ {p} : p.at + p.size <= q.at \/ q.at + q.size <= p.at
BY DEF Parts, LAN, WAN, IPv4

LEMMA SameFunction ==
    ASSUME NEW D, NEW R, NEW f \in [D -> R], NEW g \in [D -> R],
           \A i \in D : f[i] = g[i]
    PROVE  f = g
OBVIOUS

(* The numbers are written over the part, cut to octets, and nothing else.  *)
LEMMA PutWrites ==
    ASSUME NEW l \in LocatorType, NEW p \in Parts, NEW numbers, Fills(numbers, p)
    PROVE  /\ Put(l, p, numbers) \in LocatorType
           /\ Put(l, p, numbers).kind = l.kind /\ Put(l, p, numbers).port = l.port
           /\ \A i \in 0..15 : Put(l, p, numbers).address[i]
                 = IF i \in p.at..p.at + p.size - 1 THEN numbers[(i - p.at) + 1] % 256
                                                    ELSE l.address[i]
<1> DEFINE address == [i \in 0..15 |->
              IF i \in p.at..p.at + p.size - 1 THEN numbers[(i - p.at) + 1] % 256
                                                ELSE l.address[i]]
<1>1. Put(l, p, numbers) = [l EXCEPT !.address = address]
  BY DEF Put
<1>2. address \in [0..15 -> 0..255]
  <2>1. ASSUME NEW i \in 0..15, i \in p.at..p.at + p.size - 1
        PROVE  numbers[(i - p.at) + 1] % 256 \in 0..255
    <3>1. (i - p.at) + 1 \in 1..p.size
      BY <2>1, PartsOfAddress
    <3> QED
      BY <3>1 DEF Fills
  <2>2. \A i \in 0..15 : l.address[i] \in 0..255
    BY DEF LocatorType
  <2>3. ASSUME NEW i \in 0..15
        PROVE  (IF i \in p.at..p.at + p.size - 1 THEN numbers[(i - p.at) + 1] % 256
                                                  ELSE l.address[i]) \in 0..255
    BY <2>1, <2>2, Zenon
  <2> QED
    BY <2>3, ZenonT(30)
<1>3. \A i \in 0..15 : address[i] = IF i \in p.at..p.at + p.size - 1
                                     THEN numbers[(i - p.at) + 1] % 256 ELSE l.address[i]
  OBVIOUS
<1> HIDE DEF address
<1>4. /\ Put(l, p, numbers) \in LocatorType
      /\ Put(l, p, numbers).kind = l.kind /\ Put(l, p, numbers).port = l.port
      /\ Put(l, p, numbers).address = address
  BY <1>1, <1>2 DEF LocatorType
<1> QED
  BY <1>3, <1>4

(* What a part holds after it, or another part, was written.                *)
LEMMA PutPart ==
    ASSUME NEW l \in LocatorType, NEW p \in Parts, NEW numbers, Fills(numbers, p)
    PROVE  /\ Part(Put(l, p, numbers), p) = Cut(numbers, p)
           /\ \A q \in Parts \ {p} : Part(Put(l, p, numbers), q) = Part(l, q)
<1> DEFINE m == Put(l, p, numbers)
<1>1. \A i \in 0..15 : m.address[i]
        = IF i \in p.at..p.at + p.size - 1 THEN numbers[(i - p.at) + 1] % 256 ELSE l.address[i]
  BY PutWrites
<1> HIDE DEF m
<1>2. \A i \in 1..p.size : m.address[p.at + i - 1] = numbers[i] % 256
  <2> TAKE i \in 1..p.size
  <2> DEFINE j == p.at + i - 1
  <2>1. j \in 0..15 /\ j \in p.at..p.at + p.size - 1 /\ (j - p.at) + 1 = i
    BY PartsOfAddress
  <2> HIDE DEF j
  <2>2. m.address[j] = numbers[i] % 256
    BY <1>1, <2>1
  <2> QED
    BY <2>2 DEF j
<1>3. ASSUME NEW q \in Parts \ {p}, NEW i \in 1..q.size
      PROVE  m.address[q.at + i - 1] = l.address[q.at + i - 1]
  <2> DEFINE j == q.at + i - 1
  <2>1. j \in 0..15 /\ j \notin p.at..p.at + p.size - 1
    BY DEF Parts, LAN, WAN, IPv4
  <2> HIDE DEF j
  <2>2. m.address[j] = l.address[j]
    BY <1>1, <2>1
  <2> QED
    BY <2>2 DEF j
<1> QED
  BY <1>2, <1>3 DEF Part, Cut, m

(* Texts fill the parts they are long enough for. *)
LEMMA TextsFill ==
    ASSUME NEW t \in Texts
    PROVE  /\ Len(t.numbers) >= 4 => Fills(t.numbers, IPv4) /\ Fills(t.numbers, WAN)
           /\ Len(t.numbers) >= 8 => Fills(t.numbers, LAN)
<1>1. t.numbers \in Seq(Nat)
  BY InputsAssumption
<1> QED
  BY <1>1 DEF Fills, IPv4, WAN, LAN

LEMMA OctetsFill ==
    ASSUME NEW octets \in OctetLists
    PROVE  Fills(octets, IPv4) /\ Fills(octets, WAN)
<1>1. octets \in [1..4 -> 0..255]
  BY InputsAssumption
<1> QED
  BY <1>1 DEF Fills, IPv4, WAN

-----------------------------------------------------------------------------
(***************************************************************************)
(* The setters, on any locator.                                            *)
(***************************************************************************)
(* Each setter of a part either leaves the locator as it is or writes its   *)
(* numbers over the part.                                                   *)
Sets(result, l, p) ==
    \/ result.locator = l
    \/ \E numbers : Fills(numbers, p) /\ result.locator = Put(l, p, numbers)

LEMMA SettersSet ==
    ASSUME NEW l
    PROVE  /\ \A t \in Texts : /\ Sets(SetIPv4(l, t), l, IPv4)
                               /\ Sets(SetWan(l, t), l, WAN)
                               /\ Sets(SetLanID(l, t), l, LAN)
           /\ \A octets \in OctetLists : /\ Sets(SetIPv4Octets(l, octets), l, IPv4)
                                         /\ Sets(SetWanOctets(l, octets), l, WAN)
<1>1. ASSUME NEW t \in Texts
      PROVE  /\ Sets(SetIPv4(l, t), l, IPv4)
             /\ Sets(SetWan(l, t), l, WAN)
             /\ Sets(SetLanID(l, t), l, LAN)
  BY TextsFill DEF Sets, SetIPv4, SetWan, SetWanOctets, SetLanID, Result
<1>2. ASSUME NEW octets \in OctetLists
      PROVE  /\ Sets(SetIPv4Octets(l, octets), l, IPv4)
             /\ Sets(SetWanOctets(l, octets), l, WAN)
  BY OctetsFill DEF Sets, SetIPv4Octets, SetWanOctets, Result
<1> QED
  BY <1>1, <1>2

LEMMA SetKeepsOthers ==
    ASSUME NEW l \in LocatorType, NEW p \in Parts, NEW result, Sets(result, l, p)
    PROVE  /\ result.locator \in LocatorType
           /\ OthersKept(l, p, result)
<1>1. CASE result.locator = l
  BY <1>1 DEF OthersKept
<1>2. CASE \E numbers : Fills(numbers, p) /\ result.locator = Put(l, p, numbers)
  <2>1. PICK numbers : Fills(numbers, p) /\ result.locator = Put(l, p, numbers)
    BY <1>2
  <2> QED
    BY <2>1, PutWrites, PutPart DEF OthersKept, Parts
<1> QED
  BY <1>1, <1>2 DEF Sets

LEMMA SettersKeepType ==
    ASSUME NEW l \in LocatorType
    PROVE  /\ \A t \in Texts : /\ OthersKept(l, IPv4, SetIPv4(l, t))
                               /\ OthersKept(l, WAN, SetWan(l, t))
                               /\ OthersKept(l, LAN, SetLanID(l, t))
                               /\ SetIPv4(l, t).locator \in LocatorType
                               /\ SetWan(l, t).locator \in LocatorType
                               /\ SetLanID(l, t).locator \in LocatorType
           /\ \A octets \in OctetLists : /\ OthersKept(l, IPv4, SetIPv4Octets(l, octets))
                                         /\ OthersKept(l, WAN, SetWanOctets(l, octets))
                                         /\ SetIPv4Octets(l, octets).locator \in LocatorType
                                         /\ SetWanOctets(l, octets).locator \in LocatorType
<1>0. IPv4 \in Parts /\ WAN \in Parts /\ LAN \in Parts
  BY DEF Parts
<1>1. ASSUME NEW t \in Texts
      PROVE  /\ OthersKept(l, IPv4, SetIPv4(l, t)) /\ SetIPv4(l, t).locator \in LocatorType
             /\ OthersKept(l, WAN, SetWan(l, t)) /\ SetWan(l, t).locator \in LocatorType
             /\ OthersKept(l, LAN, SetLanID(l, t)) /\ SetLanID(l, t).locator \in LocatorType
  <2>1. Sets(SetIPv4(l, t), l, IPv4) /\ Sets(SetWan(l, t), l, WAN) /\ Sets(SetLanID(l, t), l, LAN)
    BY SettersSet
  <2> QED
    BY <1>0, <2>1, SetKeepsOthers
<1>2. ASSUME NEW octets \in OctetLists
      PROVE  /\ OthersKept(l, IPv4, SetIPv4Octets(l, octets))
             /\ SetIPv4Octets(l, octets).locator \in LocatorType
             /\ OthersKept(l, WAN, SetWanOctets(l, octets))
             /\ SetWanOctets(l, octets).locator \in LocatorType
  <2>1. Sets(SetIPv4Octets(l, octets), l, IPv4) /\ Sets(SetWanOctets(l, octets), l, WAN)
    BY SettersSet
  <2> QED
    BY <1>0, <2>1, SetKeepsOthers
<1> QED
  BY <1>1, <1>2

LEMMA ZeroIsAddress == ZeroAddress \in [0..15 -> 0..255]
BY DEF ZeroAddress

(* setIPv4address keeps port and kind whichever way it ends.                *)
LEMMA AllPartsKeepRest ==
    ASSUME NEW l \in LocatorType, NEW lan \in Texts, NEW wan \in Texts, NEW ipv4 \in Texts
    PROVE  LET m == SetIPv4address(l, lan, wan, ipv4).locator
           IN  m \in LocatorType /\ m.port = l.port /\ m.kind = l.kind
<1> DEFINE first == SetLanID(l, lan)
           second == SetWan(first.locator, wan)
           third == SetIPv4(second.locator, ipv4)
           zero == [l EXCEPT !.address = ZeroAddress]
<1>1. first.locator \in LocatorType /\ first.locator.port = l.port /\ first.locator.kind = l.kind
  BY SettersKeepType DEF OthersKept
<1>2. /\ second.locator \in LocatorType
      /\ second.locator.port = l.port /\ second.locator.kind = l.kind
  <2> HIDE DEF first
  <2> QED
    BY <1>1, SettersKeepType DEF OthersKept
<1>3. third.locator \in LocatorType /\ third.locator.port = l.port /\ third.locator.kind = l.kind
  <2> HIDE DEF second
  <2> QED
    BY <1>2, SettersKeepType DEF OthersKept
<1>4. zero \in LocatorType /\ zero.port = l.port /\ zero.kind = l.kind
  BY ZeroIsAddress DEF LocatorType
<1>5. SetIPv4address(l, lan, wan, ipv4).locator \in {third.locator, zero}
  BY DEF SetIPv4address, Result
<1> HIDE DEF first, second, third, zero
<1> QED
  BY <1>3, <1>4, <1>5

LEMMA CreateMakes ==
    ASSUME NEW l \in LocatorType, NEW kind \in Kinds, NEW t \in Texts, NEW port \in Nat
    PROVE  LET m == CreateLocator(l, kind, t, port)
           IN  m \in LocatorType /\ m.port = port /\ m.kind = kind
<1> DEFINE fresh == [l EXCEPT !.kind = kind, !.port = port, !.address = ZeroAddress]
<1>1. fresh \in LocatorType /\ fresh.port = port /\ fresh.kind = kind
  BY ZeroIsAddress DEF LocatorType
<1> HIDE DEF fresh
<1>2. SetIPv4(fresh, t).locator \in LocatorType /\ OthersKept(fresh, IPv4, SetIPv4(fresh, t))
  BY <1>1, SettersKeepType
<1> QED
  BY <1>1, <1>2 DEF CreateLocator, OthersKept, fresh

LEMMA IsLocatorIsType == IsLocator(locator) <=> TypeOK
BY DEF IsLocator, TypeOK

LEMMA Uint16Holds == \A n : n \in Uint16 <=> n \in Nat /\ n < 65536
BY DEF Uint16

LEMMA PortsFit == Ports \subseteq Uint16 /\ Uint16 \subseteq Nat /\ 0 \in Uint16
<1>1. Uint16 \subseteq Nat /\ 0 \in Uint16
  BY SMT DEF Uint16
<1> QED
  BY <1>1, WidthsAssumption

LEMMA SamePort ==
    ASSUME NEW l, NEW m, IsLocator(l), m \in LocatorType, m.port = l.port
    PROVE  IsLocator(m)
BY DEF IsLocator, LogicalPort

LEMMA SmallPort ==
    ASSUME NEW m \in LocatorType, m.port \in Uint16
    PROVE  IsLocator(m)
<1>1. m.port \in Nat /\ m.port < 65536
  BY SMT, Uint16Holds
<1>2. LogicalPort(m) = 0 /\ 0 \in Uint16
  BY SMT, <1>1, Uint16Holds DEF LogicalPort
<1> QED
  BY <1>2 DEF IsLocator

(* The halves of a port of 32 bits are set one without the other.           *)
LEMMA PortArithmetic ==
    ASSUME NEW n \in Nat, NEW p \in Uint16
    PROVE  /\ LET a == (p * 65536) + (n % 65536)
              IN  a \in Nat /\ a \div 65536 = p /\ a % 65536 = n % 65536
           /\ LET b == (65536 * (n \div 65536)) + p
              IN  b \in Nat /\ b \div 65536 = n \div 65536 /\ b % 65536 = p
<1>1. ASSUME NEW r \in Nat, NEW q \in Nat, r \in Uint16
      PROVE  /\ q * 65536 + r \in Nat
             /\ (q * 65536 + r) \div 65536 = q /\ (q * 65536 + r) % 65536 = r
  <2>1. r < 65536
    BY SMT, <1>1, Uint16Holds
  <2> QED
    BY SMT, <2>1
<1>2. n % 65536 \in Uint16 /\ n \div 65536 \in Nat /\ n % 65536 \in Nat /\ p \in Nat
  BY SMT, Uint16Holds
<1>3. 65536 * (n \div 65536) = (n \div 65536) * 65536
  BY SMT, <1>2
<1> QED
  BY SMT, <1>1, <1>2, <1>3

LEMMA PortSetters ==
    ASSUME NEW l, IsLocator(l), NEW p \in Uint16
    PROVE  /\ LET m == SetLogicalPort(l, p).locator
              IN  /\ IsLocator(m) /\ m = [l EXCEPT !.port = m.port]
                  /\ LogicalPort(m) = p /\ PhysicalPort(m) = PhysicalPort(l)
           /\ LET m == SetPhysicalPort(l, p).locator
              IN  /\ IsLocator(m) /\ m = [l EXCEPT !.port = m.port]
                  /\ LogicalPort(m) = LogicalPort(l) /\ PhysicalPort(m) = p
<1> DEFINE a == (p * 65536) + (l.port % 65536)
           b == (65536 * (l.port \div 65536)) + p
<1>0. l \in LocatorType /\ LogicalPort(l) \in Uint16
  BY SMT DEF IsLocator
<1> DEFINE A == [0..15 -> 0..255]
           K == Kinds \cup {UDPv4}
<1>1. l \in [kind : K, port : Nat, address : A]
  BY <1>0 DEF LocatorType
<1>2. LocatorType = [kind : K, port : Nat, address : A]
  BY DEF LocatorType
<1> HIDE DEF A, K
<1>3. l.port \in Nat
  BY <1>1
<1>4. a \in Nat /\ a \div 65536 = p /\ a % 65536 = l.port % 65536
  BY SMT, <1>3, PortArithmetic
<1>5. b \in Nat /\ b \div 65536 = l.port \div 65536 /\ b % 65536 = p
  BY SMT, <1>3, PortArithmetic
<1>6. /\ SetLogicalPort(l, p).locator = [l EXCEPT !.port = a]
      /\ SetPhysicalPort(l, p).locator = [l EXCEPT !.port = b]
  BY SMT DEF SetLogicalPort, SetPhysicalPort, Result
<1> HIDE DEF a, b
<1>7. \A n \in Nat : /\ [l EXCEPT !.port = n] \in LocatorType
                     /\ [l EXCEPT !.port = n].port = n
  BY SMT, <1>1, <1>2
<1>8. ASSUME NEW m, NEW n \in Nat, m = [l EXCEPT !.port = n], n \div 65536 \in Uint16
      PROVE  /\ IsLocator(m) /\ m = [l EXCEPT !.port = m.port]
             /\ LogicalPort(m) = n \div 65536 /\ PhysicalPort(m) = n % 65536
  BY SMT, <1>7, <1>8 DEF IsLocator, LogicalPort, PhysicalPort
<1>9. LogicalPort(l) = l.port \div 65536 /\ PhysicalPort(l) = l.port % 65536
  BY SMT DEF LogicalPort, PhysicalPort
<1>10. l.port \div 65536 \in Uint16
  BY SMT, <1>0, <1>9
<1>11. LET m == SetLogicalPort(l, p).locator
       IN  /\ IsLocator(m) /\ m = [l EXCEPT !.port = m.port]
           /\ LogicalPort(m) = p /\ PhysicalPort(m) = PhysicalPort(l)
  BY SMT, <1>4, <1>6, <1>8, <1>9
<1>12. LET m == SetPhysicalPort(l, p).locator
       IN  /\ IsLocator(m) /\ m = [l EXCEPT !.port = m.port]
           /\ LogicalPort(m) = LogicalPort(l) /\ PhysicalPort(m) = p
  BY SMT, <1>5, <1>6, <1>8, <1>9, <1>10
<1> QED
  BY <1>11, <1>12

(* The locator keeps its type: every octet its width, the port its 32 bits. *)
THEOREM LocatorTypeCorrect == Spec => []TypeOK
<1>1. Init => TypeOK
  <2> SUFFICES ASSUME Init PROVE TypeOK
    OBVIOUS
  <2>1. locator \in LocatorType /\ locator.port = 0
    BY ZeroIsAddress DEF Init, LocatorType
  <2> QED
    BY <2>1, SmallPort, PortsFit, IsLocatorIsType
<1>2. TypeOK /\ [Next]_locator => TypeOK'
  <2> SUFFICES ASSUME IsLocator(locator), [Next]_locator PROVE IsLocator(locator')
    <3>1. IsLocator(locator') <=> TypeOK'
      BY DEF IsLocator, TypeOK, LogicalPort
    <3> QED
      BY <3>1, IsLocatorIsType
  <2>0. locator \in LocatorType /\ Ports \subseteq Uint16 /\ Uint16 \subseteq Nat
    BY PortsFit DEF IsLocator
  <2>9. ASSUME locator' \in LocatorType, locator'.port = locator.port
        PROVE  IsLocator(locator')
    BY <2>9, SamePort
  <2>1. CASE Create
    <3>1. PICK kind \in Kinds \cap IPv4Kinds, t \in Texts, port \in Ports :
             locator' = CreateLocator(locator, kind, t, port)
      BY <2>1 DEF Create
    <3>2. locator' \in LocatorType /\ locator'.port = port /\ port \in Uint16
      BY <2>0, <3>1, CreateMakes
    <3> QED
      BY <3>2, SmallPort
  <2>2. CASE SetAddress
    <3>1. ASSUME NEW t \in Texts,
                 \/ Assign(SetIPv4(locator, t)) \/ Assign(SetWan(locator, t))
                 \/ Assign(SetLanID(locator, t))
          PROVE  IsLocator(locator')
      BY <2>0, <2>9, <3>1, SettersKeepType DEF Assign, OthersKept
    <3>2. ASSUME NEW octets \in OctetLists,
                 \/ Assign(SetIPv4Octets(locator, octets))
                 \/ Assign(SetWanOctets(locator, octets))
          PROVE  IsLocator(locator')
      BY <2>0, <2>9, <3>2, SettersKeepType DEF Assign, OthersKept
    <3>3. ASSUME NEW lan \in Texts, NEW wan \in Texts, NEW ipv4 \in Texts,
                 Assign(SetIPv4address(locator, lan, wan, ipv4))
          PROVE  IsLocator(locator')
      BY <2>0, <2>9, <3>3, AllPartsKeepRest DEF Assign
    <3>4. CASE Assign(SetInvalidAddress(locator))
      <4>1. locator' = [locator EXCEPT !.address = ZeroAddress]
        BY <3>4 DEF Assign, SetInvalidAddress, Result
      <4> QED
        BY <2>0, <2>9, <4>1, ZeroIsAddress DEF LocatorType
    <3>5. ASSUME NEW kind \in Kinds \cap IPv4Kinds, NEW t \in Texts,
                 Assign(SetAddressOf(locator, CreateLocator(locator, kind, t, 0)))
          PROVE  IsLocator(locator')
      <4> DEFINE m == CreateLocator(locator, kind, t, 0)
      <4>1. m \in LocatorType
        BY <2>0, CreateMakes
      <4>2. locator' = [locator EXCEPT !.address = m.address]
        BY <3>5 DEF Assign, SetAddressOf, Result
      <4> HIDE DEF m
      <4> QED
        BY <2>0, <2>9, <4>1, <4>2 DEF LocatorType
    <3> QED
      BY <2>2, <3>1, <3>2, <3>3, <3>4, <3>5 DEF SetAddress
  <2>3. CASE SetPort
    <3>1. PICK p \in Ports : \/ Assign(SetLogicalPort(locator, p))
                             \/ Assign(SetPhysicalPort(locator, p))
                             \/ Assign(SetPortTRANSPORT(locator, p))
      BY <2>3 DEF SetPort
    <3>2. /\ IsLocator(SetLogicalPort(locator, p).locator)
          /\ IsLocator(SetPhysicalPort(locator, p).locator)
      BY <2>0, PortSetters
    <3>3. \/ SetPortTRANSPORT(locator, p) = SetPhysicalPort(locator, p)
          \/ SetPortTRANSPORT(locator, p) = SetLogicalPort(locator, p)
          \/ SetPortTRANSPORT(locator, p).locator = locator
      BY DEF SetPortTRANSPORT, Result
    <3>4. IsLocator(locator')
      BY <3>1, <3>2, <3>3 DEF Assign
    <3> QED
      BY <3>4
  <2>4. CASE SetKind
    <3>1. PICK kind \in Kinds : locator' = [locator EXCEPT !.kind = kind]
      BY <2>4 DEF SetKind
    <3> QED
      BY <2>0, <2>9, <3>1 DEF LocatorType
  <2>5. CASE UNCHANGED locator
    BY <2>0, <2>9, <2>5
  <2> QED
    BY <2>1, <2>2, <2>3, <2>4, <2>5 DEF Next
<1> QED
  BY <1>1, <1>2, PTL DEF Spec

-----------------------------------------------------------------------------
(* A call for one part of the address leaves the others as they are, also   *)
(* when its text is refused.                                                *)
THEOREM PartsStayApart == Spec => []PartsKeepApart
<1>1. TypeOK => PartsKeepApart
  <2>1. TypeOK => locator \in LocatorType
    BY SMT DEF TypeOK
  <2> QED
    BY <2>1, SettersKeepType DEF PartsKeepApart
<1> QED
  BY <1>1, LocatorTypeCorrect, PTL

(* The port set for a transport is the one it reads, and the other half     *)
(* stays as it is.                                                          *)
THEOREM PortHalvesStayApart == Spec => []PortHalvesApart
<1>1. TypeOK => PortHalvesApart
  <2> SUFFICES ASSUME TypeOK PROVE PortHalvesApart
    OBVIOUS
  <2>0. /\ IsLocator(locator) /\ locator \in LocatorType
        /\ Ports \subseteq Uint16 /\ 0 \in Uint16
    BY IsLocatorIsType, PortsFit DEF IsLocator
  <2>1. ASSUME NEW p \in Uint16
        PROVE  CompareAddressAndPhysicalPort(locator, SetLogicalPort(locator, p).locator)
    <3> DEFINE m == SetLogicalPort(locator, p).locator
    <3>1. m = [locator EXCEPT !.port = m.port] /\ PhysicalPort(m) = PhysicalPort(locator)
      BY <2>0, PortSetters
    <3> HIDE DEF m
    <3>2. m.kind = locator.kind /\ m.address = locator.address
      BY <2>0, <3>1 DEF LocatorType
    <3> QED
      BY <3>1, <3>2 DEF CompareAddressAndPhysicalPort, CompareAddress, m
  <2>2. ASSUME NEW p \in Ports, locator.kind \in UDPKinds
        PROVE  LET l == SetPortTRANSPORT(locator, p).locator IN
               PortTRANSPORT(l) = p /\ LogicalPort(l) = LogicalPort(locator)
    <3> DEFINE m == SetPhysicalPort(locator, p).locator
    <3>1. /\ m = [locator EXCEPT !.port = m.port]
          /\ LogicalPort(m) = LogicalPort(locator) /\ PhysicalPort(m) = p
      BY <2>0, PortSetters
    <3>0. locator.kind \notin TCPKinds
      BY <2>2 DEF UDPKinds, TCPKinds, UDPv4, UDPv6, TCPv4, TCPv6
    <3>2. SetPortTRANSPORT(locator, p).locator = m
      BY <2>2, <3>0 DEF SetPortTRANSPORT
    <3> HIDE DEF m
    <3>3. m.kind = locator.kind
      BY <2>0, <3>1 DEF LocatorType
    <3> QED
      BY <2>2, <3>0, <3>1, <3>2, <3>3 DEF PortTRANSPORT
  <2>3. ASSUME NEW p \in Ports, locator.kind \in TCPKinds
        PROVE  LET l == SetPortTRANSPORT(locator, p).locator IN
               PortTRANSPORT(l) = p /\ PhysicalPort(l) = PhysicalPort(locator)
    <3> DEFINE m == SetLogicalPort(locator, p).locator
    <3>1. /\ m = [locator EXCEPT !.port = m.port]
          /\ LogicalPort(m) = p /\ PhysicalPort(m) = PhysicalPort(locator)
      BY <2>0, PortSetters
    <3>0. locator.kind \notin UDPKinds
      BY <2>3 DEF UDPKinds, TCPKinds, UDPv4, UDPv6, TCPv4, TCPv6
    <3>2. SetPortTRANSPORT(locator, p).locator = m
      BY <2>3, <3>0 DEF SetPortTRANSPORT
    <3> HIDE DEF m
    <3>3. m.kind = locator.kind
      BY <2>0, <3>1 DEF LocatorType
    <3> QED
      BY <2>3, <3>0, <3>1, <3>2, <3>3 DEF PortTRANSPORT
  <2>4. CompareAddressAndPhysicalPort(locator, ToPhysicalLocator(locator))
    BY <2>0, <2>1 DEF ToPhysicalLocator
  <2> QED
    BY <2>0, <2>1, <2>2, <2>3, <2>4 DEF PortHalvesApart
<1> QED
  BY <1>1, LocatorTypeCorrect, PTL

(* setIPv4address leaves no mixture of old and new octets.                  *)
THEOREM AllPartsAreSet == Spec => []AllPartsOrNone
<1>1. TypeOK => AllPartsOrNone
  <2> SUFFICES ASSUME locator \in LocatorType, NEW lan \in Texts, NEW wan \in Texts, NEW ipv4 \in Texts
               PROVE  LET result == SetIPv4address(locator, lan, wan, ipv4)
                          l == result.locator
                      IN  IF result.ok
                            THEN /\ Part(l, LAN) = Part(SetLanID(locator, lan).locator, LAN)
                                 /\ Part(l, WAN) = Part(SetWan(locator, wan).locator, WAN)
                                 /\ Part(l, IPv4) = Part(SetIPv4(locator, ipv4).locator, IPv4)
                            ELSE l.address = ZeroAddress
    BY DEF AllPartsOrNone, TypeOK
  <2> DEFINE a == SetLanID(locator, lan).locator
             b == SetWan(a, wan).locator
             c == SetIPv4(b, ipv4).locator
             ok == /\ SetLanID(locator, lan).ok
                   /\ SetWan(a, wan).ok
                   /\ SetIPv4(b, ipv4).ok
             result == SetIPv4address(locator, lan, wan, ipv4)
  <2>0. IPv4 \in Parts /\ WAN \in Parts /\ LAN \in Parts
        /\ IPv4 # WAN /\ IPv4 # LAN /\ WAN # LAN
    BY DEF Parts, IPv4, WAN, LAN
  <2>1. CASE ~ok
    <3>1. result.locator = [locator EXCEPT !.address = ZeroAddress] /\ result.ok = FALSE
      BY <2>1 DEF SetIPv4address, Result
    <3> HIDE DEF result
    <3> QED
      BY <3>1 DEF LocatorType, result
  <2>2. CASE ok
    <3>1. result.locator = c /\ result.ok
      BY <2>2 DEF SetIPv4address
    <3>2. a \in LocatorType /\ a.kind = locator.kind
      BY SettersKeepType DEF OthersKept
    <3>3. b \in LocatorType /\ b.kind = locator.kind /\ OthersKept(a, WAN, SetWan(a, wan))
      <4> HIDE DEF a
      <4> QED
        BY <3>2, SettersKeepType DEF OthersKept
    <3>4. OthersKept(b, IPv4, SetIPv4(b, ipv4))
      <4> HIDE DEF b
      <4> QED
        BY <3>3, SettersKeepType
    <3>5. Part(c, LAN) = Part(a, LAN) /\ Part(c, WAN) = Part(b, WAN)
      <4> HIDE DEF a
      <4>1. Part(b, LAN) = Part(a, LAN)
        BY <2>0, <3>3 DEF OthersKept
      <4> HIDE DEF b
      <4>2. Part(c, LAN) = Part(b, LAN) /\ Part(c, WAN) = Part(b, WAN)
        BY <2>0, <3>4 DEF OthersKept
      <4> QED
        BY <4>1, <4>2
    <3>6. Part(b, WAN) = Part(SetWan(locator, wan).locator, WAN)
      <4>1. Len(wan.numbers) >= 4
        BY <2>2 DEF SetWan, Result
      <4>2. Fills(wan.numbers, WAN)
        BY <4>1, TextsFill
      <4>3. \A l : SetWan(l, wan).locator = Put(l, WAN, wan.numbers)
        BY <4>1 DEF SetWan, SetWanOctets, Result
      <4>4. \A l \in LocatorType : Part(Put(l, WAN, wan.numbers), WAN) = Cut(wan.numbers, WAN)
        BY <2>0, <4>2, PutPart
      <4> HIDE DEF a
      <4> QED
        BY <3>2, <4>3, <4>4
    <3>7. Part(c, IPv4) = Part(SetIPv4(locator, ipv4).locator, IPv4)
      <4> HIDE DEF b
      <4>1. Len(ipv4.numbers) >= 4 /\ b.kind \in IPv4Kinds /\ \A i \in 1..4 : ipv4.numbers[i] <= 255
        BY <2>2 DEF SetIPv4, Result
      <4>2. Fills(ipv4.numbers, IPv4)
        BY <4>1, TextsFill
      <4>3. \A l : l.kind \in IPv4Kinds => SetIPv4(l, ipv4).locator = Put(l, IPv4, ipv4.numbers)
        BY <4>1 DEF SetIPv4, Result
      <4>4. \A l \in LocatorType : Part(Put(l, IPv4, ipv4.numbers), IPv4) = Cut(ipv4.numbers, IPv4)
        BY <2>0, <4>2, PutPart
      <4> QED
        BY <3>3, <4>1, <4>3, <4>4
    <3> HIDE DEF a, b, c, ok, result
    <3> QED
      BY <3>1, <3>5, <3>6, <3>7 DEF a, result
  <2> QED
    BY <2>1, <2>2
<1> QED
  BY <1>1, LocatorTypeCorrect, PTL

(* What createLocator makes of a text does not depend on what the locator   *)
(* was before.                                                              *)
THEOREM CreatedAlike == Spec => []CreatedFromTextAlone
<1>1. TypeOK => CreatedFromTextAlone
  <2> SUFFICES ASSUME locator \in LocatorType,
                      NEW kind \in Kinds \cap IPv4Kinds, NEW t \in Texts, NEW port \in Ports
               PROVE  LET l == CreateLocator(locator, kind, t, port) IN
                      /\ l.kind = kind /\ l.port = port
                      /\ Part(l, LAN) = [i \in 1..8 |-> 0] /\ Part(l, WAN) = [i \in 1..4 |-> 0]
                      /\ \/ Len(t.numbers) >= 4 /\ Part(l, IPv4) = [i \in 1..4 |-> t.numbers[i]]
                         \/ IsAny(l) /\ (Len(t.numbers) < 4 \/ \E i \in 1..4 : t.numbers[i] > 255)
    BY DEF CreatedFromTextAlone, TypeOK
  <2> DEFINE fresh == [locator EXCEPT !.kind = kind, !.port = port, !.address = ZeroAddress]
             l == SetIPv4(fresh, t).locator
  <2>0. port \in Nat /\ t.numbers \in Seq(Nat)
    BY PortsFit, InputsAssumption
  <2>1. /\ fresh \in LocatorType /\ fresh.port = port /\ fresh.kind = kind
        /\ fresh.address = ZeroAddress
    BY <2>0, ZeroIsAddress DEF LocatorType
  <2>2. CreateLocator(locator, kind, t, port) = l
    BY DEF CreateLocator
  <2> HIDE DEF fresh
  <2>3. OthersKept(fresh, IPv4, SetIPv4(fresh, t))
    BY <2>1, SettersKeepType
  <2>4. Part(fresh, LAN) = [i \in 1..8 |-> 0] /\ Part(fresh, WAN) = [i \in 1..4 |-> 0]
    BY <2>1 DEF Part, LAN, WAN, ZeroAddress
  <2>5. /\ l.kind = kind /\ l.port = port
        /\ Part(l, LAN) = [i \in 1..8 |-> 0] /\ Part(l, WAN) = [i \in 1..4 |-> 0]
    <3>1. LAN # IPv4 /\ WAN # IPv4
      BY DEF LAN, WAN, IPv4
    <3> HIDE DEF l
    <3>2. SetIPv4(fresh, t).locator = l
      BY DEF l
    <3> QED
      BY <2>1, <2>3, <2>4, <3>1, <3>2 DEF OthersKept
  <2>6. CASE Len(t.numbers) >= 4 /\ \A i \in 1..4 : t.numbers[i] <= 255
    <3>1. l = Put(fresh, IPv4, t.numbers)
      BY <2>1, <2>6 DEF SetIPv4, Result
    <3>2. Fills(t.numbers, IPv4) /\ IPv4 \in Parts
      BY <2>6, TextsFill DEF Parts
    <3>3. Part(l, IPv4) = Cut(t.numbers, IPv4)
      BY <2>1, <3>1, <3>2, PutPart
    <3>4. ASSUME NEW i \in 1..4 PROVE t.numbers[i] % 256 = t.numbers[i]
      <4>1. t.numbers[i] \in Nat
        BY <3>2, Zenon DEF Fills, IPv4
      <4>2. t.numbers[i] <= 255
        BY <2>6, Zenon
      <4> QED
        BY <4>1, <4>2
    <3>5. Cut(t.numbers, IPv4) = [i \in 1..4 |-> t.numbers[i]]
      <4>1. Cut(t.numbers, IPv4) = [i \in 1..4 |-> t.numbers[i] % 256]
        BY DEF Cut, IPv4
      <4> QED
        BY <3>4, <4>1, ZenonT(30)
    <3> HIDE DEF l
    <3> QED
      BY <2>2, <2>5, <2>6, <3>3, <3>5
  <2>7. CASE ~(Len(t.numbers) >= 4 /\ \A i \in 1..4 : t.numbers[i] <= 255)
    <3>1. l = fresh
      BY <2>1, <2>7 DEF SetIPv4, Result
    <3>2. IsAny(l)
      BY <2>1, <3>1 DEF IsAny, Significant, ZeroAddress
    <3>3. Len(t.numbers) < 4 \/ \E i \in 1..4 : t.numbers[i] > 255
      BY <2>0, <2>7, SMTT(30)
    <3> HIDE DEF l
    <3> QED
      BY <2>2, <2>5, <3>2, <3>3
  <2> QED
    BY <2>6, <2>7
<1> QED
  BY <1>1, LocatorTypeCorrect, PTL

(* The questions about an address read its significant octets.              *)
LEMMA PartIPv4 ==
    ASSUME NEW l \in LocatorType, NEW m \in LocatorType
    PROVE  Part(l, IPv4) = Part(m, IPv4) <=> \A i \in 12..15 : l.address[i] = m.address[i]
<1>1. \A k \in LocatorType : Part(k, IPv4) = [i \in 1..4 |-> k.address[i + 11]]
  <2>1. \A i \in 1..4 : 12 + i - 1 = i + 11
    OBVIOUS
  <2> QED
    BY <2>1 DEF Part, IPv4
<1>2. [i \in 1..4 |-> l.address[i + 11]] = [i \in 1..4 |-> m.address[i + 11]]
        <=> \A i \in 1..4 : l.address[i + 11] = m.address[i + 11]
  OBVIOUS
<1>3. (\A i \in 1..4 : l.address[i + 11] = m.address[i + 11])
        <=> \A i \in 12..15 : l.address[i] = m.address[i]
  <2>1. \A i \in 12..15 : i - 11 \in 1..4 /\ (i - 11) + 11 = i
    OBVIOUS
  <2>2. \A i \in 1..4 : i + 11 \in 12..15
    OBVIOUS
  <2> QED
    BY <2>1, <2>2
<1> QED
  BY <1>1, <1>2, <1>3

LEMMA AnyIsEmpty ==
    ASSUME NEW l \in LocatorType
    PROVE  IsAny(l) <=> IsEmpty(l)
<1> DEFINE z == [l EXCEPT !.address = ZeroAddress]
<1>1. z \in LocatorType /\ \A i \in 0..15 : z.address[i] = 0
  BY ZeroIsAddress DEF LocatorType, ZeroAddress
<1>2. Part(z, IPv4) = [i \in 1..4 |-> 0]
  BY <1>1 DEF Part, IPv4
<1>3. l.address = ZeroAddress <=> \A i \in 0..15 : l.address[i] = 0
  BY DEF LocatorType, ZeroAddress
<1> HIDE DEF z
<1>4. CASE l.kind \in IPv4Kinds
  <2>1. Part(l, IPv4) = Part(z, IPv4) <=> \A i \in 12..15 : l.address[i] = z.address[i]
    BY <1>1, PartIPv4
  <2>2. \A i \in 12..15 : z.address[i] = 0
    BY <1>1
  <2>3. IsAny(l) <=> \A i \in 12..15 : l.address[i] = 0
    BY <1>4 DEF IsAny, Significant
  <2>4. IsEmpty(l) <=> Part(l, IPv4) = Part(z, IPv4)
    BY <1>2, <1>4 DEF IsEmpty
  <2> QED
    BY <2>1, <2>2, <2>3, <2>4
<1>5. CASE l.kind \notin IPv4Kinds
  BY <1>3, <1>5 DEF IsAny, IsEmpty, Significant
<1> QED
  BY <1>4, <1>5

LEMMA ComparedAlike ==
    ASSUME NEW l \in LocatorType, NEW m \in LocatorType, CompareAddress(l, m, FALSE)
    PROVE  /\ IsAny(m) <=> IsAny(l)
           /\ IsLocal(m) <=> IsLocal(l)
           /\ HasIPv4(m) <=> HasIPv4(l)
<1>1. l.kind = m.kind /\ Significant(l) = Significant(m)
  BY DEF CompareAddress, Significant
<1>2. \A i \in Significant(l) : l.address[i] = m.address[i]
  <2>1. CASE l.kind \in IPv4Kinds
    BY <2>1, PartIPv4 DEF CompareAddress, Significant
  <2>2. CASE l.kind \notin IPv4Kinds
    BY <2>2 DEF CompareAddress
  <2> QED
    BY <2>1, <2>2
<1>3. IsAny(m) <=> IsAny(l)
  BY <1>1, <1>2 DEF IsAny
<1>4. IsLocal(m) <=> IsLocal(l)
  BY <1>1, <1>2 DEF IsLocal
<1>5. HasIPv4(m) <=> HasIPv4(l)
  BY <1>1, <1>3, AnyIsEmpty DEF HasIPv4
<1> QED
  BY <1>3, <1>4, <1>5

(* What compareAddress takes for one address gets one answer from every     *)
(* question.                                                                *)
THEOREM AnswersAlwaysAgree == Spec => []AnswersAgree
<1>1. TypeOK => AnswersAgree
  <2> SUFFICES ASSUME locator \in LocatorType PROVE AnswersAgree
    BY DEF TypeOK
  <2>1. IsAny(locator) <=> IsEmpty(locator)
    BY AnyIsEmpty
  <2>2. IsLocal(locator) => ~IsAny(locator)
    <3>1. 15 \in Significant(locator)
      BY DEF Significant
    <3>2. IsLocal(locator) => locator.address[15] = 1
      BY <3>1 DEF IsLocal
    <3>3. IsAny(locator) => locator.address[15] = 0
      BY <3>1 DEF IsAny
    <3> QED
      BY <3>2, <3>3
  <2>3. ASSUME NEW t \in Texts,
               NEW set \in {SetIPv4(locator, t), SetWan(locator, t), SetLanID(locator, t)}
        PROVE  LET m == set.locator IN
               CompareAddress(locator, m, FALSE) =>
                   /\ IsAny(m) <=> IsAny(locator)
                   /\ IsLocal(m) <=> IsLocal(locator)
                   /\ HasIPv4(m) <=> HasIPv4(locator)
    <3>1. set.locator \in LocatorType
      BY SettersKeepType
    <3> QED
      BY <3>1, ComparedAlike
  <2>4. ASSUME NEW octets \in OctetLists, locator.kind = TCPv4
        PROVE  LET m == SetWanOctets(SetIPv4Octets(locator, octets).locator, octets).locator
               IN  IpEqualsWan(m) <=> HasIPv4(m)
    <3> DEFINE a == SetIPv4Octets(locator, octets).locator
               m == SetWanOctets(a, octets).locator
    <3>0. /\ IPv4 \in Parts /\ WAN \in Parts /\ IPv4 # WAN
          /\ Fills(octets, IPv4) /\ Fills(octets, WAN)
      BY OctetsFill DEF Parts, IPv4, WAN
    <3>1. a = Put(locator, IPv4, octets) /\ a \in LocatorType /\ a.kind = TCPv4
      <4>1. a = Put(locator, IPv4, octets)
        BY <2>4 DEF SetIPv4Octets, Result, IPv4Kinds
      <4> HIDE DEF a
      <4> QED
        BY <2>4, <3>0, <4>1, PutWrites
    <3>2. m = Put(a, WAN, octets)
      BY DEF SetWanOctets, Result
    <3>3. Part(a, IPv4) = Cut(octets, IPv4)
      BY <3>0, <3>1, PutPart
    <3> HIDE DEF a, m
    <3>4. m \in LocatorType /\ m.kind = TCPv4
      BY <3>0, <3>1, <3>2, PutWrites
    <3>5. Part(m, WAN) = Cut(octets, WAN)
      BY <3>0, <3>1, <3>2, PutPart
    <3>6. Part(m, IPv4) = Part(a, IPv4)
      BY <3>0, <3>1, <3>2, PutPart
    <3>7. Cut(octets, WAN) = Cut(octets, IPv4)
      BY DEF Cut, WAN, IPv4
    <3>8. Part(m, WAN) = Part(m, IPv4)
      BY <3>3, <3>5, <3>6, <3>7
    <3>9. IpEqualsWan(m) <=> HasIPv4(m)
      BY <3>4, <3>8 DEF IpEqualsWan, HasWan, HasIPv4, IsEmpty, IPv4Kinds
    <3> QED
      BY <3>9 DEF a, m
  <2> QED
    BY <2>1, <2>2, <2>3, <2>4 DEF AnswersAgree
<1> QED
  BY <1>1, LocatorTypeCorrect, PTL

-----------------------------------------------------------------------------
(* A part of a locator as numbers: what is printed is read again.           *)
LEMMA PrintedFills ==
    ASSUME NEW l \in LocatorType, NEW p \in Parts
    PROVE  /\ Part(l, p) \in Seq(Nat) /\ Len(Part(l, p)) = p.size
           /\ \A i \in 1..p.size : /\ Part(l, p)[i] = l.address[p.at + i - 1]
                                   /\ Part(l, p)[i] \in 0..255
           /\ Fills(Part(l, p), p) /\ Cut(Part(l, p), p) = Part(l, p)
<1>1. ASSUME NEW i \in 1..p.size
      PROVE  Part(l, p)[i] = l.address[p.at + i - 1] /\ Part(l, p)[i] \in 0..255
  <2>1. p.at + i - 1 \in 0..15
    BY PartsOfAddress
  <2>2. \A j \in 0..15 : l.address[j] \in 0..255
    BY DEF LocatorType
  <2>3. Part(l, p)[i] = l.address[p.at + i - 1]
    BY DEF Part
  <2> QED
    BY <2>1, <2>2, <2>3
<1>2. \A n \in 0..255 : n \in Nat /\ n % 256 = n
  <2> TAKE n \in 0..255
  <2>1. n \in Nat /\ n < 256
    OBVIOUS
  <2> QED
    BY <2>1, SMT
<1>3. Part(l, p) = [i \in 1..p.size |-> Part(l, p)[i]]
  BY DEF Part
<1>4. Part(l, p) \in [1..p.size -> Nat]
  BY <1>1, <1>2, <1>3
<1>5. p.size \in Nat
  BY PartsOfAddress
<1>6. Part(l, p) \in Seq(Nat) /\ Len(Part(l, p)) = p.size
  BY <1>4, <1>5, FunctionIsSeq
<1>7. Fills(Part(l, p), p)
  BY <1>1, <1>2 DEF Fills
<1>8. Cut(Part(l, p), p) = Part(l, p)
  BY <1>1, <1>2, <1>3 DEF Cut
<1> QED
  BY <1>1, <1>6, <1>7, <1>8

(* The octets of a part of l, written over that of m.                       *)
Copies(c, l, m, p) == c = Put(m, p, Part(l, p))

LEMMA PutPrinted ==
    ASSUME NEW l \in LocatorType, NEW m \in LocatorType, NEW p \in Parts,
           NEW c, Copies(c, l, m, p)
    PROVE  /\ c \in LocatorType /\ c.kind = m.kind /\ c.port = m.port
           /\ Part(c, p) = Part(l, p)
           /\ \A q \in Parts \ {p} : Part(c, q) = Part(m, q)
<1> DEFINE numbers == Part(l, p)
<1>1. Fills(numbers, p) /\ Cut(numbers, p) = numbers
  BY PrintedFills
<1> HIDE DEF numbers
<1>2. c = Put(m, p, numbers)
  BY DEF numbers, Copies
<1>3. c \in LocatorType /\ c.kind = m.kind /\ c.port = m.port
  BY <1>1, <1>2, PutWrites
<1>4. Part(c, p) = Cut(numbers, p)
  BY <1>1, <1>2, PutPart
<1>5. \A q \in Parts \ {p} : Part(c, q) = Part(m, q)
  BY <1>1, <1>2, PutPart
<1> QED
  BY <1>1, <1>3, <1>4, <1>5 DEF numbers

(* Two locators with equal parts, kind and port are equal.                  *)
LEMMA PartsAreAll ==
    ASSUME NEW l \in LocatorType, NEW m \in LocatorType,
           l.kind = m.kind, l.port = m.port, \A p \in Parts : Part(l, p) = Part(m, p)
    PROVE  l = m
<1>1. ASSUME NEW p \in Parts, NEW i \in 1..p.size
      PROVE  l.address[p.at + i - 1] = m.address[p.at + i - 1]
  <2>1. Part(l, p)[i] = Part(m, p)[i]
    OBVIOUS
  <2> QED
    BY <2>1, PrintedFills
<1>2. ASSUME NEW j \in 0..15
      PROVE  l.address[j] = m.address[j]
  <2>1. PICK p \in Parts : j \in p.at..p.at + p.size - 1
    BY DEF Parts, LAN, WAN, IPv4
  <2>2. (j - p.at) + 1 \in 1..p.size /\ p.at + ((j - p.at) + 1) - 1 = j
    BY <2>1, PartsOfAddress
  <2> QED
    BY <1>1, <2>2
<1>3. l.address = m.address
  <2> DEFINE I == 0..15
             O == 0..255
  <2>1. /\ l.address \in [I -> O] /\ m.address \in [I -> O]
    BY DEF LocatorType
  <2>2. \A j \in I : l.address[j] = m.address[j]
    BY <1>2
  <2> HIDE DEF I, O
  <2> QED
    BY <2>1, <2>2, SameFunction
<1> QED
  BY <1>3 DEF LocatorType

(* The texts a TCPv4 locator's parts are printed as build it again.         *)
THEOREM PrintedBuildsAgain == Spec => []PrintedPartsRebuild
<1>1. TypeOK => PrintedPartsRebuild
  <2> SUFFICES ASSUME locator \in LocatorType, locator.kind = TCPv4
               PROVE  SetIPv4address([locator EXCEPT !.address = ZeroAddress],
                          Printed(locator, LAN), Printed(locator, WAN), Printed(locator, IPv4))
                      = Result(locator, TRUE)
    BY DEF PrintedPartsRebuild, TypeOK
  <2> DEFINE zero == [locator EXCEPT !.address = ZeroAddress]
             a == Put(zero, LAN, Part(locator, LAN))
             b == Put(a, WAN, Part(locator, WAN))
             c == Put(b, IPv4, Part(locator, IPv4))
  <2>0. /\ IPv4 \in Parts /\ WAN \in Parts /\ LAN \in Parts
        /\ IPv4 # WAN /\ IPv4 # LAN /\ WAN # LAN
        /\ LAN.size = 8 /\ WAN.size = 4 /\ IPv4.size = 4
    BY DEF Parts, IPv4, WAN, LAN
  <2>1. zero \in LocatorType /\ zero.kind = TCPv4 /\ zero.port = locator.port
    BY ZeroIsAddress DEF LocatorType
  <2> HIDE DEF zero, a, b, c
  <2>2. /\ a \in LocatorType /\ a.kind = zero.kind /\ a.port = zero.port
        /\ Part(a, LAN) = Part(locator, LAN)
    <3>1. Copies(a, locator, zero, LAN)
      BY DEF a, Copies
    <3> QED
      BY <2>0, <2>1, <3>1, PutPrinted
  <2>3. /\ b \in LocatorType /\ b.kind = a.kind /\ b.port = a.port
        /\ Part(b, WAN) = Part(locator, WAN) /\ \A q \in Parts \ {WAN} : Part(b, q) = Part(a, q)
    <3>1. Copies(b, locator, a, WAN)
      BY DEF b, Copies
    <3> QED
      BY <2>0, <2>2, <3>1, PutPrinted
  <2>4. /\ c \in LocatorType /\ c.kind = b.kind /\ c.port = b.port
        /\ Part(c, IPv4) = Part(locator, IPv4) /\ \A q \in Parts \ {IPv4} : Part(c, q) = Part(b, q)
    <3>1. Copies(c, locator, b, IPv4)
      BY DEF c, Copies
    <3> QED
      BY <2>0, <2>3, <3>1, PutPrinted
  <2>10. c = locator
    <3>1. Part(c, WAN) = Part(locator, WAN)
      BY <2>0, <2>3, <2>4
    <3>2. Part(c, LAN) = Part(locator, LAN)
      BY <2>0, <2>2, <2>3, <2>4
    <3>3. \A p \in Parts : Part(c, p) = Part(locator, p)
      BY <2>4, <3>1, <3>2 DEF Parts
    <3>4. c.kind = locator.kind /\ c.port = locator.port
      BY <2>1, <2>2, <2>3, <2>4
    <3> QED
      BY <2>4, <3>3, <3>4, PartsAreAll
  <2>11. SetLanID(zero, Printed(locator, LAN)) = Result(a, TRUE)
    <3>1. Len(Part(locator, LAN)) = 8
      BY <2>0, PrintedFills
    <3> DEFINE t == Printed(locator, LAN)
    <3>2. t.numbers = Part(locator, LAN)
      BY DEF Printed
    <3> HIDE DEF t
    <3>3. Len(t.numbers) >= 8
      <4>1. 8 >= 8
        OBVIOUS
      <4>2. Len(t.numbers) = 8
        BY <3>1, <3>2, Zenon
      <4> QED
        BY <4>1, <4>2, Zenon
    <3>4. SetLanID(zero, t) = Result(Put(zero, LAN, t.numbers), TRUE)
      BY <2>1, <3>3, Zenon DEF SetLanID
    <3> QED
      BY <3>2, <3>4 DEF a, t
  <2>12. SetWan(a, Printed(locator, WAN)) = Result(b, TRUE)
    <3>1. Len(Part(locator, WAN)) = 4
      BY <2>0, PrintedFills
    <3> DEFINE t == Printed(locator, WAN)
    <3>2. t.numbers = Part(locator, WAN)
      BY DEF Printed
    <3> HIDE DEF t
    <3>3. Len(t.numbers) >= 4
      BY <3>1, <3>2, SMTT(30)
    <3>4. SetWan(a, t) = Result(Put(a, WAN, t.numbers), TRUE)
      BY <3>3, Zenon DEF SetWan, SetWanOctets
    <3> QED
      BY <3>2, <3>4 DEF b, t
  <2>13. SetIPv4(b, Printed(locator, IPv4)) = Result(c, TRUE)
    <3> DEFINE t == Printed(locator, IPv4)
    <3>1. Len(Part(locator, IPv4)) = 4
      BY <2>0, PrintedFills
    <3>2. \A i \in 1..4 : Part(locator, IPv4)[i] <= 255
      <4>1. \A i \in 1..IPv4.size : Part(locator, IPv4)[i] \in 0..255
        BY <2>0, PrintedFills
      <4>2. \A n \in 0..255 : n <= 255
        BY SMT
      <4> QED
        BY <2>0, <4>1, <4>2
    <3>3. t.numbers = Part(locator, IPv4) /\ t.rest = FALSE
      BY DEF Printed
    <3> HIDE DEF t
    <3>4. b.kind \in IPv4Kinds
      BY <2>1, <2>2, <2>3 DEF IPv4Kinds
    <3>5. (Len(t.numbers) = 4 /\ ~t.rest) = TRUE
      BY <3>1, <3>3
    <3>6. SetIPv4(b, t) = Result(Put(b, IPv4, t.numbers), Len(t.numbers) = 4 /\ ~t.rest)
      <4>1. Len(t.numbers) >= 4
        <5>1. 4 >= 4
          OBVIOUS
        <5> QED
          BY <3>1, <3>3, <5>1, Zenon
      <4>2. \A i \in 1..4 : t.numbers[i] <= 255
        BY <3>2, <3>3, Zenon
      <4> QED
        BY <3>4, <4>1, <4>2, Zenon DEF SetIPv4
    <3>7. SetIPv4(b, t) = Result(Put(b, IPv4, t.numbers), TRUE)
      BY <3>5, <3>6, Zenon
    <3> QED
      BY <3>3, <3>7 DEF c, t
  <2>14. SetIPv4address(zero, Printed(locator, LAN), Printed(locator, WAN), Printed(locator, IPv4))
          = Result(c, TRUE)
    <3>1. \A l : Result(l, TRUE).locator = l /\ Result(l, TRUE).ok
      BY DEF Result
    <3> QED
      BY <2>11, <2>12, <2>13, <3>1, ZenonT(30) DEF SetIPv4address
  <2> QED
    BY <2>10, <2>14 DEF zero
<1> QED
  BY <1>1, LocatorTypeCorrect, PTL

-----------------------------------------------------------------------------
(***************************************************************************)
(* The order.  Equal memory means equal locators, and where two memories   *)
(* differ there is a first octet in which they do.                         *)
(***************************************************************************)
(* Less than the values of an octet apart. *)
Near(p, q) == -256 < p - q /\ p - q < 256

LEMMA OctetsOf ==
    ASSUME NEW n \in Int, NEW m \in Int, Octets(n) = Octets(m),
           Near(n \div 16777216, m \div 16777216)
    PROVE  n = m
<1>1. \A k \in Int : /\ k = (256 * (k \div 256)) + (k % 256)
                     /\ k \div 256 = (256 * (k \div 65536)) + ((k \div 256) % 256)
                     /\ k \div 65536 = (256 * (k \div 16777216)) + ((k \div 65536) % 256)
  BY SMT
<1>2. /\ n % 256 = m % 256
      /\ (n \div 256) % 256 = (m \div 256) % 256
      /\ (n \div 65536) % 256 = (m \div 65536) % 256
      /\ (n \div 16777216) % 256 = (m \div 16777216) % 256
  BY SMT DEF Octets
<1>3. n \div 16777216 = m \div 16777216
  <2> DEFINE p == n \div 16777216
             q == m \div 16777216
  <2>1. p \in Int /\ q \in Int
    BY SMT
  <2>2. p % 256 = q % 256 /\ -256 < p - q /\ p - q < 256
    BY SMT, <1>2 DEF Near
  <2> HIDE DEF p, q
  <2>3. p = q
    BY SMT, <2>1, <2>2
  <2> QED
    BY SMT, <2>3 DEF p, q
<1>4. n \div 65536 = m \div 65536
  BY SMT, <1>1, <1>2, <1>3
<1>5. n \div 256 = m \div 256
  BY SMT, <1>1, <1>2, <1>4
<1> QED
  BY SMT, <1>1, <1>2, <1>5

(* kind and port each fit their four octets.                                *)
LEMMA KindFits ==
    ASSUME NEW n \in Int32, NEW m \in Int32
    PROVE  n \in Int /\ m \in Int /\ Near(n \div 16777216, m \div 16777216)
<1>1. \A k \in Int32 : k \in Int /\ -128 <= k \div 16777216 /\ k \div 16777216 <= 127
  BY SMT DEF Int32
<1>2. \A p, q \in Int : -128 <= p /\ p <= 127 /\ -128 <= q /\ q <= 127 =>
                             -256 < p - q /\ p - q < 256
  BY SMT
<1>3. n \div 16777216 \in Int /\ m \div 16777216 \in Int
  BY SMT, <1>1
<1> QED
  BY SMT, <1>1, <1>2, <1>3 DEF Near

LEMMA PortFits ==
    ASSUME NEW n \in Nat, NEW m \in Nat, n \div 65536 \in Uint16, m \div 65536 \in Uint16
    PROVE  n \in Int /\ m \in Int /\ Near(n \div 16777216, m \div 16777216)
<1>1. \A k \in Nat : k \div 65536 \in Uint16 => 0 <= k \div 16777216 /\ k \div 16777216 <= 255
  BY SMT DEF Uint16
<1>2. \A p, q \in Int : 0 <= p /\ p <= 255 /\ 0 <= q /\ q <= 255 =>
                             -256 < p - q /\ p - q < 256
  BY SMT
<1>3. n \div 16777216 \in Int /\ m \div 16777216 \in Int
  BY SMT
<1> QED
  BY SMT, <1>1, <1>2, <1>3 DEF Near

IsOctets(o) == /\ o \in Seq(Int) /\ Len(o) = 4
               /\ o = <<o[1], o[2], o[3], o[4]>>

LEMMA OctetsAreOctets ==
    ASSUME NEW n \in Int
    PROVE  IsOctets(Octets(n))
<1>1. /\ n % 256 \in Int /\ (n \div 256) % 256 \in Int
      /\ (n \div 65536) % 256 \in Int /\ (n \div 16777216) % 256 \in Int
  BY SMT
<1> QED
  BY <1>1 DEF IsOctets, Octets

LEMMA Concatenated ==
    ASSUME NEW S, NEW a \in Seq(S), NEW b \in Seq(S)
    PROVE  a \o b \in Seq(S) /\ Len(a \o b) = Len(a) + Len(b)
OBVIOUS

(* Equal sequences have equal beginnings of one length, and equal rests.    *)
LEMMA EqualParts ==
    ASSUME NEW S, NEW a \in Seq(S), NEW b \in Seq(S), NEW c \in Seq(S), NEW d \in Seq(S),
           Len(a) = Len(c), a \o b = c \o d
    PROVE  a = c /\ b = d
<1>1. \A x, y \in Seq(S) : /\ Len(x \o y) = Len(x) + Len(y)
                           /\ \A i \in 1..Len(x) : (x \o y)[i] = x[i]
                           /\ \A i \in 1..Len(y) : (x \o y)[i + Len(x)] = y[i]
  OBVIOUS
<1>2. a = c
  <2>1. \A i \in 1..Len(a) : a[i] = c[i]
    BY <1>1
  <2> QED
    BY <2>1, Extensional
<1>3. b = d
  <2>1. Len(b) = Len(d)
    BY <1>1
  <2>2. \A i \in 1..Len(b) : b[i] = d[i]
    <3> TAKE i \in 1..Len(b)
    <3>1. (a \o b)[i + Len(a)] = b[i]
      BY <1>1
    <3>2. (c \o d)[i + Len(c)] = d[i]
      BY <1>1, <2>1
    <3> QED
      BY <3>1, <3>2
  <2> QED
    BY <2>1, <2>2, Extensional
<1> QED
  BY <1>2, <1>3

(* A locator's memory: the octets of its kind, of its port and its address. *)
AddressOctets(l) == [i \in 1..16 |-> l.address[i - 1]]

LEMMA MemoryOf ==
    ASSUME NEW l \in LocatorType
    PROVE  /\ l.kind \in Int32 /\ l.port \in Nat
           /\ Octets(l.kind) \in Seq(Int) /\ Len(Octets(l.kind)) = 4
           /\ Octets(l.port) \in Seq(Int) /\ Len(Octets(l.port)) = 4
           /\ AddressOctets(l) \in Seq(Int) /\ Len(AddressOctets(l)) = 16
           /\ Memory(l) = (Octets(l.kind) \o Octets(l.port)) \o AddressOctets(l)
<1>1. l.kind \in Int32 /\ l.kind \in Int /\ l.port \in Nat /\ l.port \in Int
  <2>1. UDPv4 \in Int32 /\ Kinds \subseteq Int32
    BY SMT, WidthsAssumption DEF UDPv4, Int32
  <2>2. l.kind \in Kinds \cup {UDPv4} /\ l.port \in Nat
    BY DEF LocatorType
  <2>3. \A n \in Int32 : n \in Int
    BY SMT DEF Int32
  <2> QED
    BY <2>1, <2>2, <2>3
<1>2. AddressOctets(l) \in Seq(Int) /\ Len(AddressOctets(l)) = 16
  <2>1. \A i \in 1..16 : i - 1 \in 0..15
    OBVIOUS
  <2>2. \A n \in 0..255 : n \in Int
    OBVIOUS
  <2>3. \A i \in 0..15 : l.address[i] \in Int
    BY <2>2 DEF LocatorType
  <2>4. AddressOctets(l) \in [1..16 -> Int]
    BY <2>1, <2>3 DEF AddressOctets
  <2> QED
    BY <2>4, FunctionIsSeq
<1>3. IsOctets(Octets(l.kind)) /\ IsOctets(Octets(l.port))
  BY <1>1, OctetsAreOctets
<1>4. Memory(l) = (Octets(l.kind) \o Octets(l.port)) \o AddressOctets(l)
  BY DEF Memory, AddressOctets
<1> QED
  BY <1>1, <1>2, <1>3, <1>4 DEF IsOctets

LEMMA MemoryLength ==
    ASSUME NEW l \in LocatorType
    PROVE  Memory(l) \in Seq(Int) /\ Len(Memory(l)) = 24
<1> DEFINE k == Octets(l.kind)
           p == Octets(l.port)
           a == AddressOctets(l)
<1>1. /\ k \in Seq(Int) /\ Len(k) = 4 /\ p \in Seq(Int) /\ Len(p) = 4
      /\ a \in Seq(Int) /\ Len(a) = 16
  BY MemoryOf
<1>2. Memory(l) = (k \o p) \o a
  BY MemoryOf
<1> HIDE DEF k, p, a
<1>3. k \o p \in Seq(Int) /\ Len(k \o p) = 4 + 4
  <2>1. k \o p \in Seq(Int)
    BY <1>1, Concatenated
  <2>2. Len(k \o p) = Len(k) + Len(p)
    BY <1>1, Concatenated
  <2> QED
    BY <1>1, <2>1, <2>2, Zenon
<1> DEFINE kp == k \o p
<1> HIDE DEF kp
<1>4. kp \in Seq(Int) /\ Len(kp) = 8 /\ Memory(l) = kp \o a
  BY <1>2, <1>3 DEF kp
<1>5. Memory(l) \in Seq(Int) /\ Len(Memory(l)) = 8 + 16
  <2>1. kp \o a \in Seq(Int)
    BY <1>1, <1>4, Concatenated
  <2>2. Len(kp \o a) = Len(kp) + Len(a)
    BY <1>1, <1>4, Concatenated
  <2> QED
    BY <1>1, <1>4, <2>1, <2>2, Zenon
<1> QED
  BY <1>5

LEMMA MemoryTells ==
    ASSUME NEW l, NEW m, IsLocator(l), IsLocator(m), Memory(l) = Memory(m)
    PROVE  l = m
<1>0. /\ l \in LocatorType /\ m \in LocatorType
      /\ LogicalPort(l) \in Uint16 /\ LogicalPort(m) \in Uint16
  BY DEF IsLocator
<1>1. /\ Octets(l.kind) \o Octets(l.port) = Octets(m.kind) \o Octets(m.port)
      /\ AddressOctets(l) = AddressOctets(m)
  <2>1. \A k \in LocatorType : /\ Octets(k.kind) \o Octets(k.port) \in Seq(Int)
                               /\ Len(Octets(k.kind) \o Octets(k.port)) = 8
    <3> SUFFICES ASSUME NEW k \in LocatorType
                 PROVE  /\ Octets(k.kind) \o Octets(k.port) \in Seq(Int)
                        /\ Len(Octets(k.kind) \o Octets(k.port)) = 8
      OBVIOUS
    <3> DEFINE x == Octets(k.kind)
               y == Octets(k.port)
    <3>1. x \in Seq(Int) /\ Len(x) = 4 /\ y \in Seq(Int) /\ Len(y) = 4
      BY MemoryOf
    <3> HIDE DEF x, y
    <3>2. x \o y \in Seq(Int) /\ Len(x \o y) = Len(x) + Len(y)
      BY <3>1, Concatenated
    <3> QED
      BY <3>1, <3>2 DEF x, y
  <2> DEFINE x == Octets(l.kind) \o Octets(l.port)
             y == Octets(m.kind) \o Octets(m.port)
             a == AddressOctets(l)
             b == AddressOctets(m)
  <2>2. x \in Seq(Int) /\ y \in Seq(Int) /\ Len(x) = Len(y)
    BY <1>0, <2>1
  <2>3. a \in Seq(Int) /\ b \in Seq(Int) /\ x \o a = y \o b
    BY <1>0, MemoryOf
  <2> HIDE DEF x, y, a, b
  <2>4. x = y /\ a = b
    BY <2>2, <2>3, EqualParts
  <2> QED
    BY <2>4 DEF x, y, a, b
<1>2. Octets(l.kind) = Octets(m.kind) /\ Octets(l.port) = Octets(m.port)
  <2> DEFINE x == Octets(l.kind)
             y == Octets(l.port)
             a == Octets(m.kind)
             b == Octets(m.port)
  <2>1. /\ x \in Seq(Int) /\ y \in Seq(Int) /\ a \in Seq(Int) /\ b \in Seq(Int)
        /\ Len(x) = 4 /\ Len(a) = 4
    BY <1>0, MemoryOf
  <2>2. x \o y = a \o b
    BY <1>1
  <2> HIDE DEF x, y, a, b
  <2>3. x = a /\ y = b
    BY <2>1, <2>2, EqualParts
  <2> QED
    BY <2>3 DEF x, y, a, b
<1>3. l.kind = m.kind
  <2>1. l.kind \in Int32 /\ m.kind \in Int32
    BY <1>0, MemoryOf
  <2> QED
    BY SMT, <1>2, <2>1, KindFits, OctetsOf
<1>4. l.port = m.port
  <2>1. l.port \in Nat /\ m.port \in Nat
    BY <1>0, MemoryOf
  <2>2. l.port \div 65536 \in Uint16 /\ m.port \div 65536 \in Uint16
    BY SMT, <1>0 DEF LogicalPort
  <2> QED
    BY SMTT(30), <1>2, <2>1, <2>2, PortFits, OctetsOf
<1>5. l.address = m.address
  <2>1. \A i \in 0..15 : i + 1 \in 1..16 /\ (i + 1) - 1 = i
    OBVIOUS
  <2>2. \A i \in 1..16 : l.address[i - 1] = m.address[i - 1]
    <3> TAKE i \in 1..16
    <3>1. AddressOctets(l)[i] = AddressOctets(m)[i]
      BY <1>1
    <3> QED
      BY <3>1, Zenon DEF AddressOctets
  <2>3. \A i \in 0..15 : l.address[i] = m.address[i]
    BY <2>1, <2>2
  <2> DEFINE I == 0..15
             O == 0..255
  <2>4. l.address \in [I -> O] /\ m.address \in [I -> O]
    BY <1>0 DEF LocatorType
  <2>5. \A i \in I : l.address[i] = m.address[i]
    BY <2>3
  <2> HIDE DEF I, O
  <2> QED
    BY <2>4, <2>5, SameFunction
<1> QED
  BY <1>0, <1>3, <1>4, <1>5 DEF LocatorType

(* i is the first index at which a and b differ.                            *)
Differ(a, b, i) == a[i] # b[i] /\ \A j \in 1..i - 1 : a[j] = b[j]

LEMMA FirstDifference ==
    ASSUME NEW n \in Nat, NEW a, NEW b, \A i \in 1..n : ~Differ(a, b, i)
    PROVE  \A i \in 1..n : a[i] = b[i]
<1> DEFINE S == {k \in 0..n : \A j \in 1..k : a[j] = b[j]}
<1>1. 0 \in S
  OBVIOUS
<1>2. ASSUME NEW m \in 1..n, m - 1 \in S
      PROVE  m \in S
  <2>1. \A j \in 1..m - 1 : a[j] = b[j]
    BY <1>2
  <2>2. a[m] = b[m]
    BY <2>1 DEF Differ
  <2>3. 1..m = (1..m - 1) \cup {m} /\ m \in 0..n
    OBVIOUS
  <2> QED
    BY <2>1, <2>2, <2>3
<1>3. n \in S
  <2> HIDE DEF S
  <2>1. 0..n \subseteq S
    BY <1>1, <1>2, IndexInduction
  <2> QED
    BY <2>1
<1> QED
  BY <1>3

LEMMA OneFirstDifference ==
    ASSUME NEW n \in Nat, NEW a, NEW b, NEW i \in 1..n, NEW j \in 1..n,
           Differ(a, b, i), Differ(a, b, j)
    PROVE  i = j
<1>1. i < j => i \in 1..j - 1
  OBVIOUS
<1>2. j < i => j \in 1..i - 1
  OBVIOUS
<1>3. ~(i < j) /\ ~(j < i)
  BY <1>1, <1>2 DEF Differ
<1> QED
  BY <1>3

(* operator< orders any two locators that operator== tells apart.           *)
LEMMA LessThanTells ==
    ASSUME NEW l, NEW m, IsLocator(l), IsLocator(m)
    PROVE  IF l = m THEN ~LessThan(l, m) ELSE LessThan(l, m) <=> ~LessThan(m, l)
<1> DEFINE a == Memory(l)
           b == Memory(m)
<1>0. l \in LocatorType /\ m \in LocatorType
  BY DEF IsLocator
<1>1. /\ a \in Seq(Int) /\ Len(a) = 24 /\ b \in Seq(Int) /\ Len(b) = 24
  BY <1>0, MemoryLength
<1>2. a = b => l = m
  BY MemoryTells
<1>3. LessThan(l, m) <=> \E i \in 1..Len(a) : a[i] < b[i] /\ \A j \in 1..i - 1 : a[j] = b[j]
  BY DEF LessThan
<1>4. LessThan(m, l) <=> \E i \in 1..Len(b) : b[i] < a[i] /\ \A j \in 1..i - 1 : b[j] = a[j]
  BY DEF LessThan
<1>5. l = m => a = b
  OBVIOUS
<1> DEFINE n == Len(a)
<1> HIDE DEF a, b
<1>6. n \in Nat /\ Len(b) = n /\ \A i \in 1..n : a[i] \in Int /\ b[i] \in Int
  <2>1. \A c \in Seq(Int) : Len(c) \in Nat /\ \A i \in 1..Len(c) : c[i] \in Int
    OBVIOUS
  <2>2. Len(b) = n
    BY <1>1
  <2> QED
    BY <1>1, <2>1, <2>2
<1> HIDE DEF n
<1>7. LessThan(l, m) <=> \E i \in 1..n : Differ(a, b, i) /\ a[i] < b[i]
  BY <1>3, <1>6 DEF Differ, n
<1>8. LessThan(m, l) <=> \E i \in 1..n : Differ(a, b, i) /\ b[i] < a[i]
  BY <1>4, <1>6 DEF Differ
<1>9. CASE a = b
  BY <1>2, <1>6, <1>7, <1>9
<1>10. CASE a # b
  <2>1. PICK i \in 1..n : Differ(a, b, i)
    <3>1. (\A i \in 1..n : a[i] = b[i]) => a = b
      BY <1>1, <1>6, Extensional DEF n
    <3> QED
      BY <1>6, <1>10, <3>1, FirstDifference, SMTT(30)
  <2>2. \A j \in 1..n : Differ(a, b, j) => j = i
    BY <1>6, <2>1, OneFirstDifference
  <2>3. a[i] < b[i] <=> ~(b[i] < a[i])
    BY <1>6, <2>1 DEF Differ
  <2> QED
    BY <1>5, <1>7, <1>8, <1>10, <2>1, <2>2, <2>3
<1> QED
  BY <1>9, <1>10

(* Before(a, b): a is less than b in the order of memcmp.                   *)
Before(a, b) == \E i \in 1..Len(a) : a[i] < b[i] /\ \A j \in 1..i - 1 : a[j] = b[j]

LEMMA BeforeIsTransitive ==
    ASSUME NEW a \in Seq(Int), NEW b \in Seq(Int), NEW c \in Seq(Int),
           Len(a) = Len(b), Len(b) = Len(c), Before(a, b), Before(b, c)
    PROVE  Before(a, c)
<1> DEFINE n == Len(a)
<1>1. /\ n \in Nat /\ Len(b) = n
      /\ \A i \in 1..n : a[i] \in Int /\ b[i] \in Int /\ c[i] \in Int
  OBVIOUS
<1>2. PICK i \in 1..n : a[i] < b[i] /\ \A j \in 1..i - 1 : a[j] = b[j]
  BY DEF Before
<1>3. PICK k \in 1..n : b[k] < c[k] /\ \A j \in 1..k - 1 : b[j] = c[j]
  BY <1>1 DEF Before
<1> HIDE DEF n
<1>4. i \in Int /\ k \in Int /\ 1 <= i /\ 1 <= k /\ i <= n /\ k <= n
  BY <1>1
<1>5. CASE i < k
  <2>1. \A j \in 1..i : j \in 1..k - 1
    BY <1>4, <1>5
  <2>2. \A j \in 1..i - 1 : j \in 1..i
    BY <1>4
  <2>3. i \in 1..i
    BY <1>4
  <2>4. a[i] < c[i] /\ \A j \in 1..i - 1 : a[j] = c[j]
    BY <1>2, <1>3, <2>1, <2>2, <2>3
  <2> QED
    BY <2>4 DEF Before, n
<1>6. CASE k < i
  <2>1. \A j \in 1..k : j \in 1..i - 1
    BY <1>4, <1>6
  <2>2. \A j \in 1..k - 1 : j \in 1..k
    BY <1>4
  <2>3. k \in 1..k
    BY <1>4
  <2>4. a[k] < c[k] /\ \A j \in 1..k - 1 : a[j] = c[j]
    BY <1>2, <1>3, <2>1, <2>2, <2>3
  <2> QED
    BY <2>4 DEF Before, n
<1>7. CASE i = k
  <2>1. a[i] < c[i]
    BY <1>1, <1>2, <1>3, <1>7
  <2>2. \A j \in 1..i - 1 : a[j] = c[j]
    BY <1>2, <1>3, <1>7
  <2> QED
    BY <2>1, <2>2 DEF Before, n
<1> QED
  BY <1>4, <1>5, <1>6, <1>7

LEMMA LessThanIsTransitive ==
    ASSUME NEW l \in LocatorType, NEW m \in LocatorType, NEW o \in LocatorType,
           LessThan(l, m), LessThan(m, o)
    PROVE  LessThan(l, o)
<1>1. /\ Memory(l) \in Seq(Int) /\ Memory(m) \in Seq(Int) /\ Memory(o) \in Seq(Int)
      /\ Len(Memory(l)) = 24 /\ Len(Memory(m)) = 24 /\ Len(Memory(o)) = 24
  BY MemoryLength
<1>2. Before(Memory(l), Memory(m)) /\ Before(Memory(m), Memory(o))
  BY DEF LessThan, Before
<1>3. Before(Memory(l), Memory(o))
  BY <1>1, <1>2, BeforeIsTransitive
<1> QED
  BY <1>3 DEF LessThan, Before

(* operator< is a strict total order that agrees with operator==, for any   *)
(* kinds, addresses and ports: of two locators that differ anywhere exactly *)
(* one is less, of equal ones neither is, and the order is transitive.      *)
THEOREM OrderAlwaysAgrees == Spec => []OrderAgreesWithEquality
<1>1. TypeOK => OrderAgreesWithEquality
  <2> SUFFICES ASSUME IsLocator(locator), NEW m \in Compared, NEW n \in Compared
               PROVE  /\ IF locator = m THEN ~LessThan(locator, m) /\ ~LessThan(m, locator)
                                        ELSE LessThan(locator, m) <=> ~LessThan(m, locator)
                      /\ LessThan(locator, m) /\ LessThan(m, n) => LessThan(locator, n)
                      /\ LessThan(m, locator) /\ LessThan(locator, n) => LessThan(m, n)
    BY IsLocatorIsType DEF OrderAgreesWithEquality
  <2>1. /\ IsLocator(m) /\ locator \in LocatorType
        /\ m \in LocatorType /\ n \in LocatorType
    BY ComparedAssumption DEF IsLocator
  <2>2. IF locator = m THEN ~LessThan(locator, m) /\ ~LessThan(m, locator)
                       ELSE LessThan(locator, m) <=> ~LessThan(m, locator)
    BY <2>1, LessThanTells
  <2>3. LessThan(locator, m) /\ LessThan(m, n) => LessThan(locator, n)
    BY <2>1, LessThanIsTransitive
  <2>4. LessThan(m, locator) /\ LessThan(locator, n) => LessThan(m, n)
    BY <2>1, LessThanIsTransitive
  <2> QED
    BY <2>2, <2>3, <2>4
<1> QED
  BY <1>1, LocatorTypeCorrect, PTL
=============================================================================
