---------------------------- MODULE LocatorParts ----------------------------
(***************************************************************************)
(* The parts of a Locator (type.h, IPLocator.cpp): sixteen octets of       *)
(* address, in which a TCPv4 locator keeps a LAN, a WAN and an IPv4        *)
(* address side by side, and 32 bits of port, the logical port above the   *)
(* physical one.                                                           *)
(*                                                                         *)
(* A text is what operator>> of a stream makes of it: the numbers it       *)
(* starts with, each apart from the next by any one character, and whether *)
(* anything follows them.                                                  *)
(***************************************************************************)
EXTENDS Integers, Sequences

CONSTANTS
    Kinds,          \* the kinds of locator the application creates
    Texts,          \* the texts it passes
    OctetLists,     \* the groups of four octets it passes
    Ports,          \* the ports it passes, uint16_t
    Compared        \* locators that it orders beside its own

UDPv4 == 1
UDPv6 == 2
TCPv4 == 4
TCPv6 == 8
IPv4Kinds == {UDPv4, TCPv4}
UDPKinds == {UDPv4, UDPv6}
TCPKinds == {TCPv4, TCPv6}

(* kind is an int32_t, whose least value is of no kind. *)
Int32 == {n \in Int : -2147483647 <= n /\ n <= 2147483647}
Uint16 == {n \in Nat : n <= 65535}

ASSUME WidthsAssumption == Kinds \subseteq Int32 /\ Ports \subseteq Uint16

ASSUME InputsAssumption ==
    /\ OctetLists \subseteq [1..4 -> 0..255]
    /\ \A t \in Texts : t.numbers \in Seq(Nat) /\ t.rest \in BOOLEAN

LocatorType == [kind : Kinds \cup {UDPv4}, port : Nat, address : [0..15 -> 0..255]]

(* The two halves of the port on a little-endian machine.                   *)
LogicalPort(l) == l.port \div 65536
PhysicalPort(l) == l.port % 65536

ASSUME ComparedAssumption ==
    \A m \in Compared : m \in LocatorType /\ LogicalPort(m) \in Uint16

VARIABLE locator    \* a Locator of the application

(* Where the parts of an address begin, and how long they are.              *)
LAN == [at |-> 0, size |-> 8]
WAN == [at |-> 8, size |-> 4]
IPv4 == [at |-> 12, size |-> 4]

Part(l, p) == [i \in 1..p.size |-> l.address[p.at + i - 1]]

ZeroAddress == [i \in 0..15 |-> 0]

(* What a call leaves in the locator, and what it returns.                  *)
Result(l, ok) == [locator |-> l, ok |-> ok]

-----------------------------------------------------------------------------
(***************************************************************************)
(* The setters.                                                            *)
(***************************************************************************)
MutPut(l, p, numbers) ==
    [l EXCEPT !.address = [i \in 0..15 |->
        IF i \in p.at..p.at + p.size - 1 THEN numbers[(i - p.at) + 1] ELSE @[i]]]

(* The numbers are cast to unsigned char. *)
Put(l, p, numbers) ==
    [l EXCEPT !.address = [i \in 0..15 |->
        IF i \in p.at..p.at + p.size - 1 THEN numbers[(i - p.at) + 1] % 256 ELSE @[i]]]

MutSetIPv4(l, t) ==
    IF l.kind \in IPv4Kinds /\ Len(t.numbers) >= 4 /\ \A i \in 1..4 : t.numbers[i] <= 255
      THEN Result(Put(l, IPv4, t.numbers), Len(t.numbers) = 4 /\ ~t.rest)
      ELSE Result([l EXCEPT !.address = ZeroAddress], FALSE)

MutSetIPv4Below255(l, t) ==
    IF l.kind \in IPv4Kinds /\ Len(t.numbers) >= 4 /\ \A i \in 1..4 : t.numbers[i] < 255
      THEN Result(Put(l, IPv4, t.numbers), Len(t.numbers) = 4 /\ ~t.rest)
      ELSE Result(l, FALSE)

(* setIPv4 from a text changes nothing when it fails, but it has changed    *)
(* the address when it reports that something follows.                      *)
SetIPv4(l, t) ==
    IF l.kind \in IPv4Kinds /\ Len(t.numbers) >= 4 /\ \A i \in 1..4 : t.numbers[i] <= 255
      THEN Result(Put(l, IPv4, t.numbers), Len(t.numbers) = 4 /\ ~t.rest)
      ELSE Result(l, FALSE)

(* setIPv4 from four octets, or from the octets of another locator.         *)
SetIPv4Octets(l, octets) ==
    IF l.kind \in IPv4Kinds THEN Result(Put(l, IPv4, octets), TRUE) ELSE Result(l, FALSE)

(* setWan asks neither for a kind nor for numbers below 256.                *)
SetWanOctets(l, octets) == Result(Put(l, WAN, octets), TRUE)

SetWan(l, t) ==
    IF Len(t.numbers) >= 4 THEN SetWanOctets(l, t.numbers) ELSE Result(l, FALSE)

SetLanID(l, t) ==
    IF l.kind = TCPv4 /\ Len(t.numbers) >= 8
      THEN Result(Put(l, LAN, t.numbers), TRUE) ELSE Result(l, FALSE)

MutSetIPv4address(l, lan, wan, ipv4) ==
    LET first == SetLanID(l, lan)
        second == SetWan(first.locator, wan)
        third == SetIPv4(second.locator, ipv4)
    IN  IF ~first.ok THEN first ELSE IF ~second.ok THEN second ELSE third

(* setIPv4address: all three parts, or an address of zeros.                 *)
SetIPv4address(l, lan, wan, ipv4) ==
    LET first == SetLanID(l, lan)
        second == SetWan(first.locator, wan)
        third == SetIPv4(second.locator, ipv4)
    IN  IF first.ok /\ second.ok /\ third.ok
          THEN third ELSE Result([l EXCEPT !.address = ZeroAddress], FALSE)

(* createLocator of an IPv4 kind, on a locator that may have been used: it  *)
(* ignores whether the text is an address.                                  *)
MutCreateLocator(l, kind, t, port) ==
    SetIPv4([l EXCEPT !.kind = kind, !.port = port], t).locator

CreateLocator(l, kind, t, port) ==
    SetIPv4([l EXCEPT !.kind = kind, !.port = port, !.address = ZeroAddress], t).locator

SetLogicalPort(l, p) == Result([l EXCEPT !.port = (p * 65536) + (@ % 65536)], p # 0)

MutSetPhysicalPort(l, p) == Result([l EXCEPT !.port = p], p # 0)

SetPhysicalPort(l, p) == Result([l EXCEPT !.port = (65536 * (@ \div 65536)) + p], p # 0)

SetPortTRANSPORT(l, p) ==
    CASE l.kind \in UDPKinds -> SetPhysicalPort(l, p)
      [] l.kind \in TCPKinds -> SetLogicalPort(l, p)
      [] OTHER               -> Result(l, FALSE)

PortTRANSPORT(l) ==
    CASE l.kind \in UDPKinds -> PhysicalPort(l)
      [] l.kind \in TCPKinds -> LogicalPort(l)
      [] OTHER               -> 0

ToPhysicalLocator(l) == SetLogicalPort(l, 0).locator

(* set_address takes the octets of another locator, set_invalid_address     *)
(* those of no address.                                                    *)
SetAddressOf(l, m) == Result([l EXCEPT !.address = m.address], TRUE)

SetInvalidAddress(l) == Result([l EXCEPT !.address = ZeroAddress], TRUE)

-----------------------------------------------------------------------------
(***************************************************************************)
(* The questions.                                                          *)
(***************************************************************************)
(* The text of a part: its octets in decimal. *)
Printed(l, p) == [numbers |-> Part(l, p), rest |-> FALSE]

CompareAddress(l, m, fullAddress) ==
    /\ l.kind = m.kind
    /\ IF ~fullAddress /\ l.kind \in IPv4Kinds THEN Part(l, IPv4) = Part(m, IPv4)
                                               ELSE l.address = m.address

CompareAddressAndPhysicalPort(l, m) ==
    CompareAddress(l, m, TRUE) /\ PhysicalPort(l) = PhysicalPort(m)

(* The octets that isLocal, isAny and isEmpty look at. *)
Significant(l) == IF l.kind \in IPv4Kinds THEN 12..15 ELSE 0..15

IsAny(l) == \A i \in Significant(l) : l.address[i] = 0

(* 127.0.0.1, or ::1 *)
IsLocal(l) ==
    \A i \in Significant(l) :
        l.address[i] = CASE i = 15                           -> 1
                         [] i = 12 /\ l.kind \in IPv4Kinds -> 127
                         [] OTHER                            -> 0

MutIsEmpty(l) == l.address = ZeroAddress

(* Equal to the address of an invalid locator, from octet 12 or from 0.     *)
IsEmpty(l) ==
    IF l.kind \in IPv4Kinds THEN Part(l, IPv4) = [i \in 1..4 |-> 0]
                            ELSE l.address = ZeroAddress

HasIPv4(l) == l.kind \in IPv4Kinds /\ ~IsEmpty(l)

HasWan(l) == l.kind = TCPv4 /\ Part(l, WAN) # [i \in 1..4 |-> 0]

IpEqualsWan(l) == HasWan(l) /\ Part(l, WAN) = Part(l, IPv4)

(* operator< and operator>: memcmp of the struct, whose integers begin with *)
(* their lowest octet.                                                      *)
Octets(n) ==
    <<n % 256, (n \div 256) % 256, (n \div 65536) % 256, (n \div 16777216) % 256>>

MutMemory(l) == Octets(l.kind) \o [i \in 1..16 |-> l.address[i - 1]]

Memory(l) == Octets(l.kind) \o Octets(l.port) \o [i \in 1..16 |-> l.address[i - 1]]

LessThan(l, m) ==
    LET a == Memory(l)
        b == Memory(m)
    IN  \E i \in 1..Len(a) : a[i] < b[i] /\ \A j \in 1..i - 1 : a[j] = b[j]

-----------------------------------------------------------------------------
Init == locator = [kind |-> UDPv4, port |-> 0, address |-> ZeroAddress]

Assign(result) == locator' = result.locator

Create == \E kind \in Kinds \cap IPv4Kinds, t \in Texts, port \in Ports :
             locator' = CreateLocator(locator, kind, t, port)

SetAddress ==
    \/ \E t \in Texts : \/ Assign(SetIPv4(locator, t))
                        \/ Assign(SetWan(locator, t))
                        \/ Assign(SetLanID(locator, t))
    \/ \E octets \in OctetLists : \/ Assign(SetIPv4Octets(locator, octets))
                                        \/ Assign(SetWanOctets(locator, octets))
    \/ \E lan, wan, ipv4 \in Texts : Assign(SetIPv4address(locator, lan, wan, ipv4))
    \/ Assign(SetInvalidAddress(locator))
    \/ \E kind \in Kinds \cap IPv4Kinds, t \in Texts :
          Assign(SetAddressOf(locator, CreateLocator(locator, kind, t, 0)))

SetPort ==
    \E p \in Ports : \/ Assign(SetLogicalPort(locator, p))
                     \/ Assign(SetPhysicalPort(locator, p))
                     \/ Assign(SetPortTRANSPORT(locator, p))

(* The kind is a field the application may assign. *)
SetKind == \E kind \in Kinds : locator' = [locator EXCEPT !.kind = kind]

Next == Create \/ SetAddress \/ SetPort \/ SetKind

Spec == Init /\ [][Next]_locator

-----------------------------------------------------------------------------
(***************************************************************************)
(* Correctness.                                                            *)
(***************************************************************************)
(* Octets and the port keep their width.                                    *)
TypeOK ==
    /\ locator \in LocatorType
    /\ LogicalPort(locator) \in Uint16

OthersKept(l, p, result) ==
    /\ \A q \in {LAN, WAN, IPv4} \ {p} : Part(result.locator, q) = Part(l, q)
    /\ result.locator.port = l.port /\ result.locator.kind = l.kind

(* A call for one part of the address leaves the others as they are, also   *)
(* when its text is refused: WAN and LAN "could be set beforehand".         *)
PartsKeepApart ==
    /\ \A t \in Texts : /\ OthersKept(locator, IPv4, SetIPv4(locator, t))
                        /\ OthersKept(locator, WAN, SetWan(locator, t))
                        /\ OthersKept(locator, LAN, SetLanID(locator, t))
    /\ \A octets \in OctetLists :
          /\ OthersKept(locator, IPv4, SetIPv4Octets(locator, octets))
          /\ OthersKept(locator, WAN, SetWanOctets(locator, octets))

(* The texts a TCPv4 locator's parts are printed as build the same locator  *)
(* again, on any locator with its kind and port.                            *)
PrintedPartsRebuild ==
    locator.kind = TCPv4 =>
        SetIPv4address([locator EXCEPT !.address = ZeroAddress],
                       Printed(locator, LAN), Printed(locator, WAN), Printed(locator, IPv4))
        = Result(locator, TRUE)

(* setIPv4address leaves no mixture of old and new octets: it sets all      *)
(* three parts as each would be set alone, or the address is zero.          *)
AllPartsOrNone ==
    \A lan, wan, ipv4 \in Texts :
        LET result == SetIPv4address(locator, lan, wan, ipv4)
            l == result.locator
        IN  IF result.ok
              THEN /\ Part(l, LAN) = Part(SetLanID(locator, lan).locator, LAN)
                   /\ Part(l, WAN) = Part(SetWan(locator, wan).locator, WAN)
                   /\ Part(l, IPv4) = Part(SetIPv4(locator, ipv4).locator, IPv4)
              ELSE l.address = ZeroAddress

(* The port that is set for a transport is the one it reads, it disturbs    *)
(* the other half in no kind, and only the logical half is outside what     *)
(* compareAddressAndPhysicalPort compares.                                  *)
PortHalvesApart ==
    /\ \A p \in Ports :
          LET l == SetPortTRANSPORT(locator, p).locator IN
          /\ locator.kind \in UDPKinds \cup TCPKinds => PortTRANSPORT(l) = p
          /\ locator.kind \in UDPKinds => LogicalPort(l) = LogicalPort(locator)
          /\ locator.kind \in TCPKinds => PhysicalPort(l) = PhysicalPort(locator)
          /\ CompareAddressAndPhysicalPort(locator, SetLogicalPort(locator, p).locator)
    /\ CompareAddressAndPhysicalPort(locator, ToPhysicalLocator(locator))

(* What compareAddress takes for one address gets one answer from every     *)
(* question, whatever WAN, LAN and port stand beside it; no address is both *)
(* the wildcard and the host itself, and ip_equals_wan finds a WAN that was *)
(* set to the IPv4 address.                                                 *)
AnswersAgree ==
    /\ IsAny(locator) <=> IsEmpty(locator)
    /\ IsLocal(locator) => ~IsAny(locator)
    /\ \A t \in Texts : \A set \in {SetIPv4(locator, t), SetWan(locator, t), SetLanID(locator, t)} :
          LET m == set.locator IN
          CompareAddress(locator, m, FALSE) =>
              /\ IsAny(m) <=> IsAny(locator)
              /\ IsLocal(m) <=> IsLocal(locator)
              /\ HasIPv4(m) <=> HasIPv4(locator)
    /\ \A octets \in OctetLists :
          LET m == SetWanOctets(SetIPv4Octets(locator, octets).locator, octets).locator IN
          locator.kind = TCPv4 => (IpEqualsWan(m) <=> HasIPv4(m))

(* What createLocator makes of a text does not depend on what the locator   *)
(* was before: it has the address the text begins with, or the wildcard if  *)
(* the text begins with none, and no WAN or LAN.                            *)
CreatedFromTextAlone ==
    \A kind \in Kinds \cap IPv4Kinds, t \in Texts, port \in Ports :
        LET l == CreateLocator(locator, kind, t, port) IN
        /\ l.kind = kind /\ l.port = port
        /\ Part(l, LAN) = [i \in 1..8 |-> 0] /\ Part(l, WAN) = [i \in 1..4 |-> 0]
        /\ \/ Len(t.numbers) >= 4 /\ Part(l, IPv4) = [i \in 1..4 |-> t.numbers[i]]
           \/ IsAny(l) /\ (Len(t.numbers) < 4 \/ \E i \in 1..4 : t.numbers[i] > 255)

(* operator< is a strict total order that agrees with operator==, so that   *)
(* sorted locators hold none twice and lose none: of a locator and another  *)
(* exactly one is less, unless they are equal, wherever they differ, and    *)
(* what is less than a lesser one is less.                                  *)
OrderAgreesWithEquality ==
    \A m, n \in Compared :
        /\ IF locator = m THEN ~LessThan(locator, m) /\ ~LessThan(m, locator)
                          ELSE LessThan(locator, m) <=> ~LessThan(m, locator)
        /\ LessThan(locator, m) /\ LessThan(m, n) => LessThan(locator, n)
        /\ LessThan(m, locator) /\ LessThan(locator, n) => LessThan(m, n)
=============================================================================
