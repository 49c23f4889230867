---------------------------- MODULE InterfaceScan ----------------------------
(***************************************************************************)
(* IPFinder (Linux): the scan of the host's interfaces, the lists of       *)
(* addresses built from it, and the MAC addresses, which are asked for     *)
(* interface by interface after the scan.                                  *)
(*                                                                         *)
(* The calls run on one thread; the host changes at any time, also between *)
(* the scan of getAllMACAddress and its questions about what was found.    *)
(***************************************************************************)
EXTENDS LocatorLists, FiniteSets

CONSTANTS
    Devices,        \* the names of interfaces
    States,         \* by device, the states it may be in
    HardwareOf,     \* by device, its MAC address, or NotEthernet
    NotEthernet,    \* in place of a MAC address: ARPHRD is not ETHER
    Unreadable,     \* the addresses that getnameinfo fails on
    LocalOf,        \* by kind, the address 127.0.0.1 or ::1
    Faults,         \* whether getifaddrs may fail
    MaxDescriptors  \* how many more sockets the process may open

UDPv4 == 1
UDPv6 == 2
UDPKinds == {UDPv4, UDPv6}

(* An address has the kind of its family; one that is not of UDPKinds is of *)
(* another family.  An interface may be listed without any.                 *)
Addresses == UNION {s.addresses : s \in UNION {States[d] : d \in Devices}}

ASSUME StatesAssumption ==
    \A d \in Devices : \A s \in States[d] :
        /\ s.present \in BOOLEAN /\ s.running \in BOOLEAN
        /\ IsFiniteSet(s.addresses)
        /\ \A a \in s.addresses : a.kind \in Int

ASSUME DevicesAssumption == IsFiniteSet(Devices)

ASSUME ValuesAssumption ==
    /\ \A k \in UDPKinds : LocalOf[k].kind = k
    /\ Faults \in BOOLEAN /\ MaxDescriptors \in Nat

VARIABLES
    host,           \* the state of each interface
    list,           \* the application's LocatorList
    ips,            \* of the running getAllMACAddress, what its scan found
    next,           \* and the entry it asks about next; 0 when none runs
    macs,           \* the application's vector of MAC addresses
    before,         \* (history) what it held when the running call began
    open,           \* the sockets opened and not closed
    answer          \* what the last call returned

vars == <<host, list, ips, next, macs, before, open, answer>>

asking == <<ips, next, macs, before, open>>

-----------------------------------------------------------------------------
(***************************************************************************)
(* The scan.                                                               *)
(***************************************************************************)
Listed == UNION {{[dev |-> d, locator |-> a] : a \in host[d].addresses} :
                    d \in {e \in Devices : host[e].present}}

IsLocal(l) == l = LocalOf[l.kind]

(* Nobody asks for the loopback.                                            *)
ReturnLoopback == FALSE

MutEntries == {e \in Listed : host[e.dev].running /\ e.locator \notin Unreadable}

(* getIPs: running interfaces, IP families, names that can be read.         *)
Entries ==
    {e \in Listed : /\ host[e.dev].running
                    /\ e.locator.kind \in UDPKinds
                    /\ e.locator \notin Unreadable
                    /\ ReturnLoopback \/ ~IsLocal(e.locator)}

(* getifaddrs lists in any order.                                           *)
Scans == SetToSeqs(Entries)

(* The scan of a caller that ignores whether it succeeded.                  *)
UncheckedScans == Scans \cup (IF Faults THEN {<<>>} ELSE {})

LocatorsOf(scan, kinds) ==
    LET ofKinds == Kept(scan, {e \in ToSet(scan) : e.locator.kind \in kinds})
    IN  [i \in DOMAIN ofKinds |-> ofKinds[i].locator]

-----------------------------------------------------------------------------
Init ==
    /\ host \in [Devices -> UNION {States[d] : d \in Devices}]
    /\ \A d \in Devices : host[d] \in States[d]
    /\ list = <<>>
    /\ ips = <<>> /\ next = 0 /\ macs = <<>> /\ before = {}
    /\ open = 0
    /\ answer = TRUE

HostChanges(d) ==
    /\ \E s \in States[d] : host' = [host EXCEPT ![d] = s]
    /\ UNCHANGED <<list, asking, answer>>

(* getIP4Address, getIP6Address and getAllIPAddress, by the kinds they keep.*)
MutListAddresses(kinds) ==
    /\ next = 0
    /\ \E scan \in Scans : list' = PushedAll(list, LocatorsOf(scan, kinds))
    /\ answer' = TRUE
    /\ UNCHANGED <<host, asking>>

ListAddresses(kinds) ==
    /\ next = 0
    /\ \E scan \in Scans : list' = PushedAll(<<>>, LocatorsOf(scan, kinds))
    /\ answer' = TRUE
    /\ UNCHANGED <<host, asking>>

ScanFails ==
    /\ next = 0 /\ Faults
    /\ answer' = FALSE
    /\ UNCHANGED <<host, list, asking>>

(* normalize_locator of the wildcard, whose get_ipv4s (get_ipv6s) does not  *)
(* hear that the scan failed.                                               *)
MutExpandWildcard(kind) ==
    /\ next = 0
    /\ \E scan \in UncheckedScans : list' = PushedAll(<<>>, LocatorsOf(scan, {kind}))
    /\ UNCHANGED <<host, asking, answer>>

ExpandWildcard(kind) ==
    /\ next = 0
    /\ \E scan \in UncheckedScans :
          LET found == PushedAll(<<>>, LocatorsOf(scan, {kind}))
          IN  list' = IF found = <<>> THEN <<LocalOf[kind]>> ELSE found
    /\ UNCHANGED <<host, asking, answer>>

-----------------------------------------------------------------------------
(***************************************************************************)
(* getAllMACAddress, into a vector that may hold earlier results.          *)
(***************************************************************************)
StartMacs ==
    /\ next = 0
    /\ ips' \in UncheckedScans
    /\ next' = 1
    /\ macs' \in {macs, <<>>} /\ before' = ToSet(macs')
    /\ UNCHANGED <<host, list, open, answer>>

Return(value) == next' = 0 /\ ips' = <<>> /\ before' = {} /\ answer' = value

(* socket() fails, or ioctl does and the socket is closed again.            *)
AskRefused ==
    /\ next \in DOMAIN ips
    /\ open = MaxDescriptors \/ ~host[ips[next].dev].present
    /\ Return(FALSE)
    /\ UNCHANGED <<host, list, macs, open>>

(* The socket of a question that is answered stays open.                    *)
MutAskKnown ==
    /\ next \in DOMAIN ips
    /\ open < MaxDescriptors /\ host[ips[next].dev].present
    /\ LET mac == HardwareOf[ips[next].dev] IN
       macs' = IF mac = NotEthernet THEN macs ELSE Append(macs, mac)
    /\ next' = next + 1
    /\ open' = open + 1
    /\ UNCHANGED <<host, list, ips, before, answer>>

AskAnswered ==
    /\ next \in DOMAIN ips
    /\ open < MaxDescriptors /\ host[ips[next].dev].present
    /\ LET mac == HardwareOf[ips[next].dev] IN
       macs' = IF mac = NotEthernet THEN macs ELSE Pushed(macs, mac)
    /\ next' = next + 1
    /\ open' = open + 1
    /\ UNCHANGED <<host, list, ips, before, answer>>

FinishMacs ==
    /\ next = Len(ips) + 1
    /\ Return(TRUE)
    /\ UNCHANGED <<host, list, macs, open>>

Next ==
    \/ \E d \in Devices : HostChanges(d)
    \/ \E kinds \in {{UDPv4}, {UDPv6}, UDPKinds} : ListAddresses(kinds)
    \/ ScanFails
    \/ \E k \in UDPKinds : ExpandWildcard(k)
    \/ StartMacs \/ AskRefused \/ AskAnswered \/ FinishMacs

Spec == Init /\ [][Next]_vars

-----------------------------------------------------------------------------
(***************************************************************************)
(* Correctness.                                                            *)
(***************************************************************************)
Macs == {HardwareOf[d] : d \in Devices} \ {NotEthernet}

(* The lists hold IP addresses and MAC addresses, and what a scan found is  *)
(* an IP address of an interface.                                           *)
TypeOK ==
    /\ DOMAIN host = Devices /\ \A d \in Devices : host[d] \in States[d]
    /\ list \in Seq({a \in Addresses : a.kind \in UDPKinds} \cup {LocalOf[k] : k \in UDPKinds})
    /\ ips \in Seq([dev : Devices, locator : {a \in Addresses : a.kind \in UDPKinds}])
    /\ next \in 0..Len(ips) + 1
    /\ macs \in Seq(Macs) /\ before \subseteq Macs
    /\ open \in 0..MaxDescriptors
    /\ answer \in BOOLEAN

(* The readable addresses of some kinds that reach this host from another.  *)
Reachable(kinds) ==
    {a \in Addresses \ Unreadable :
        /\ a.kind \in kinds /\ a # LocalOf[a.kind]
        /\ \E d \in Devices : /\ host[d].present /\ host[d].running
                              /\ a \in host[d].addresses}

(* A list of addresses answers for the host as it is at the call: what the  *)
(* list held before is gone, no address of a loopback or of an interface    *)
(* that is down is in it, and one that two interfaces share is there once.  *)
ListsAnswerForTheHost ==
    [][\A kinds \in {{UDPv4}, {UDPv6}, UDPKinds} :
          ListAddresses(kinds) => /\ ToSet(list') = Reachable(kinds)
                                  /\ NoDuplicates(list')]_vars

(* A wildcard becomes addresses of its kind that the host has, all of them  *)
(* or, when there are none or the scan failed, the loopback; never nothing. *)
WildcardsBecomeAddresses ==
    [][\A k \in UDPKinds :
          ExpandWildcard(k) =>
              \/ Reachable({k}) # {} /\ ToSet(list') = Reachable({k})
              \/ (Faults \/ Reachable({k}) = {}) /\ list' = <<LocalOf[k]>>]_vars

(* The addresses of the Ethernet interfaces of the first n entries.         *)
MacsOf(n) == {HardwareOf[ips[i].dev] : i \in 1..n} \ {NotEthernet}

(* When getAllMACAddress returns true, each Ethernet interface its scan     *)
(* found is in the vector, besides what was there before and nothing else;  *)
(* when it returns false, those it asked about until it was refused are.    *)
(* None is there twice, though several share an address and interfaces come *)
(* and go meanwhile.  The scan may have failed unheard (IPFinder.cpp:271):  *)
(* then it found nothing, which is returned as true.                        *)
MacsAnswerForTheScan ==
    [][next # 0 /\ next' = 0 =>
          /\ ToSet(macs') = before \cup MacsOf(IF answer' THEN Len(ips) ELSE next - 1)
          /\ NoDuplicates(macs')]_vars
=============================================================================
