--------------------------- MODULE MCInterfaceScan ---------------------------
(***************************************************************************)
(* InterfaceScan on small instances.                                       *)
(***************************************************************************)
EXTENDS InterfaceScan

CONSTANTS Lo, Eth0, Br0     \* a loopback, an Ethernet card, and a bridge on it

MCDevices == {Lo, Eth0, Br0}

MCAddress(kind, ip) == [kind |-> kind, ip |-> ip]

MCLocalOf == [k \in {1, 2} |-> MCAddress(k, "local")]

MCState(running, addresses) ==
    [present |-> TRUE, running |-> running, addresses |-> addresses]

MCAbsent == [present |-> FALSE, running |-> FALSE, addresses |-> {}]

(* The loopback has an address besides 127.0.0.1; the card may be down, and *)
(* share its IPv6 address with the bridge, which may vanish.  Kind 17 is    *)
(* AF_PACKET.                                                               *)
MCStates ==
    (Lo :> {MCState(TRUE, {MCLocalOf[1], MCLocalOf[2], MCAddress(1, "alias")})})
    @@ (Eth0 :> {MCState(up, {MCAddress(1, "host"), MCAddress(2, "fe80"), MCAddress(17, "eth")}) :
                    up \in BOOLEAN})
    @@ (Br0 :> {MCState(TRUE, {MCAddress(2, "fe80"), MCAddress(1, "unreadable")}),
                MCState(TRUE, {}), MCAbsent})

MCHardwareOf == (Lo :> "none") @@ (Eth0 :> "mac") @@ (Br0 :> "mac")

MCUnreadable == {MCAddress(1, "unreadable")}
=============================================================================
