---------------------------- MODULE MCUdpChannels ----------------------------
(***************************************************************************)
(* UdpChannels on small instances.                                         *)
(***************************************************************************)
EXTENDS UdpChannels

MCLocatorAt(port, kind, logical, tail) ==
    [kind |-> kind, logical |-> logical, port |-> port, head |-> "zeros", tail |-> tail]

MCLocator(kind, logical, tail) == MCLocatorAt(7, kind, logical, tail)

MCAny == "0.0.0.0"
MCHost == "10.0.0.1"
MCGroup == "239.255.0.1"

(* A unicast address of the host, the group, and the wildcard, all on one   *)
(* port: each overlaps the others in a different way.                       *)
MCOverlapping == {MCLocator(1, 0, MCHost), MCLocator(1, 0, MCGroup),
                  MCLocator(1, 0, MCAny)}

(* The same, and a locator that differs from one of them in its logical     *)
(* port, which operator== sees and no socket does.                          *)
MCWithLogical == MCOverlapping \cup {MCLocator(1, 1, MCHost)}

(* One address on two ports. *)
MCTwoPorts == {MCLocatorAt(p, 1, 0, MCHost) : p \in {7, 9}}

(* The factories are alike.                                                 *)
MCSymmetry == Permutations(Factories)

MCGroups == {MCGroup}
MCBindable == {MCAny, MCHost, MCGroup}
=============================================================================
