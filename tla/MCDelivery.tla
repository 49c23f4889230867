----------------------------- MODULE MCDelivery -----------------------------
(***************************************************************************)
(* Delivery on small instances.                                            *)
(***************************************************************************)
EXTENDS Delivery

MCLocator(kind, logical, tail) ==
    [kind |-> kind, logical |-> logical, port |-> 7, head |-> "zeros", tail |-> tail]

MCAny == "0.0.0.0"
MCHost == "10.0.0.1"
MCGroup == "239.255.0.1"

(* A host address that the sockets see in two locators, one of them of      *)
(* UDPv6, and a group.                                                      *)
MCMixed == {MCLocator(1, 0, MCHost), MCLocator(2, 0, MCHost), MCLocator(1, 0, MCGroup)}

MCGroups == {MCGroup}
MCBindable == {MCAny, MCHost, MCGroup}
=============================================================================
