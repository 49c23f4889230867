------------------------- MODULE MCTransportRegistry -------------------------
(***************************************************************************)
(* TransportRegistry on small instances.                                   *)
(***************************************************************************)
EXTENDS TransportRegistry

CONSTANTS A, B      \* the two lists

MCLists == {A, B}

MCAddress(tail) == [head |-> "zeros", tail |-> tail]

MCLocator(kind, port, address) == [kind |-> kind, port |-> port, address |-> address]

(* A descriptor of each UDP kind, one of shared memory as an application    *)
(* may bring, and one that creates no transport.                            *)
MCDescriptor(kind, max, creates) == [kind |-> kind, max |-> max, creates |-> creates]

MCDescriptors ==
    {MCDescriptor(1, 5, TRUE), MCDescriptor(2, 4, TRUE), MCDescriptor(2, 2, FALSE),
     MCDescriptor(16, 3, TRUE)}

(* Two IPv4 addresses that come and go; IPv6 wildcards become the loopback. *)
MCInterfaces ==
    [k \in {1, 2} |-> IF k = 1 THEN {{}, {MCAddress("h1"), MCAddress("h2")}} ELSE {{}}]

MCGroupOf == [k \in {1, 2, 16} |-> MCAddress("group")]

MCLoopbackOf == [k \in {1, 2} |-> MCAddress("loopback")]

(* The locator of an interface, without a port.  Wildcards come from the    *)
(* defaults.                                                                *)
MCLocators == {MCLocator(1, 0, MCAddress("h1"))}

(* A port that 16 bits turn into 1: defaults cut it, fill_ does not.        *)
MCPorts == {65537}

(* Two lists that may hold the same two locators in different orders.       *)
MCMaxLen == (A :> 2) @@ (B :> 2)

(* The lists are alike.                                                     *)
MCSymmetry == Permutations(MCLists)
=============================================================================
