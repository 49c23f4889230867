--------------------------- MODULE MCLocatorParts ---------------------------
(***************************************************************************)
(* LocatorParts on small instances.                                        *)
(***************************************************************************)
EXTENDS LocatorParts

MCText(numbers, rest) == [numbers |-> numbers, rest |-> rest]

(* Addresses, one with a number that is no octet, one with something behind *)
(* it, a text too short for either, and LAN identifiers.                    *)
MCTexts ==
    {MCText(<<127, 0, 0, 1>>, FALSE), MCText(<<300, 0, 0, 255>>, FALSE),
     MCText(<<10, 0, 0, 2>>, TRUE), MCText(<<10, 1>>, TRUE),
     MCText(<<1, 2, 3, 4, 5, 6, 7, 8>>, FALSE)}

MCOctetLists == {<<0, 0, 0, 0>>, <<0, 0, 0, 1>>, <<255, 255, 0, 1>>}

MCLocator(kind, port, octets) ==
    [kind |-> kind, port |-> port, address |-> [i \in 0..15 |-> octets[i + 1]]]

MCZeros(n) == [i \in 1..n |-> 0]

(* Locators that differ in one part (the LAN identifier included) or in     *)
(* several, with ports whose order as numbers is not that of their octets.  *)
MCCompared ==
    LET lan == <<1, 2, 3, 4, 5, 6, 7, 8>>
        host == <<10, 0, 0, 2>>
    IN  {MCLocator(1, 0, MCZeros(16)), MCLocator(1, 7, MCZeros(16)),
         MCLocator(1, 256, MCZeros(12) \o host), MCLocator(1, 65536, MCZeros(12) \o host),
         MCLocator(4, 7, lan \o MCZeros(8)), MCLocator(4, 7, [lan EXCEPT ![8] = 0] \o MCZeros(8)),
         MCLocator(4, 7, lan \o host \o host), MCLocator(16, 1, MCZeros(8) \o host \o MCZeros(4))}
=============================================================================
