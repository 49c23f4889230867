----------------------------- MODULE MCIpv6Text -----------------------------
(***************************************************************************)
(* Ipv6Text on small instances.                                            *)
(***************************************************************************)
EXTENDS Ipv6Text

(* Every pattern of zero and other groups. *)
MCAddresses == [1..8 -> {0, 65535}]

(* A text from what is between its colons, <<>> for nothing.                *)
MCText(fields, zone) ==
    [tokens |-> FlattenSeq([i \in DOMAIN fields |->
                   IF i = 1 THEN fields[i] ELSE <<Colon>> \o fields[i]]),
     zone |-> zone]

(* The fields of a text with n of them; `empty' are without a quartet.      *)
MCFields(n, empty) == [i \in 1..n |-> IF i \in empty THEN <<>> ELSE <<i>>]

(* Every text of up to four colons. *)
MCShort == UNION {{MCFields(n, empty) : empty \in SUBSET (1..n)} : n \in 1..5}

(* Of eight numbers and nine, one more than any address has, with a "::" at *)
(* either end or between.                                                   *)
MCLong == {MCFields(8, empty) : empty \in {{}, {4}, {1, 2}, {7, 8}}}
          \cup {MCFields(9, empty) : empty \in {{}, {1, 2}, {8, 9}, {5}}}
          \cup {MCFields(10, {1, 2})}

MCTexts ==
    {MCText(fields, FALSE) : fields \in MCShort \cup MCLong}
    \cup {MCText(fields, TRUE) : fields \in {MCFields(n, {2}) : n \in 2..4}
                                             \cup {MCFields(3, {2, 3}), MCFields(8, {})}}
    \cup {MCText(<<<<1>>, <<>>, <<Malformed>>>>, FALSE)}
=============================================================================
