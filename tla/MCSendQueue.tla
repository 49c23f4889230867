----------------------------- MODULE MCSendQueue -----------------------------
(***************************************************************************)
(* SendQueue on small instances.                                           *)
(***************************************************************************)
EXTENDS SendQueue, TLC

CONSTANTS S1, S2    \* a sender of each UDP kind

MCSenders == {S1, S2}
MCKindOf == (S1 :> 1) @@ (S2 :> 2)

MCTo(kind, group, name) == [kind |-> kind, group |-> group, name |-> name]

(* A group and a host of one kind about a locator of the other, and a list  *)
(* none of whose locators is of the first.                                  *)
MCDestinationLists ==
    {<<MCTo(1, TRUE, "group"), MCTo(2, FALSE, "host6"), MCTo(1, FALSE, "host")>>,
     <<MCTo(2, FALSE, "other6")>>}
=============================================================================
