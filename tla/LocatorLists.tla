---------------------------- MODULE LocatorLists ----------------------------
(***************************************************************************)
(* Class LocatorList (type.h): a vector of locators that its own           *)
(* operations keep free of duplicates.  A list is a sequence of locators;  *)
(* of a locator the lists see only operator==, which is equality here.     *)
(***************************************************************************)
EXTENDS Integers, Sequences, SequencesExt, Functions, SeqFolds

NoDuplicates(list) == IsInjective(list)

(* operator==: as many elements, and each of other's is in this list. *)
MutSameList(list, other) == Len(other) = Len(list)

SameList(list, other) ==
    /\ Len(other) = Len(list)
    /\ \A j \in DOMAIN other : \E i \in DOMAIN list : other[j] = list[i]

(* assign: a list that already compares equal is left as it is. *)
Assigned(list, other) == IF SameList(list, other) THEN list ELSE other

(* push_back of a locator that may already be there. *)
MutPushed(list, l) == Append(list, l)

Pushed(list, l) ==
    IF \E i \in DOMAIN list : l = list[i] THEN list ELSE Append(list, l)

(* push_back of every locator of another list, in its order. *)
PushedAll(list, other) == FoldLeft(Pushed, list, other)

(* The lists of `parts', pushed one after the other onto an empty list.      *)
Joined(parts) == FoldLeft(PushedAll, <<>>, parts)

(* erase of the element an iterator points at. *)
Erased(list, i) == RemoveAt(list, i)
=============================================================================
