------------------------------- MODULE Outbox -------------------------------
(***************************************************************************)
(* What sending promises an application: for each sender an outbox that    *)
(* only grows, of which the network gets a prefix that only grows.  What   *)
(* was asked for first leaves first, once, and everything leaves in the    *)
(* end; whether it arrives is not promised.                                *)
(***************************************************************************)
EXTENDS Integers, Sequences, SequencesExt

CONSTANTS
    Senders,        \* the senders
    MaxAsked        \* bound of the model: how much is asked of a sender

VARIABLES
    asked,          \* by sender, what it was asked to send, in order
    passed          \* by sender, what the network got from it, in order

vars == <<asked, passed>>

Init ==
    /\ asked = [s \in Senders |-> <<>>]
    /\ passed = [s \in Senders |-> <<>>]

(* More is asked of s, or the network gets what is next, or both at once.   *)
Progress(s) ==
    /\ IsPrefix(asked[s], asked'[s])
    /\ IsPrefix(passed[s], passed'[s])
    /\ IsPrefix(passed'[s], asked'[s])

Next ==
    /\ \A s \in Senders : Progress(s)
    /\ DOMAIN asked' = Senders /\ DOMAIN passed' = Senders

Safety == Init /\ [][Next]_vars

(* However much was asked of a sender, the network gets as much.            *)
AllLeaves ==
    \A s \in Senders, n \in 1..MaxAsked : Len(asked[s]) >= n ~> Len(passed[s]) >= n

Spec == Safety /\ AllLeaves

=============================================================================
