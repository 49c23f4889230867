-------------------------- MODULE ChannelDirectory --------------------------
(***************************************************************************)
(* What an application can rely on when it asks for channels by locator.   *)
(*                                                                         *)
(* The process keeps one directory for all its factories, with an entry    *)
(* for each locator in each direction.  A call is answered with the entry  *)
(* of the locator it asks for, which an answer writes once and nothing     *)
(* changes, or with nothing.  Nothing is an answer to the last: for a      *)
(* receiver whenever the call is refused, for a sender only while none has *)
(* been opened.                                                            *)
(***************************************************************************)
CONSTANTS
    Locators,       \* the locators an application asks for
    Resources,      \* the identities of resources
    Nothing,        \* the answer that is no resource
    Nowhere         \* the locator of what is not an answer

VARIABLES
    listener,       \* the receivers a locator was answered with
    speaker,        \* the senders a locator was answered with
    answer          \* the answer the last call got, if it asked for a locator

vars == <<listener, speaker, answer>>

Empty == [l \in Locators |-> {}]

Silence == [what |-> "none", locator |-> Nowhere, resource |-> Nothing]

Init == listener = Empty /\ speaker = Empty /\ answer = Silence

(* The answer r to l agrees with the entry there is, which it leaves as it  *)
(* is, or it writes the entry, with a resource that no other entry holds.   *)
Enter(before, after, l, r) ==
    /\ r \in Resources
    /\ before[l] \subseteq {r}
    /\ \A k \in Locators \ {l} : r \notin before[k]
    /\ after = [before EXCEPT ![l] = {r}]

AskListener(l) ==
    /\ \E r \in Resources \cup {Nothing} :
          /\ answer' = [what |-> "receiver", locator |-> l, resource |-> r]
          /\ \/ Enter(listener, listener', l, r)
             \/ r = Nothing /\ UNCHANGED listener
    /\ UNCHANGED speaker

AskSpeaker(l) ==
    /\ \E r \in Resources \cup {Nothing} :
          /\ answer' = [what |-> "sender", locator |-> l, resource |-> r]
          /\ \/ Enter(speaker, speaker', l, r)
             \/ r = Nothing /\ speaker[l] = {} /\ UNCHANGED speaker
    /\ UNCHANGED listener

(* Another call, or the loop. *)
Other == answer' = Silence /\ UNCHANGED <<listener, speaker>>

Next == Other \/ \E l \in Locators : AskListener(l) \/ AskSpeaker(l)

Spec == Init /\ [][Next]_vars

=============================================================================
