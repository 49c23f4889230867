------------------------------ MODULE SendQueue ------------------------------
(***************************************************************************)
(* Sending through the senders of the library.  A call hands the socket    *)
(* one request for each destination that the transport supports and        *)
(* returns; libuv passes a request to the kernel at once when it can, and  *)
(* from the event loop when the socket is writable again otherwise.  A     *)
(* request refers to the caller's buffer, whose content is read when the   *)
(* kernel gets it.                                                         *)
(***************************************************************************)
EXTENDS LocatorLists

CONSTANTS
    Senders,        \* the senders the application holds
    KindOf,         \* the kind of the transport of each
    Buffers,        \* its buffers
    Contents,       \* what it writes into them
    Freed,          \* what a buffer holds whose memory was given back
    Lost,           \* in place of a content: the kernel refused the datagram
    DestinationLists, \* the lists of locators it sends to
    MaxCalls        \* bound of the model: how often it sends

ASSUME ValuesAssumption ==
    /\ KindOf \in [Senders -> Int]
    /\ Freed \notin Contents /\ Lost \notin Contents \cup {Freed}
    /\ MaxCalls \in Nat

(* Of a locator, its kind and whether it is a group, and a name for its     *)
(* address and port.  No list holds a locator twice.                        *)
ASSUME ListsAssumption ==
    \A list \in DestinationLists :
        /\ list \in Seq([kind : Int, group : BOOLEAN, name : {l.name : l \in ToSet(list)}])
        /\ \A i, j \in DOMAIN list : list[i] = list[j] => i = j

VARIABLES
    buffer,         \* the content of each buffer
    queue,          \* by sender, the requests the kernel has not got yet
    wire,           \* by sender, the requests it has got, with what it read
    calls,          \* the calls of send, with the content at the time
    asked           \* by sender, the destinations its calls asked for

vars == <<buffer, queue, wire, calls, asked>>

Request(n, to, b) == [call |-> n, to |-> to, buffer |-> b]

-----------------------------------------------------------------------------
(* Every sender is built with the flags only_multicast_purpose false and    *)
(* whitelisted true.                                                        *)
OnlyMulticastPurpose == FALSE
Whitelisted == TRUE

(* The destinations a call sends to: send on a list takes those of its kind,*)
(* send on a locator those its flags let through.                           *)
MutDestinations(s, list) ==
    Kept(list, {l \in ToSet(list) : (l.group = OnlyMulticastPurpose) \/ Whitelisted})

Destinations(s, list) ==
    Kept(list, {l \in ToSet(list) : /\ l.kind = KindOf[s]
                                    /\ l.group = OnlyMulticastPurpose \/ Whitelisted})

Requests(n, s, b, list) ==
    [i \in DOMAIN Destinations(s, list) |-> Request(n, Destinations(s, list)[i], b)]

(* What identifies a request, waiting or passed: its call and destination.  *)
Tags(requests) == [i \in DOMAIN requests |-> <<requests[i].call, requests[i].to>>]

(* The kernel reads the buffer of a request, or refuses it. *)
Outcome(r, content, taken) ==
    [call |-> r.call, to |-> r.to, content |-> IF taken THEN content ELSE Lost]

-----------------------------------------------------------------------------
Init ==
    /\ buffer \in [Buffers -> Contents]
    /\ queue = [s \in Senders |-> <<>>]
    /\ wire = [s \in Senders |-> <<>>]
    /\ calls = <<>>
    /\ asked = [s \in Senders |-> <<>>]

(* The application writes its buffer, or gives the memory back and gets it  *)
(* again.                                                                   *)
WriteBuffer(b, c) ==
    /\ buffer[b] # c
    /\ buffer' = [buffer EXCEPT ![b] = c]
    /\ UNCHANGED <<queue, wire, calls, asked>>

(* send: libuv tries a request at once while none is waiting before it; `n' *)
(* of them get through before the socket would block.                       *)
Send(s, b, list) ==
    LET requests == Requests(Len(calls) + 1, s, b, list) IN
    /\ Len(calls) < MaxCalls
    /\ buffer[b] # Freed
    /\ asked' = [asked EXCEPT ![s] = @ \o Tags(requests)]
    /\ calls' = Append(calls, [sender |-> s, list |-> list, content |-> buffer[b]])
    /\ \E n \in 0..Len(requests) :
          /\ queue[s] # <<>> => n = 0
          /\ \E taken \in [1..n -> BOOLEAN] :
                wire' = [wire EXCEPT ![s] =
                    @ \o [i \in 1..n |-> Outcome(requests[i], buffer[b], taken[i])]]
          /\ queue' = [queue EXCEPT ![s] = @ \o SubSeq(requests, n + 1, Len(requests))]
    /\ UNCHANGED buffer

(* The loop finds the socket writable and passes on the first request.      *)
MutFlush(s) ==
    /\ queue[s] # <<>>
    /\ \E taken \in BOOLEAN :
          LET r == Last(queue[s]) IN
          wire' = [wire EXCEPT ![s] = Append(@, Outcome(r, buffer[r.buffer], taken))]
    /\ queue' = [queue EXCEPT ![s] = Front(@)]
    /\ UNCHANGED <<buffer, calls, asked>>

Flush(s) ==
    /\ queue[s] # <<>>
    /\ \E taken \in BOOLEAN :
          LET r == Head(queue[s]) IN
          wire' = [wire EXCEPT ![s] = Append(@, Outcome(r, buffer[r.buffer], taken))]
    /\ queue' = [queue EXCEPT ![s] = Tail(@)]
    /\ UNCHANGED <<buffer, calls, asked>>

Next ==
    \/ \E b \in Buffers, c \in Contents \cup {Freed} : WriteBuffer(b, c)
    \/ \E s \in Senders, b \in Buffers, list \in DestinationLists : Send(s, b, list)
    \/ \E s \in Senders : Flush(s)

(* The application runs the loop, which polls every socket that has         *)
(* requests waiting; it owes nobody a call.                                 *)
Fairness == \A s \in Senders : WF_vars(Flush(s))

Spec == Init /\ [][Next]_vars /\ Fairness

-----------------------------------------------------------------------------
(***************************************************************************)
(* Correctness.                                                            *)
(***************************************************************************)
Supported(s) ==
    {l \in UNION {ToSet(list) : list \in DestinationLists} : l.kind = KindOf[s]}

(* Requests and datagrams belong to calls that were made, and go to         *)
(* destinations of the kind of their socket.                                *)
TypeOK ==
    /\ buffer \in [Buffers -> Contents \cup {Freed}]
    /\ DOMAIN queue = Senders /\ DOMAIN wire = Senders /\ DOMAIN asked = Senders
    /\ \A s \in Senders :
          /\ asked[s] \in Seq((DOMAIN calls) \X Supported(s))
          /\ queue[s] \in Seq([call : DOMAIN calls, to : Supported(s), buffer : Buffers])
          /\ wire[s] \in Seq([call : DOMAIN calls, to : Supported(s),
                              content : Contents \cup {Freed, Lost}])
    /\ calls \in Seq([sender : Senders, list : DestinationLists, content : Contents])
    /\ Len(calls) <= MaxCalls

(* What the calls say sender s was to send, by call and destination, in     *)
(* their order.                                                             *)
Due(s, made) ==
    [n \in DOMAIN made |->
        IF made[n].sender # s THEN <<>>
        ELSE LET all == Kept(made[n].list, {l \in ToSet(made[n].list) : l.kind = KindOf[s]})
             IN  [i \in DOMAIN all |-> <<n, all[i]>>]]

Expected(s) == Chained(Due(s, calls))

Passed(s) == Tags(wire[s])
Waiting(s) == Tags(queue[s])

(* Each destination of the sender's kind gets the datagram of each call     *)
(* once, in the order of the calls and of their lists, and no other         *)
(* destination gets one, however often the socket blocks.                   *)
OnceAndInOrder ==
    \A s \in Senders : /\ Passed(s) \o Waiting(s) = asked[s]
                       /\ asked[s] = Expected(s)

-----------------------------------------------------------------------------
(***************************************************************************)
(* What the application may take for granted.                              *)
(***************************************************************************)
Out == INSTANCE Outbox WITH
    passed <- [s \in Senders |-> Passed(s)],
    MaxAsked <- MaxCalls * Max({Len(list) : list \in DestinationLists})

(* Each sender is an outbox that empties in order, however requests are     *)
(* divided between the call that makes them and the loop.                   *)
OutboxSpec == Out!Spec

-----------------------------------------------------------------------------
(* UDPTransportInterface.h:71-73: a "Blocking Send" of a "Slice into the    *)
(* raw data to send", so that what leaves is what the call was given.       *)
WhatWasGivenIsSent ==
    \A s \in Senders : \A i \in DOMAIN wire[s] :
        wire[s][i].content \in {calls[wire[s][i].call].content, Lost}

=============================================================================
