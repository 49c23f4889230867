---------------------------- MODULE SendQueueProofs ----------------------------
(***************************************************************************)
(* Proofs about SendQueue: that every request belongs to a call and goes   *)
(* to a destination of it, that each is passed on once and in order, and   *)
(* that each sender is an outbox.                                          *)
(***************************************************************************)
EXTENDS SendQueue, ListTheorems, TLAPS

-----------------------------------------------------------------------------
(***************************************************************************)
(* Destinations and requests.                                              *)
(***************************************************************************)
OfKind(s, list) == {l \in ToSet(list) : l.kind = KindOf[s]}

(* Both flags of a sender let every locator of its kind through.            *)
LEMMA DestinationsOfKind ==
    ASSUME NEW s \in Senders, NEW list \in DestinationLists
    PROVE  /\ Destinations(s, list) = Kept(list, OfKind(s, list))
           /\ Destinations(s, list) \in Seq(Supported(s))
<1>1. OfKind(s, list) = {l \in ToSet(list) : /\ l.kind = KindOf[s]
                                             /\ l.group = OnlyMulticastPurpose \/ Whitelisted}
  BY DEF OfKind, Whitelisted
<1>2. Destinations(s, list) = Kept(list, OfKind(s, list))
  BY <1>1 DEF Destinations
<1>3. list \in Seq(ToSet(list))
  BY ListsAssumption, OfItsElements
<1>4. Kept(list, OfKind(s, list)) \in Seq(ToSet(list) \cap OfKind(s, list))
  BY <1>3, KeptHolds
<1>5. ToSet(list) \cap OfKind(s, list) \subseteq Supported(s)
  BY DEF OfKind, Supported
<1>6. Destinations(s, list) \in Seq(Supported(s))
  BY <1>2, <1>4, <1>5, LargerSeq
<1> QED
  BY <1>2, <1>6

(* A call makes a request for each of its destinations, in their order.     *)
LEMMA RequestsOfCall ==
    ASSUME NEW n \in Nat, NEW s \in Senders, NEW b \in Buffers, NEW list \in DestinationLists
    PROVE  /\ Requests(n, s, b, list) \in Seq([call : {n}, to : Supported(s), buffer : {b}])
           /\ Tags(Requests(n, s, b, list))
                = [i \in DOMAIN Destinations(s, list) |-> <<n, Destinations(s, list)[i]>>]
           /\ Tags(Requests(n, s, b, list)) \in Seq({n} \X Supported(s))
<1> DEFINE to == Destinations(s, list)
           requests == Requests(n, s, b, list)
<1>1. to \in Seq(Supported(s))
  BY DestinationsOfKind
<1>2. requests = [i \in DOMAIN to |-> Request(n, to[i], b)]
  BY DEF Requests
<1> HIDE DEF to, requests
<1>3. DOMAIN to = 1..Len(to) /\ Len(to) \in Nat /\ \A i \in 1..Len(to) : to[i] \in Supported(s)
  BY <1>1
<1>4. requests \in [1..Len(to) -> [call : {n}, to : Supported(s), buffer : {b}]]
  BY <1>2, <1>3 DEF Request
<1>5. requests \in Seq([call : {n}, to : Supported(s), buffer : {b}])
  BY <1>3, <1>4, FunctionIsSeq
<1>6. Tags(requests) = [i \in DOMAIN to |-> <<n, to[i]>>]
  BY <1>2 DEF Tags, Request
<1>7. Tags(requests) \in Seq({n} \X Supported(s))
  <2>1. Tags(requests) \in [1..Len(to) -> {n} \X Supported(s)]
    BY <1>3, <1>6
  <2> HIDE DEF Tags
  <2> QED
    BY <1>3, <2>1, FunctionIsSeq
<1> QED
  BY <1>5, <1>6, <1>7 DEF to, requests

LEMMA TagsConcatenated ==
    ASSUME NEW S, NEW a \in Seq(S), NEW b \in Seq(S)
    PROVE  Tags(a \o b) = Tags(a) \o Tags(b)
<1> DEFINE T == {<<r.call, r.to>> : r \in S}
<1>1. ASSUME NEW c \in Seq(S)
      PROVE  /\ Tags(c) \in Seq(T) /\ Len(Tags(c)) = Len(c)
             /\ \A i \in 1..Len(c) : Tags(c)[i] = <<c[i].call, c[i].to>>
  <2>1. DOMAIN c = 1..Len(c) /\ Len(c) \in Nat /\ \A i \in 1..Len(c) : c[i] \in S
    OBVIOUS
  <2>2. Tags(c) = [i \in 1..Len(c) |-> <<c[i].call, c[i].to>>]
    BY <2>1 DEF Tags
  <2>3. Tags(c) \in [1..Len(c) -> T]
    BY <2>1, <2>2
  <2> HIDE DEF T
  <2>4. Tags(c) \in Seq(T) /\ Len(Tags(c)) = Len(c)
    BY <2>1, <2>3, FunctionIsSeq
  <2> QED
    BY <2>2, <2>4
<1> HIDE DEF T
<1>2. a \o b \in Seq(S) /\ Len(a \o b) = Len(a) + Len(b)
  BY Concatenation
<1>3. /\ Tags(a) \o Tags(b) \in Seq(T)
      /\ Len(Tags(a) \o Tags(b)) = Len(Tags(a)) + Len(Tags(b))
  BY <1>1
<1>4. \A i \in 1..Len(a) + Len(b) : Tags(a \o b)[i] = (Tags(a) \o Tags(b))[i]
  <2> TAKE i \in 1..Len(a) + Len(b)
  <2>0. i \in Int /\ Len(a) \in Nat /\ Len(b) \in Nat
    OBVIOUS
  <2>1. Tags(a \o b)[i] = <<(a \o b)[i].call, (a \o b)[i].to>>
    BY <1>1, <1>2
  <2>2. CASE i <= Len(a)
    <3>1. (a \o b)[i] = a[i] /\ (Tags(a) \o Tags(b))[i] = Tags(a)[i] /\ i \in 1..Len(a)
      BY <1>1, <2>0, <2>2
    <3> QED
      BY <1>1, <2>1, <3>1
  <2>3. CASE i > Len(a)
    <3> DEFINE j == i - Len(a)
    <3>1. j \in 1..Len(b) /\ i = j + Len(a)
      BY <2>0, <2>3
    <3> HIDE DEF j
    <3>2. (a \o b)[i] = b[j]
      BY <3>1, Concatenation
    <3>3. (Tags(a) \o Tags(b))[j + Len(Tags(a))] = Tags(b)[j]
      <4>1. Tags(a) \in Seq(T) /\ Tags(b) \in Seq(T) /\ j \in 1..Len(Tags(b))
        BY <1>1, <3>1
      <4> QED
        BY <4>1, Concatenation
    <3>4. (Tags(a) \o Tags(b))[i] = Tags(b)[j]
      BY <1>1, <3>1, <3>3
    <3> QED
      BY <1>1, <2>1, <3>1, <3>2, <3>4
  <2>4. i <= Len(a) \/ i > Len(a)
    BY <2>0
  <2> QED
    BY <2>2, <2>3, <2>4, Zenon
<1>5. Len(Tags(a \o b)) = Len(a) + Len(b) /\ Tags(a \o b) \in Seq(T)
  BY <1>1, <1>2
<1>6. Len(Tags(a) \o Tags(b)) = Len(a) + Len(b)
  BY <1>1, <1>3
<1> QED
  BY <1>3, <1>4, <1>5, <1>6, Extensional

(* What the kernel gets of a request keeps its call and its destination.    *)
Outcomes(requests, n, content, taken) ==
    [i \in 1..n |-> Outcome(requests[i], content, taken[i])]

Asked(C, D, B) == [call : C, to : D, buffer : B]

Got(C, D, E) == [call : C, to : D, content : E \cup {Lost}]

LEMMA OutcomeTags ==
    ASSUME NEW S, NEW requests \in Seq(S), NEW n \in 0..Len(requests), NEW content, NEW taken
    PROVE  Tags(Outcomes(requests, n, content, taken)) = Tags(SubSeq(requests, 1, n))
<1> DEFINE o == Outcomes(requests, n, content, taken)
<1>1. n \in Nat /\ \A i \in 1..n : i \in 1..Len(requests)
  OBVIOUS
<1>2. /\ DOMAIN o = 1..n
      /\ \A i \in 1..n : o[i].call = requests[i].call /\ o[i].to = requests[i].to
  BY DEF Outcomes, Outcome
<1> HIDE DEF o
<1>3. Tags(o) = [i \in 1..n |-> <<requests[i].call, requests[i].to>>]
  BY <1>2 DEF Tags
<1>4. /\ DOMAIN SubSeq(requests, 1, n) = 1..n
      /\ \A i \in 1..n : SubSeq(requests, 1, n)[i] = requests[i]
  BY <1>1
<1>5. Tags(SubSeq(requests, 1, n)) = [i \in 1..n |-> <<requests[i].call, requests[i].to>>]
  BY <1>4 DEF Tags
<1> QED
  BY <1>3, <1>5 DEF o

LEMMA OutcomesOf ==
    ASSUME NEW C, NEW D, NEW B, NEW E, NEW requests \in Seq(Asked(C, D, B)),
           NEW n \in 0..Len(requests), NEW content \in E, NEW taken \in [1..n -> BOOLEAN]
    PROVE  Outcomes(requests, n, content, taken) \in Seq(Got(C, D, E))
<1> DEFINE R == Asked(C, D, B)
           o == Outcomes(requests, n, content, taken)
<1>1. n \in Nat /\ \A i \in 1..n : i \in 1..Len(requests)
  OBVIOUS
<1>2. \A i \in 1..n : requests[i].call \in C /\ requests[i].to \in D
  <2>1. \A i \in 1..Len(requests) : requests[i] \in R
    <3> HIDE DEF R
    <3>1. requests \in Seq(R)
      BY DEF R
    <3> QED
      BY <3>1
  <2>2. \A r \in R : r.call \in C /\ r.to \in D
    BY DEF Asked
  <2> HIDE DEF R
  <2> QED
    BY <1>1, <2>1, <2>2
<1>3. o = [i \in 1..n |-> Outcome(requests[i], content, taken[i])]
  BY DEF Outcomes
<1> HIDE DEF o
<1>4. \A i \in 1..n : /\ Outcome(requests[i], content, taken[i])
                           \in Got(C, D, E)
  BY <1>2 DEF Outcome, Got
<1>5. o \in [1..n -> Got(C, D, E)]
  BY <1>3, <1>4
<1>6. o \in Seq(Got(C, D, E))
  BY <1>1, <1>5, FunctionIsSeq
<1> QED
  BY <1>6 DEF o

-----------------------------------------------------------------------------
(***************************************************************************)
(* Types.  What a sender holds, for a set of calls.                        *)
(***************************************************************************)
RequestOf(C, s) == [call : C, to : Supported(s), buffer : Buffers]

PassedOf(C, s) == [call : C, to : Supported(s), content : Contents \cup {Freed, Lost}]

Holds(s, C, a, q, w) ==
    a \in Seq(C \X Supported(s)) /\ q \in Seq(RequestOf(C, s)) /\ w \in Seq(PassedOf(C, s))

LEMMA MoreCalls ==
    ASSUME NEW s, NEW C, NEW D, C \subseteq D, NEW a, NEW q, NEW w, Holds(s, C, a, q, w)
    PROVE  Holds(s, D, a, q, w)
<1>1. /\ C \X Supported(s) \subseteq D \X Supported(s)
      /\ RequestOf(C, s) \subseteq RequestOf(D, s) /\ PassedOf(C, s) \subseteq PassedOf(D, s)
  BY DEF RequestOf, PassedOf
<1>2. /\ a \in Seq(C \X Supported(s)) /\ q \in Seq(RequestOf(C, s)) /\ w \in Seq(PassedOf(C, s))
  BY DEF Holds
<1>3. a \in Seq(D \X Supported(s))
  BY <1>1, <1>2, LargerSeq
<1>4. q \in Seq(RequestOf(D, s))
  BY <1>1, <1>2, LargerSeq
<1>5. w \in Seq(PassedOf(D, s))
  BY <1>1, <1>2, LargerSeq
<1> QED
  BY <1>3, <1>4, <1>5 DEF Holds

LEMMA HoldsMore ==
    ASSUME NEW s, NEW C, NEW a, NEW q, NEW w, Holds(s, C, a, q, w),
           NEW b, NEW r, NEW x, Holds(s, C, b, r, x)
    PROVE  Holds(s, C, a \o b, q \o r, w \o x)
<1>1. ASSUME NEW S, NEW c \in Seq(S), NEW d \in Seq(S)
      PROVE  c \o d \in Seq(S)
  OBVIOUS
<1> QED
  BY <1>1 DEF Holds

LEMMA TypeOfSenders ==
    TypeOK <=> /\ buffer \in [Buffers -> Contents \cup {Freed}]
               /\ DOMAIN queue = Senders /\ DOMAIN wire = Senders /\ DOMAIN asked = Senders
               /\ \A s \in Senders : Holds(s, DOMAIN calls, asked[s], queue[s], wire[s])
               /\ calls \in Seq([sender : Senders, list : DestinationLists, content : Contents])
               /\ Len(calls) <= MaxCalls
BY DEF TypeOK, Holds, RequestOf, PassedOf

(* What call k of send asks for is partly with the kernel afterwards,       *)
(* partly waiting, in its order.                                            *)
Divided(k, s, b, list, left, out, sent) ==
    /\ sent = Tags(Requests(k, s, b, list))
    /\ Holds(s, {k}, sent, left, out)
    /\ asked' = [asked EXCEPT ![s] = @ \o sent]
    /\ queue' = [queue EXCEPT ![s] = @ \o left]
    /\ wire' = [wire EXCEPT ![s] = @ \o out]
    /\ Tags(out) \o Tags(left) = sent
    /\ queue[s] # <<>> => out = <<>>

LEMMA SendDoes ==
    ASSUME TypeOK, NEW s \in Senders, NEW b \in Buffers, NEW list \in DestinationLists,
           Send(s, b, list)
    PROVE  /\ Len(calls) < MaxCalls /\ buffer' = buffer
           /\ calls' = Append(calls, [sender |-> s, list |-> list, content |-> buffer[b]])
           /\ buffer[b] \in Contents
           /\ \E left, out, sent : Divided(Len(calls) + 1, s, b, list, left, out, sent)
<1> DEFINE k == Len(calls) + 1
           requests == Requests(k, s, b, list)
<1>1. /\ Len(calls) < MaxCalls /\ buffer[b] # Freed /\ buffer' = buffer
      /\ asked' = [asked EXCEPT ![s] = @ \o Tags(requests)]
      /\ calls' = Append(calls, [sender |-> s, list |-> list, content |-> buffer[b]])
  BY DEF Send
<1>2. PICK n \in 0..Len(requests) :
          /\ queue[s] # <<>> => n = 0
          /\ \E taken \in [1..n -> BOOLEAN] :
                wire' = [wire EXCEPT ![s] =
                    @ \o [i \in 1..n |-> Outcome(requests[i], buffer[b], taken[i])]]
          /\ queue' = [queue EXCEPT ![s] = @ \o SubSeq(requests, n + 1, Len(requests))]
  BY DEF Send
<1>3. PICK taken \in [1..n -> BOOLEAN] :
          wire' = [wire EXCEPT ![s] = @ \o Outcomes(requests, n, buffer[b], taken)]
  BY <1>2 DEF Outcomes
<1>4. buffer[b] \in Contents
  BY <1>1 DEF TypeOK
<1>5. /\ requests \in Seq([call : {k}, to : Supported(s), buffer : {b}])
      /\ Tags(requests) \in Seq({k} \X Supported(s))
  <2>1. k \in Nat
    BY DEF TypeOK
  <2> HIDE DEF k
  <2> QED
    BY <2>1, RequestsOfCall
<1> DEFINE R == [call : {k}, to : Supported(s), buffer : {b}]
           left == SubSeq(requests, n + 1, Len(requests))
           out == Outcomes(requests, n, buffer[b], taken)
<1> HIDE DEF requests, k
<1>6. SubSeq(requests, 1, n) \in Seq(R) /\ left \in Seq(R) /\ SubSeq(requests, 1, n) \o left = requests
  <2> HIDE DEF R
  <2>1. requests \in Seq(R)
    BY <1>5 DEF R
  <2> QED
    BY <2>1, SplitAt
<1>7. /\ out \in Seq(Got({k}, Supported(s), Contents))
      /\ Tags(out) = Tags(SubSeq(requests, 1, n))
  <2>1. requests \in Seq(Asked({k}, Supported(s), {b}))
    BY <1>5 DEF Asked
  <2>2. out \in Seq(Got({k}, Supported(s), Contents))
    BY <1>4, <2>1, OutcomesOf
  <2>3. Tags(out) = Tags(SubSeq(requests, 1, n))
    BY <2>1, OutcomeTags
  <2> QED
    BY <2>2, <2>3
<1>8. out \in Seq(PassedOf({k}, s))
  <2>1. Got({k}, Supported(s), Contents) \subseteq PassedOf({k}, s)
    BY DEF PassedOf, Got
  <2> HIDE DEF out
  <2> QED
    BY <1>7, <2>1, LargerSeq
<1>9. left \in Seq(RequestOf({k}, s))
  <2>1. R \subseteq RequestOf({k}, s)
    BY DEF RequestOf
  <2> HIDE DEF left, R
  <2> QED
    BY <1>6, <2>1, LargerSeq
<1>10. Tags(out) \o Tags(left) = Tags(requests)
  <2> DEFINE first == SubSeq(requests, 1, n)
  <2>1. first \in Seq(R) /\ left \in Seq(R) /\ first \o left = requests
    BY <1>6
  <2> HIDE DEF first, left, R, out
  <2>2. Tags(first \o left) = Tags(first) \o Tags(left)
    BY <2>1, TagsConcatenated
  <2> QED
    BY <1>7, <2>1, <2>2 DEF first
<1>11. queue[s] # <<>> => out = <<>>
  BY <1>2 DEF Outcomes
<1> HIDE DEF left, out
<1>12. Holds(s, {k}, Tags(requests), left, out)
  BY <1>5, <1>8, <1>9 DEF Holds
<1>13. Divided(k, s, b, list, left, out, Tags(requests))
  <2>1. queue' = [queue EXCEPT ![s] = @ \o left]
    BY <1>2 DEF left
  <2>2. wire' = [wire EXCEPT ![s] = @ \o out]
    BY <1>3 DEF out
  <2>3. requests = Requests(k, s, b, list)
    BY DEF requests
  <2> QED
    BY <1>1, <1>10, <1>11, <1>12, <2>1, <2>2, <2>3, Zenon DEF Divided
<1> QED
  BY <1>1, <1>4, <1>13 DEF k

(* The loop passes the first request of a queue on.                         *)
LEMMA FlushDoes ==
    ASSUME TypeOK, NEW s \in Senders, Flush(s)
    PROVE  \E r \in RequestOf(DOMAIN calls, s), x \in PassedOf(DOMAIN calls, s) :
              /\ <<r.call, r.to>> = <<x.call, x.to>>
              /\ queue[s] = <<r>> \o Tail(queue[s]) /\ Tail(queue[s]) \in Seq(RequestOf(DOMAIN calls, s))
              /\ queue' = [queue EXCEPT ![s] = Tail(@)]
              /\ wire' = [wire EXCEPT ![s] = @ \o <<x>>]
              /\ UNCHANGED <<buffer, calls, asked>>
<1> DEFINE r == Head(queue[s])
<1>1. /\ queue[s] # <<>>
      /\ queue' = [queue EXCEPT ![s] = Tail(@)]
      /\ UNCHANGED <<buffer, calls, asked>>
  BY DEF Flush
<1>2. PICK taken \in BOOLEAN :
          wire' = [wire EXCEPT ![s] = Append(@, Outcome(r, buffer[r.buffer], taken))]
  BY DEF Flush
<1>3. /\ buffer \in [Buffers -> Contents \cup {Freed}]
      /\ queue[s] \in Seq(RequestOf(DOMAIN calls, s)) /\ wire[s] \in Seq(PassedOf(DOMAIN calls, s))
      /\ s \in DOMAIN wire
  BY TypeOfSenders DEF Holds
<1> DEFINE R == RequestOf(DOMAIN calls, s)
           x == Outcome(r, buffer[r.buffer], taken)
<1>4. \A q \in Seq(R) : q # <<>> =>
         Head(q) \in R /\ Tail(q) \in Seq(R) /\ q = <<Head(q)>> \o Tail(q)
  <2> HIDE DEF R
  <2>1. ASSUME NEW q \in Seq(R), q # <<>>
        PROVE  Head(q) \in R /\ Tail(q) \in Seq(R) /\ q = <<Head(q)>> \o Tail(q)
    <3>1. Head(q) \in R /\ Tail(q) \in Seq(R) /\ Len(q) \in Nat /\ Len(q) > 0
      BY <2>1
    <3> DEFINE p == <<Head(q)>> \o Tail(q)
    <3>2. p \in Seq(R) /\ Len(p) = Len(q)
      BY <2>1, <3>1
    <3>3. \A i \in 1..Len(q) : p[i] = q[i]
      BY <2>1, <3>1
    <3> HIDE DEF p
    <3>4. p = q
      BY <3>2, <3>3, Extensional
    <3> QED
      BY <3>1, <3>4 DEF p
  <2> QED
    BY <2>1
<1>5. r \in R /\ Tail(queue[s]) \in Seq(R) /\ queue[s] = <<r>> \o Tail(queue[s])
  BY <1>1, <1>3, <1>4
<1> HIDE DEF r
<1>6. x \in PassedOf(DOMAIN calls, s) /\ <<r.call, r.to>> = <<x.call, x.to>>
  BY <1>3, <1>5 DEF Outcome, RequestOf, PassedOf
<1> HIDE DEF x, R
<1>7. wire' = [wire EXCEPT ![s] = @ \o <<x>>]
  <2>1. Append(wire[s], x) = wire[s] \o <<x>>
    BY <1>3, <1>6
  <2>2. wire' = [wire EXCEPT ![s] = Append(wire[s], x)]
    BY <1>2 DEF x
  <2> QED
    BY <2>1, <2>2
<1> QED
  BY <1>1, <1>5, <1>6, <1>7 DEF R

-----------------------------------------------------------------------------
Calls == [sender : Senders, list : DestinationLists, content : Contents]

LEMMA InitHolds ==
    ASSUME Init
    PROVE  TypeOK
<1>1. \A s \in Senders : Holds(s, {}, <<>>, <<>>, <<>>)
  BY DEF Holds
<1>2. calls = <<>> /\ DOMAIN calls = {} /\ Len(calls) = 0 /\ calls \in Seq(Calls)
  BY DEF Init
<1>3. /\ buffer \in [Buffers -> Contents \cup {Freed}]
      /\ DOMAIN queue = Senders /\ DOMAIN wire = Senders /\ DOMAIN asked = Senders
      /\ \A s \in Senders : queue[s] = <<>> /\ wire[s] = <<>> /\ asked[s] = <<>>
  BY DEF Init
<1>4. Len(calls) <= MaxCalls
  BY <1>2, ValuesAssumption
<1>5. \A s \in Senders : Holds(s, DOMAIN calls, asked[s], queue[s], wire[s])
  BY <1>1, <1>2, <1>3, Zenon
<1> QED
  BY <1>2, <1>3, <1>4, <1>5, TypeOfSenders DEF Calls

(* A call more: the calls before it keep their numbers.                     *)
LEMMA CallAppended ==
    ASSUME NEW S, NEW made \in Seq(S), NEW c \in S
    PROVE  /\ Append(made, c) \in Seq(S) /\ Len(Append(made, c)) = Len(made) + 1
           /\ DOMAIN made = 1..Len(made) /\ Len(made) \in Nat
           /\ DOMAIN Append(made, c) = 1..Len(made) + 1
           /\ DOMAIN made \subseteq DOMAIN Append(made, c)
           /\ {Len(made) + 1} \subseteq DOMAIN Append(made, c)
           /\ \A n \in DOMAIN made : Append(made, c)[n] = made[n]
           /\ Append(made, c)[Len(made) + 1] = c
OBVIOUS

LEMMA SendKeepsType ==
    ASSUME TypeOK, NEW s \in Senders, NEW b \in Buffers, NEW list \in DestinationLists,
           Send(s, b, list)
    PROVE  TypeOK'
<1> DEFINE k == Len(calls) + 1
           D == DOMAIN calls'
           c == [sender |-> s, list |-> list, content |-> buffer[b]]
<1>1. /\ buffer \in [Buffers -> Contents \cup {Freed}]
      /\ DOMAIN queue = Senders /\ DOMAIN wire = Senders /\ DOMAIN asked = Senders
      /\ \A u \in Senders : Holds(u, DOMAIN calls, asked[u], queue[u], wire[u])
      /\ calls \in Seq(Calls)
      /\ Len(calls) <= MaxCalls
  BY TypeOfSenders DEF Calls
<1>2. /\ Len(calls) < MaxCalls /\ buffer' = buffer
      /\ calls' = Append(calls, c)
      /\ buffer[b] \in Contents
  BY SendDoes
<1>3. PICK left, out, sent :
          Divided(k, s, b, list, left, out, sent)
  BY SendDoes
<1>4. /\ Holds(s, {k}, sent, left, out)
       /\ asked' = [asked EXCEPT ![s] = @ \o sent]
       /\ queue' = [queue EXCEPT ![s] = @ \o left]
       /\ wire' = [wire EXCEPT ![s] = @ \o out]
  BY <1>3 DEF Divided
<1>5. c \in Calls
  BY <1>2 DEF Calls
<1> HIDE DEF c
<1>6. /\ calls' \in Seq(Calls) /\ Len(calls') = Len(calls) + 1
      /\ DOMAIN calls \subseteq D /\ {k} \subseteq D
  BY <1>1, <1>2, <1>5, CallAppended
<1>7. Len(calls') <= MaxCalls
  BY <1>1, <1>2, <1>6, ValuesAssumption
<1> HIDE DEF k, D
<1>8. \A u \in Senders : Holds(u, D, asked'[u], queue'[u], wire'[u])
  <2> TAKE u \in Senders
  <2>1. Holds(u, D, asked[u], queue[u], wire[u])
    BY <1>1, <1>6, MoreCalls
  <2>2. CASE u = s
    <3>1. Holds(s, D, sent, left, out)
      BY <1>4, <1>6, MoreCalls
    <3>2. Holds(s, D, asked[s] \o sent, queue[s] \o left, wire[s] \o out)
      BY <2>1, <2>2, <3>1, HoldsMore
    <3>3. /\ asked'[s] = asked[s] \o sent /\ queue'[s] = queue[s] \o left
          /\ wire'[s] = wire[s] \o out
      BY <1>1, <1>4
    <3> QED
      BY <2>2, <3>2, <3>3, Zenon
  <2>3. CASE u # s
    <3>1. asked'[u] = asked[u] /\ queue'[u] = queue[u] /\ wire'[u] = wire[u]
      BY <1>1, <1>4, <2>3
    <3> QED
      BY <2>1, <3>1, Zenon
  <2> QED
    BY <2>2, <2>3
<1>9. DOMAIN queue' = Senders /\ DOMAIN wire' = Senders /\ DOMAIN asked' = Senders
  BY <1>1, <1>4
<1>10. buffer' \in [Buffers -> Contents \cup {Freed}]
  BY <1>1, <1>2
<1>11. calls' \in Seq(Calls)
  BY <1>6
<1>12. \A u \in Senders :
          /\ asked'[u] \in Seq(D \X Supported(u))
          /\ queue'[u] \in Seq([call : D, to : Supported(u), buffer : Buffers])
          /\ wire'[u] \in Seq([call : D, to : Supported(u),
                               content : Contents \cup {Freed, Lost}])
  BY <1>8 DEF Holds, RequestOf, PassedOf
<1> QED
  BY <1>7, <1>9, <1>10, <1>11, <1>12, Zenon DEF TypeOK, Calls, D

LEMMA FlushKeepsType ==
    ASSUME TypeOK, NEW s \in Senders, Flush(s)
    PROVE  TypeOK'
<1> DEFINE C == DOMAIN calls
<1>1. /\ buffer \in [Buffers -> Contents \cup {Freed}]
      /\ DOMAIN queue = Senders /\ DOMAIN wire = Senders /\ DOMAIN asked = Senders
      /\ \A u \in Senders : Holds(u, C, asked[u], queue[u], wire[u])
      /\ calls \in Seq(Calls)
      /\ Len(calls) <= MaxCalls
  BY TypeOfSenders DEF Calls
<1>2. PICK r \in RequestOf(C, s), x \in PassedOf(C, s) :
              /\ Tail(queue[s]) \in Seq(RequestOf(C, s))
              /\ queue' = [queue EXCEPT ![s] = Tail(@)]
              /\ wire' = [wire EXCEPT ![s] = @ \o <<x>>]
              /\ UNCHANGED <<buffer, calls, asked>>
  BY FlushDoes
<1>3. C = DOMAIN calls'
  BY <1>2
<1> HIDE DEF C
<1>4. \A u \in Senders : Holds(u, C, asked'[u], queue'[u], wire'[u])
  <2> TAKE u \in Senders
  <2>1. CASE u = s
    <3> DEFINE W == PassedOf(C, s)
    <3>1. wire[s] \in Seq(W) /\ asked[s] \in Seq(C \X Supported(s))
      BY <1>1 DEF Holds
    <3>2. wire[s] \o <<x>> \in Seq(W)
      <4>1. x \in W
        BY <1>2
      <4> HIDE DEF W
      <4> QED
        BY <3>1, <4>1
    <3>3. asked'[s] = asked[s] /\ queue'[s] = Tail(queue[s]) /\ wire'[s] = wire[s] \o <<x>>
      BY <1>1, <1>2
    <3>4. Holds(s, C, asked'[s], queue'[s], wire'[s])
      BY <1>2, <3>1, <3>2, <3>3 DEF Holds
    <3> QED
      BY <2>1, <3>4, Zenon
  <2>2. CASE u # s
    <3>1. asked'[u] = asked[u] /\ queue'[u] = queue[u] /\ wire'[u] = wire[u]
      BY <1>1, <1>2, <2>2
    <3> QED
      BY <1>1, <3>1, Zenon
  <2> QED
    BY <2>1, <2>2
<1>5. /\ DOMAIN queue' = Senders /\ DOMAIN wire' = Senders /\ DOMAIN asked' = Senders
      /\ buffer' \in [Buffers -> Contents \cup {Freed}]
      /\ calls' \in Seq(Calls) /\ Len(calls') <= MaxCalls
  BY <1>1, <1>2
<1> QED
  BY <1>3, <1>4, <1>5 DEF TypeOK, Holds, RequestOf, PassedOf, Calls

LEMMA StepKeepsType ==
    ASSUME TypeOK, [Next]_vars
    PROVE  TypeOK'
<1>1. ASSUME NEW b \in Buffers, NEW c \in Contents \cup {Freed}, WriteBuffer(b, c)
      PROVE  TypeOK'
  <2>1. /\ buffer' \in [Buffers -> Contents \cup {Freed}]
        /\ UNCHANGED <<queue, wire, calls, asked>>
    BY <1>1 DEF WriteBuffer, TypeOK
  <2> QED
    BY <2>1 DEF TypeOK
<1>2. CASE UNCHANGED vars
  BY <1>2 DEF vars, TypeOK
<1>3. ASSUME NEW s \in Senders, NEW b \in Buffers, NEW list \in DestinationLists,
             Send(s, b, list)
      PROVE  TypeOK'
  BY <1>3, SendKeepsType
<1>4. ASSUME NEW s \in Senders, Flush(s)
      PROVE  TypeOK'
  BY <1>4, FlushKeepsType
<1> QED
  BY <1>1, <1>2, <1>3, <1>4, Zenon DEF Next

(* Requests and datagrams belong to calls that were made and go to          *)
(* destinations of the kind of their socket, for any senders and lists.     *)
THEOREM SendTypeCorrect == Spec => []TypeOK
<1>1. Init => TypeOK
  BY InitHolds
<1>2. TypeOK /\ [Next]_vars => TypeOK'
  BY StepKeepsType
<1> QED
  BY <1>1, <1>2, PTL DEF Spec

-----------------------------------------------------------------------------
(***************************************************************************)
(* Once, and in order.                                                     *)
(***************************************************************************)
(* Putting behind each other what passed, waited, passes at once and waits  *)
(* from now on: nothing overtakes what waited.                              *)
Behind(w, q, t, l) == (w \o t) \o (q \o l) = (w \o q) \o (t \o l)

LEMMA NothingOvertakes ==
    ASSUME NEW S, NEW w \in Seq(S), NEW q \in Seq(S), NEW t \in Seq(S), NEW l \in Seq(S),
           q = <<>> \/ t = <<>>
    PROVE  Behind(w, q, t, l)
<1>1. \A c \in Seq(S) : c \o <<>> = c /\ <<>> \o c = c
  OBVIOUS
<1>2. CASE q = <<>>
  <2>1. Associate(w, t, l)
    BY Associates
  <2>2. w \o <<>> = w /\ <<>> \o l = l
    BY <1>1
  <2> QED
    BY <1>2, <2>1, <2>2, Zenon DEF Behind, Associate
<1>3. CASE t = <<>>
  <2>1. Associate(w, q, l)
    BY Associates
  <2>2. w \o <<>> = w /\ <<>> \o l = l
    BY <1>1
  <2> QED
    BY <1>3, <2>1, <2>2, Zenon DEF Behind, Associate
<1> QED
  BY <1>2, <1>3

(* Tags of what a sender holds.                                             *)
LEMMA TagsOfHeld ==
    ASSUME NEW C, NEW s, NEW S, S = RequestOf(C, s) \/ S = PassedOf(C, s), NEW c \in Seq(S)
    PROVE  Tags(c) \in Seq(C \X Supported(s))
<1>1. \A r \in S : r.call \in C /\ r.to \in Supported(s)
  <2>1. \A r \in RequestOf(C, s) : r.call \in C /\ r.to \in Supported(s)
    BY DEF RequestOf
  <2>2. \A r \in PassedOf(C, s) : r.call \in C /\ r.to \in Supported(s)
    BY DEF PassedOf
  <2> QED
    BY <2>1, <2>2
<1>2. Len(c) \in Nat /\ DOMAIN c = 1..Len(c) /\ \A i \in 1..Len(c) : c[i] \in S
  OBVIOUS
<1>3. Tags(c) \in [1..Len(c) -> C \X Supported(s)]
  BY <1>1, <1>2 DEF Tags
<1> QED
  BY <1>2, <1>3, FunctionIsSeq

(* What call n asks of sender s.                                            *)
Part(s, n, c) ==
    IF c.sender # s THEN <<>>
    ELSE [i \in DOMAIN Destinations(s, c.list) |-> <<n, Destinations(s, c.list)[i]>>]

LEMMA PartType ==
    ASSUME NEW s \in Senders, NEW n \in Nat, NEW c \in Calls
    PROVE  Part(s, n, c) \in Seq(Nat \X Supported(s))
<1>1. CASE c.sender # s
  BY <1>1 DEF Part
<1>2. CASE c.sender = s
  <2> DEFINE to == Destinations(s, c.list)
  <2>1. to \in Seq(Supported(s))
    BY DestinationsOfKind DEF Calls
  <2>2. Part(s, n, c) = [i \in DOMAIN to |-> <<n, to[i]>>]
    BY <1>2 DEF Part
  <2> HIDE DEF to
  <2>3. Len(to) \in Nat /\ DOMAIN to = 1..Len(to) /\ \A i \in 1..Len(to) : to[i] \in Supported(s)
    BY <2>1
  <2>4. Part(s, n, c) \in [1..Len(to) -> Nat \X Supported(s)]
    BY <2>2, <2>3
  <2> QED
    BY <2>3, <2>4, FunctionIsSeq
<1> QED
  BY <1>1, <1>2

LEMMA DueParts ==
    ASSUME NEW s \in Senders, NEW made \in Seq(Calls)
    PROVE  Due(s, made) = [n \in DOMAIN made |-> Part(s, n, made[n])]
<1>1. \A n \in DOMAIN made : made[n].list \in DestinationLists
  <2>1. \A n \in DOMAIN made : made[n] \in Calls
    OBVIOUS
  <2> QED
    BY <2>1 DEF Calls
<1>2. \A n \in DOMAIN made :
         Kept(made[n].list, {l \in ToSet(made[n].list) : l.kind = KindOf[s]})
            = Destinations(s, made[n].list)
  BY <1>1, DestinationsOfKind DEF OfKind
<1> QED
  BY <1>2 DEF Due, Part

LEMMA DueAppended ==
    ASSUME NEW s \in Senders, NEW made \in Seq(Calls), NEW c \in Calls
    PROVE  /\ Due(s, made) \in Seq(Seq(Nat \X Supported(s)))
           /\ Due(s, Append(made, c)) = Append(Due(s, made), Part(s, Len(made) + 1, c))
<1> DEFINE S == Seq(Nat \X Supported(s))
           more == Append(made, c)
<1>1. /\ more \in Seq(Calls) /\ Len(more) = Len(made) + 1
      /\ DOMAIN made = 1..Len(made) /\ Len(made) \in Nat
      /\ DOMAIN more = 1..Len(made) + 1
      /\ \A n \in DOMAIN made : more[n] = made[n]
      /\ more[Len(made) + 1] = c
  BY CallAppended
<1>2. \A n \in DOMAIN made : made[n] \in Calls
  OBVIOUS
<1> HIDE DEF S, more
<1>3. Part(s, Len(made) + 1, c) \in S /\ \A n \in 1..Len(made) : Part(s, n, made[n]) \in S
  <2>1. Len(made) + 1 \in Nat /\ \A n \in 1..Len(made) : n \in Nat
    BY <1>1
  <2>2. \A n \in Nat, d \in Calls : Part(s, n, d) \in S
    BY PartType DEF S
  <2> QED
    BY <1>1, <1>2, <2>1, <2>2, Zenon
<1>4. Due(s, made) = [n \in 1..Len(made) |-> Part(s, n, made[n])]
  BY <1>1, DueParts
<1>5. Due(s, made) \in [1..Len(made) -> S]
  BY <1>3, <1>4
<1>6. Due(s, made) \in Seq(S) /\ Len(Due(s, made)) = Len(made)
  BY <1>1, <1>5, FunctionIsSeq
<1>7. Due(s, more) = [n \in 1..Len(made) + 1 |-> Part(s, n, more[n])]
  BY <1>1, DueParts
<1>8. Due(s, more) \in [1..Len(made) + 1 -> S]
  <2>1. \A n \in 1..Len(made) + 1 : Part(s, n, more[n]) \in S
    <3> TAKE n \in 1..Len(made) + 1
    <3>1. n \in 1..Len(made) \/ n = Len(made) + 1
      BY <1>1
    <3> QED
      BY <1>1, <1>3, <3>1, Zenon
  <2> QED
    BY <1>7, <2>1
<1>9. Due(s, more) \in Seq(S) /\ Len(Due(s, more)) = Len(made) + 1
  BY <1>1, <1>8, FunctionIsSeq
<1> DEFINE new == Part(s, Len(made) + 1, c)
           due == Due(s, made)
           longer == Append(due, new)
<1>10. /\ longer \in Seq(S) /\ Len(longer) = Len(made) + 1
       /\ \A n \in 1..Len(made) : longer[n] = due[n]
       /\ longer[Len(made) + 1] = new
  <2>1. new \in S /\ due \in Seq(S) /\ Len(due) = Len(made) /\ DOMAIN due = 1..Len(made)
    BY <1>3, <1>6
  <2> HIDE DEF new, due
  <2> QED
    BY <2>1, CallAppended
<1> HIDE DEF longer
<1>11. \A n \in 1..Len(made) + 1 : Due(s, more)[n] = longer[n]
  <2> TAKE n \in 1..Len(made) + 1
  <2>1. n \in 1..Len(made) \/ n = Len(made) + 1
    BY <1>1
  <2>2. Due(s, more)[n] = Part(s, n, more[n])
    BY <1>7
  <2>3. ASSUME n \in 1..Len(made)
        PROVE  Due(s, more)[n] = longer[n]
    <3>1. due[n] = Part(s, n, made[n])
      BY <1>4, <2>3
    <3>2. more[n] = made[n] /\ longer[n] = due[n]
      BY <1>1, <1>10, <2>3
    <3> QED
      BY <2>2, <3>1, <3>2, Zenon
  <2>4. ASSUME n = Len(made) + 1
        PROVE  Due(s, more)[n] = longer[n]
    BY <1>1, <1>10, <2>2, <2>4, Zenon
  <2> QED
    BY <2>1, <2>3, <2>4, Zenon
<1>12. Due(s, more) = longer
  BY <1>9, <1>10, <1>11, Extensional
<1> QED
  BY <1>6, <1>12 DEF more, longer, S

(* A call adds what it asks of a sender behind what was asked before.       *)
LEMMA ExpectedOfCall ==
    ASSUME NEW s \in Senders, NEW made \in Seq(Calls), NEW c \in Calls
    PROVE  Chained(Due(s, Append(made, c)))
              = Chained(Due(s, made)) \o Part(s, Len(made) + 1, c)
<1>1. Due(s, made) \in Seq(Seq(Nat \X Supported(s)))
  BY DueAppended
<1>2. Due(s, Append(made, c)) = Append(Due(s, made), Part(s, Len(made) + 1, c))
  BY DueAppended
<1>3. Part(s, Len(made) + 1, c) \in Seq(Nat \X Supported(s))
  <2>1. Len(made) + 1 \in Nat
    OBVIOUS
  <2> QED
    BY <2>1, PartType
<1>4. Chained(Append(Due(s, made), Part(s, Len(made) + 1, c)))
         = Chained(Due(s, made)) \o Part(s, Len(made) + 1, c)
  BY <1>1, <1>3, ChainedAppend
<1> QED
  BY <1>2, <1>4, Zenon

LEMMA HeldBySender ==
    ASSUME TypeOK, NEW s \in Senders
    PROVE  /\ queue[s] \in Seq(RequestOf(DOMAIN calls, s))
           /\ wire[s] \in Seq(PassedOf(DOMAIN calls, s))
           /\ asked[s] \in Seq((DOMAIN calls) \X Supported(s))
           /\ s \in DOMAIN queue /\ s \in DOMAIN wire /\ s \in DOMAIN asked
BY TypeOfSenders DEF Holds

LEMMA InitOnce ==
    ASSUME Init
    PROVE  OnceAndInOrder
<1>1. calls = <<>> /\ \A s \in Senders : queue[s] = <<>> /\ wire[s] = <<>> /\ asked[s] = <<>>
  BY DEF Init
<1>2. Tags(<<>>) = <<>> /\ <<>> \o <<>> = <<>>
  BY DEF Tags
<1>3. \A s \in Senders : Due(s, <<>>) = <<>>
  BY DEF Due
<1> QED
  BY <1>1, <1>2, <1>3, ChainedNothing, Zenon DEF OnceAndInOrder, Passed, Waiting, Expected

LEMMA SendKeepsOnce ==
    ASSUME TypeOK, OnceAndInOrder, NEW s \in Senders, NEW b \in Buffers,
           NEW list \in DestinationLists, Send(s, b, list)
    PROVE  OnceAndInOrder'
<1> DEFINE k == Len(calls) + 1
           c == [sender |-> s, list |-> list, content |-> buffer[b]]
<1>1. calls \in Seq(Calls) /\ k \in Nat
  BY DEF TypeOK, Calls
<1>2. calls' = Append(calls, c) /\ buffer[b] \in Contents
  BY SendDoes
<1>3. c \in Calls /\ c.sender = s /\ c.list = list
  BY <1>2 DEF Calls
<1>4. PICK left, out, sent : Divided(k, s, b, list, left, out, sent)
  BY SendDoes
<1> HIDE DEF c, k
<1>5. /\ sent = Tags(Requests(k, s, b, list))
      /\ Holds(s, {k}, sent, left, out)
      /\ asked' = [asked EXCEPT ![s] = @ \o sent]
      /\ queue' = [queue EXCEPT ![s] = @ \o left]
      /\ wire' = [wire EXCEPT ![s] = @ \o out]
      /\ Tags(out) \o Tags(left) = sent
      /\ queue[s] # <<>> => out = <<>>
  BY <1>4, Zenon DEF Divided
<1>6. \A u \in Senders : Tags(wire'[u]) \o Tags(queue'[u]) = asked'[u]
  <2> TAKE u \in Senders
  <2>1. Tags(wire[u]) \o Tags(queue[u]) = asked[u]
    BY DEF OnceAndInOrder, Passed, Waiting
  <2>2. CASE u # s
    <3>1. asked'[u] = asked[u] /\ queue'[u] = queue[u] /\ wire'[u] = wire[u]
      BY <1>5, <2>2, HeldBySender
    <3> QED
      BY <2>1, <3>1, Zenon
  <2>3. CASE u = s
    <3> DEFINE C == DOMAIN calls \cup {k}
               R == RequestOf(C, s)
               P == PassedOf(C, s)
               T == C \X Supported(s)
    <3>1. /\ queue[s] \in Seq(R) /\ left \in Seq(R) /\ wire[s] \in Seq(P) /\ out \in Seq(P)
      <4>1. Holds(s, DOMAIN calls, asked[s], queue[s], wire[s])
        BY TypeOfSenders
      <4>2. DOMAIN calls \subseteq C /\ {k} \subseteq C
        OBVIOUS
      <4> HIDE DEF C
      <4>3. Holds(s, C, asked[s], queue[s], wire[s])
        BY <4>1, <4>2, MoreCalls
      <4>4. Holds(s, C, sent, left, out)
        BY <1>5, <4>2, MoreCalls
      <4> QED
        BY <4>3, <4>4 DEF Holds
    <3> HIDE DEF C
    <3>2. /\ Tags(queue[s]) \in Seq(T) /\ Tags(left) \in Seq(T)
          /\ Tags(wire[s]) \in Seq(T) /\ Tags(out) \in Seq(T)
      <4>1. \A d \in Seq(R) : Tags(d) \in Seq(T)
        BY TagsOfHeld
      <4>2. \A d \in Seq(P) : Tags(d) \in Seq(T)
        BY TagsOfHeld
      <4> QED
        BY <3>1, <4>1, <4>2
    <3>3. Tags(queue[s] \o left) = Tags(queue[s]) \o Tags(left)
      <4> HIDE DEF R
      <4> QED
        BY <3>1, TagsConcatenated
    <3>4. Tags(wire[s] \o out) = Tags(wire[s]) \o Tags(out)
      <4> HIDE DEF P
      <4> QED
        BY <3>1, TagsConcatenated
    <3>5. Tags(queue[s]) = <<>> \/ Tags(out) = <<>>
      <4>1. Tags(<<>>) = <<>>
        BY DEF Tags
      <4> QED
        BY <1>5, <4>1, Zenon
    <3>6. (Tags(wire[s]) \o Tags(out)) \o (Tags(queue[s]) \o Tags(left))
             = (Tags(wire[s]) \o Tags(queue[s])) \o (Tags(out) \o Tags(left))
      <4> HIDE DEF T
      <4>1. Behind(Tags(wire[s]), Tags(queue[s]), Tags(out), Tags(left))
        BY <3>2, <3>5, NothingOvertakes
      <4> QED
        BY <4>1 DEF Behind
    <3>7. /\ asked'[s] = asked[s] \o sent /\ queue'[s] = queue[s] \o left
          /\ wire'[s] = wire[s] \o out
      BY <1>5, HeldBySender
    <3> QED
      BY <1>5, <2>1, <2>3, <3>3, <3>4, <3>6, <3>7, Zenon
  <2> QED
    BY <2>2, <2>3
<1>7. \A u \in Senders : asked'[u] = Chained(Due(u, calls'))
  <2> TAKE u \in Senders
  <2>1. asked[u] = Chained(Due(u, calls))
    BY DEF OnceAndInOrder, Expected
  <2>2. Chained(Due(u, calls')) = Chained(Due(u, calls)) \o Part(u, k, c)
    BY <1>1, <1>2, <1>3, ExpectedOfCall DEF k
  <2>3. CASE u # s
    <3>1. Part(u, k, c) = <<>>
      BY <1>3, <2>3 DEF Part
    <3>2. asked'[u] = asked[u]
      BY <1>5, <2>3, HeldBySender
    <3>3. asked[u] \o <<>> = asked[u]
      <4> DEFINE T == (DOMAIN calls) \X Supported(u)
      <4>1. asked[u] \in Seq(T)
        BY HeldBySender
      <4> HIDE DEF T
      <4> QED
        BY <4>1
    <3> QED
      BY <2>1, <2>2, <3>1, <3>2, <3>3, Zenon
  <2>4. CASE u = s
    <3>1. Part(s, k, c) = sent
      <4>1. Part(s, k, c) = [i \in DOMAIN Destinations(s, list) |-> <<k, Destinations(s, list)[i]>>]
        BY <1>3 DEF Part
      <4>2. Tags(Requests(k, s, b, list))
              = [i \in DOMAIN Destinations(s, list) |-> <<k, Destinations(s, list)[i]>>]
        BY <1>1, RequestsOfCall
      <4> QED
        BY <1>5, <4>1, <4>2, Zenon
    <3>2. asked'[s] = asked[s] \o sent
      BY <1>5, HeldBySender
    <3> QED
      BY <2>1, <2>2, <2>4, <3>1, <3>2, Zenon
  <2> QED
    BY <2>3, <2>4
<1> QED
  BY <1>6, <1>7 DEF OnceAndInOrder, Passed, Waiting, Expected

LEMMA FlushKeepsOnce ==
    ASSUME TypeOK, OnceAndInOrder, NEW s \in Senders, Flush(s)
    PROVE  OnceAndInOrder'
<1> DEFINE R == RequestOf(DOMAIN calls, s)
           P == PassedOf(DOMAIN calls, s)
           T == (DOMAIN calls) \X Supported(s)
           rest == Tail(queue[s])
<1>1. PICK r \in R, x \in P :
              /\ <<r.call, r.to>> = <<x.call, x.to>>
              /\ queue[s] = <<r>> \o rest /\ rest \in Seq(R)
              /\ queue' = [queue EXCEPT ![s] = rest]
              /\ wire' = [wire EXCEPT ![s] = @ \o <<x>>]
              /\ UNCHANGED <<buffer, calls, asked>>
  BY FlushDoes
<1> HIDE DEF rest
<1>0. wire[s] \in Seq(P) /\ <<x>> \in Seq(P)
  <2>1. wire[s] \in Seq(P)
    BY HeldBySender
  <2> HIDE DEF P
  <2>2. <<x>> \in Seq(P)
    BY <1>1
  <2> QED
    BY <2>1, <2>2
<1>2. Tags(wire[s] \o <<x>>) = Tags(wire[s]) \o Tags(<<x>>)
  <2> HIDE DEF P
  <2> QED
    BY <1>0, TagsConcatenated
<1>3. Tags(queue[s]) = Tags(<<r>>) \o Tags(rest)
  <2> HIDE DEF R
  <2>1. <<r>> \in Seq(R)
    BY <1>1
  <2>2. Tags(<<r>> \o rest) = Tags(<<r>>) \o Tags(rest)
    BY <1>1, <2>1, TagsConcatenated
  <2> QED
    BY <1>1, <2>2, Zenon
<1>4. Tags(<<r>>) = Tags(<<x>>)
  <2>1. Tags(<<r>>) = [i \in DOMAIN <<r>> |-> <<r.call, r.to>>]
    <3>1. \A i \in DOMAIN <<r>> : <<r>>[i] = r
      OBVIOUS
    <3> QED
      BY <3>1 DEF Tags
  <2>2. Tags(<<x>>) = [i \in DOMAIN <<x>> |-> <<x.call, x.to>>]
    <3>1. \A i \in DOMAIN <<x>> : <<x>>[i] = x
      OBVIOUS
    <3> QED
      BY <3>1 DEF Tags
  <2>3. DOMAIN <<r>> = DOMAIN <<x>>
    OBVIOUS
  <2> QED
    BY <1>1, <2>1, <2>2, <2>3, Zenon
<1>5. Tags(wire[s]) \in Seq(T) /\ Tags(<<x>>) \in Seq(T) /\ Tags(rest) \in Seq(T)
  <2>1. \A d \in Seq(R) : Tags(d) \in Seq(T)
    BY TagsOfHeld
  <2>2. \A d \in Seq(P) : Tags(d) \in Seq(T)
    BY TagsOfHeld
  <2> HIDE DEF R, P, T
  <2> QED
    BY <1>0, <1>1, <2>1, <2>2
<1> HIDE DEF T, R, P
<1>6. Associate(Tags(wire[s]), Tags(<<x>>), Tags(rest))
  BY <1>5, Associates
<1>7. \A u \in Senders : Tags(wire'[u]) \o Tags(queue'[u]) = asked'[u]
  <2> TAKE u \in Senders
  <2>1. Tags(wire[u]) \o Tags(queue[u]) = asked[u]
    BY DEF OnceAndInOrder, Passed, Waiting
  <2>2. CASE u # s
    <3>1. asked'[u] = asked[u] /\ queue'[u] = queue[u] /\ wire'[u] = wire[u]
      BY <1>1, <2>2, HeldBySender
    <3> QED
      BY <2>1, <3>1, Zenon
  <2>3. CASE u = s
    <3>1. asked'[s] = asked[s] /\ queue'[s] = rest /\ wire'[s] = wire[s] \o <<x>>
      BY <1>1, HeldBySender
    <3> QED
      BY <1>2, <1>3, <1>4, <1>6, <2>1, <2>3, <3>1, Zenon DEF Associate
  <2> QED
    BY <2>2, <2>3
<1>8. \A u \in Senders : asked'[u] = Chained(Due(u, calls'))
  BY <1>1 DEF OnceAndInOrder, Expected
<1> QED
  BY <1>7, <1>8 DEF OnceAndInOrder, Passed, Waiting, Expected

LEMMA StepKeepsOnce ==
    ASSUME TypeOK, OnceAndInOrder, [Next]_vars
    PROVE  OnceAndInOrder'
<1>1. CASE UNCHANGED <<queue, wire, calls, asked>>
  BY <1>1 DEF OnceAndInOrder, Passed, Waiting, Expected
<1>2. ASSUME NEW b \in Buffers, NEW c \in Contents \cup {Freed}, WriteBuffer(b, c)
      PROVE  OnceAndInOrder'
  BY <1>1, <1>2 DEF WriteBuffer
<1>3. ASSUME NEW s \in Senders, NEW b \in Buffers, NEW list \in DestinationLists,
             Send(s, b, list)
      PROVE  OnceAndInOrder'
  BY <1>3, SendKeepsOnce
<1>4. ASSUME NEW s \in Senders, Flush(s)
      PROVE  OnceAndInOrder'
  BY <1>4, FlushKeepsOnce
<1>5. CASE UNCHANGED vars
  BY <1>1, <1>5 DEF vars
<1> QED
  BY <1>2, <1>3, <1>4, <1>5, Zenon DEF Next

(* Each destination of a sender's kind gets the datagram of each call once, *)
(* in the order of the calls and of their lists, for any lists, any number  *)
(* of calls and wherever the socket blocks.                                 *)
THEOREM SentOnceAndInOrder == Spec => []OnceAndInOrder
<1>1. Init => TypeOK /\ OnceAndInOrder
  BY InitHolds, InitOnce
<1>2. (TypeOK /\ OnceAndInOrder) /\ [Next]_vars => (TypeOK /\ OnceAndInOrder)'
  BY StepKeepsType, StepKeepsOnce
<1> QED
  BY <1>1, <1>2, PTL DEF Spec

-----------------------------------------------------------------------------
(***************************************************************************)
(* Each sender is an outbox.                                               *)
(***************************************************************************)
(* A step takes nothing back of what was asked for or passed on.            *)
LEMMA OnlyMore ==
    ASSUME TypeOK, Next
    PROVE  /\ \A u \in Senders : \E a : /\ asked'[u] = asked[u] \o a
                                        /\ a \in Seq(Nat \X Supported(u))
           /\ \A u \in Senders : \E x : /\ wire'[u] = wire[u] \o x
                                        /\ x \in Seq(PassedOf(Nat, u))
<1> DEFINE MoreAsked == \A u \in Senders : \E a : /\ asked'[u] = asked[u] \o a
                                                  /\ a \in Seq(Nat \X Supported(u))
           MorePassed == \A u \in Senders : \E x : /\ wire'[u] = wire[u] \o x
                                                   /\ x \in Seq(PassedOf(Nat, u))
<1>1. \A u \in Senders : /\ asked[u] = asked[u] \o <<>> /\ <<>> \in Seq(Nat \X Supported(u))
                         /\ wire[u] = wire[u] \o <<>> /\ <<>> \in Seq(PassedOf(Nat, u))
  <2> TAKE u \in Senders
  <2>1. asked[u] \in Seq((DOMAIN calls) \X Supported(u)) /\ wire[u] \in Seq(PassedOf(DOMAIN calls, u))
    BY HeldBySender
  <2>2. ASSUME NEW S, NEW c \in Seq(S)
        PROVE  c = c \o <<>>
    OBVIOUS
  <2>3. asked[u] = asked[u] \o <<>> /\ wire[u] = wire[u] \o <<>>
    BY <2>1, <2>2
  <2>4. \A S : <<>> \in Seq(S)
    OBVIOUS
  <2> QED
    BY <2>3, <2>4, Zenon
<1>2. UNCHANGED asked => MoreAsked
  BY <1>1, Zenon
<1>3. UNCHANGED wire => MorePassed
  BY <1>1, Zenon
<1>4. ASSUME NEW b \in Buffers, NEW c \in Contents \cup {Freed}, WriteBuffer(b, c)
      PROVE  MoreAsked /\ MorePassed
  BY <1>2, <1>3, <1>4, Zenon DEF WriteBuffer
<1>5. ASSUME NEW s \in Senders, NEW b \in Buffers, NEW list \in DestinationLists,
             Send(s, b, list)
      PROVE  MoreAsked /\ MorePassed
  <2> DEFINE k == Len(calls) + 1
  <2>1. PICK left, out, sent : Divided(k, s, b, list, left, out, sent)
    BY <1>5, SendDoes
  <2>2. k \in Nat
    BY DEF TypeOK
  <2> HIDE DEF k
  <2>3. /\ Holds(s, {k}, sent, left, out)
        /\ asked' = [asked EXCEPT ![s] = @ \o sent]
        /\ wire' = [wire EXCEPT ![s] = @ \o out]
    BY <2>1 DEF Divided
  <2>4. sent \in Seq(Nat \X Supported(s)) /\ out \in Seq(PassedOf(Nat, s))
    <3>1. Holds(s, Nat, sent, left, out)
      BY <2>2, <2>3, MoreCalls
    <3> QED
      BY <3>1 DEF Holds
  <2>5. \A u \in Senders : /\ u # s => asked'[u] = asked[u] /\ wire'[u] = wire[u]
                           /\ u = s => asked'[u] = asked[u] \o sent /\ wire'[u] = wire[u] \o out
    BY <2>3, HeldBySender
  <2>6. MoreAsked
    BY <1>1, <2>4, <2>5, Zenon
  <2>7. MorePassed
    BY <1>1, <2>4, <2>5, Zenon
  <2> QED
    BY <2>6, <2>7
<1>6. ASSUME NEW s \in Senders, Flush(s)
      PROVE  MoreAsked /\ MorePassed
  <2>1. PICK x \in PassedOf(DOMAIN calls, s) :
          wire' = [wire EXCEPT ![s] = @ \o <<x>>] /\ UNCHANGED asked
    BY <1>6, FlushDoes
  <2>2. <<x>> \in Seq(PassedOf(Nat, s))
    <3> DEFINE P == PassedOf(Nat, s)
    <3>1. x \in P
      <4>1. DOMAIN calls \subseteq Nat
        BY DEF TypeOK
      <4> QED
        BY <2>1, <4>1 DEF PassedOf
    <3> HIDE DEF P
    <3>2. <<x>> \in Seq(P)
      BY <3>1
    <3> QED
      BY <3>2 DEF P
  <2>3. \A u \in Senders : /\ u # s => wire'[u] = wire[u]
                           /\ u = s => wire'[u] = wire[u] \o <<x>>
    BY <2>1, HeldBySender
  <2>4. MorePassed
    BY <1>1, <2>2, <2>3, Zenon
  <2> QED
    BY <1>2, <2>1, <2>4
<1>7. MoreAsked /\ MorePassed
  BY <1>4, <1>5, <1>6, Zenon DEF Next
<1> QED
  BY <1>7, Zenon

LEMMA StepProgresses ==
    ASSUME TypeOK, TypeOK', OnceAndInOrder', Next
    PROVE  /\ \A u \in Senders : /\ IsPrefix(asked[u], asked'[u])
                                 /\ IsPrefix(Tags(wire[u]), Tags(wire'[u]))
                                 /\ IsPrefix(Tags(wire'[u]), asked'[u])
           /\ DOMAIN asked' = Senders
<1>1. ASSUME NEW u \in Senders
      PROVE  IsPrefix(asked[u], asked'[u])
  <2> DEFINE T == Nat \X Supported(u)
  <2>1. PICK a : asked'[u] = asked[u] \o a /\ a \in Seq(T)
    BY OnlyMore
  <2>2. asked[u] \in Seq(T)
    <3>1. asked[u] \in Seq((DOMAIN calls) \X Supported(u))
      BY HeldBySender
    <3>2. (DOMAIN calls) \X Supported(u) \subseteq T
      BY DEF TypeOK
    <3> HIDE DEF T
    <3> QED
      BY <3>1, <3>2, LargerSeq
  <2> HIDE DEF T
  <2>3. IsPrefix(asked[u], asked[u] \o a)
    BY <2>1, <2>2, BeginningIsPrefix
  <2> QED
    BY <2>1, <2>3, Zenon
<1>2. ASSUME NEW u \in Senders
      PROVE  IsPrefix(Tags(wire[u]), Tags(wire'[u]))
  <2> DEFINE P == PassedOf(Nat, u)
             T == Nat \X Supported(u)
  <2>1. PICK x : wire'[u] = wire[u] \o x /\ x \in Seq(P)
    BY OnlyMore
  <2>2. wire[u] \in Seq(P)
    <3>1. wire[u] \in Seq(PassedOf(DOMAIN calls, u))
      BY HeldBySender
    <3>2. PassedOf(DOMAIN calls, u) \subseteq P
      BY DEF TypeOK, PassedOf
    <3> HIDE DEF P
    <3> QED
      BY <3>1, <3>2, LargerSeq
  <2>3. Tags(wire[u]) \in Seq(T) /\ Tags(x) \in Seq(T)
    <3>1. \A d \in Seq(P) : Tags(d) \in Seq(T)
      BY TagsOfHeld
    <3> QED
      BY <2>1, <2>2, <3>1
  <2> HIDE DEF P, T
  <2>4. Tags(wire[u] \o x) = Tags(wire[u]) \o Tags(x)
    BY <2>1, <2>2, TagsConcatenated
  <2>5. IsPrefix(Tags(wire[u]), Tags(wire[u]) \o Tags(x))
    BY <2>3, BeginningIsPrefix
  <2> QED
    BY <2>1, <2>4, <2>5, Zenon
<1>3. ASSUME NEW u \in Senders
      PROVE  IsPrefix(Tags(wire'[u]), asked'[u])
  <2> DEFINE C == DOMAIN calls'
             T == C \X Supported(u)
  <2>1. Tags(wire'[u]) \o Tags(queue'[u]) = asked'[u]
    BY DEF OnceAndInOrder, Passed, Waiting
  <2>2. queue'[u] \in Seq(RequestOf(C, u)) /\ wire'[u] \in Seq(PassedOf(C, u))
    BY DEF TypeOK, RequestOf, PassedOf
  <2>3. Tags(queue'[u]) \in Seq(T) /\ Tags(wire'[u]) \in Seq(T)
    <3>1. \A d \in Seq(RequestOf(C, u)) : Tags(d) \in Seq(T)
      BY TagsOfHeld
    <3>2. \A d \in Seq(PassedOf(C, u)) : Tags(d) \in Seq(T)
      BY TagsOfHeld
    <3> QED
      BY <2>2, <3>1, <3>2
  <2> HIDE DEF T
  <2>4. IsPrefix(Tags(wire'[u]), Tags(wire'[u]) \o Tags(queue'[u]))
    BY <2>3, BeginningIsPrefix
  <2> QED
    BY <2>1, <2>4, Zenon
<1>4. DOMAIN asked' = Senders
  BY DEF TypeOK
<1> QED
  BY <1>1, <1>2, <1>3, <1>4

(* Each sender only adds to what it was asked for and to what it passed on, *)
(* which stays a beginning of it: the outbox the application relies on,     *)
(* however requests are divided between the call and the loop.              *)
THEOREM SendersAreOutboxes == Spec => Out!Safety
<1>1. Init => Out!Init
  <2> SUFFICES ASSUME Init
               PROVE  Out!Init
    OBVIOUS
  <2>1. \A s \in Senders : Passed(s) = <<>>
    <3>1. \A s \in Senders : wire[s] = <<>>
      BY DEF Init
    <3>2. Tags(<<>>) = <<>>
      BY DEF Tags
    <3> QED
      BY <3>1, <3>2, Zenon DEF Passed
  <2>2. asked = [s \in Senders |-> <<>>]
    BY DEF Init
  <2> QED
    BY <2>1, <2>2 DEF Out!Init
<1>2. TypeOK /\ TypeOK' /\ OnceAndInOrder' /\ [Next]_vars => [Out!Next]_(Out!vars)
  <2> SUFFICES ASSUME TypeOK, TypeOK', OnceAndInOrder', [Next]_vars
               PROVE  [Out!Next]_(Out!vars)
    OBVIOUS
  <2>1. CASE UNCHANGED vars
    BY <2>1 DEF vars, Out!vars, Passed
  <2>2. CASE Next
    <3>1. /\ \A u \in Senders : /\ IsPrefix(asked[u], asked'[u])
                                /\ IsPrefix(Tags(wire[u]), Tags(wire'[u]))
                                /\ IsPrefix(Tags(wire'[u]), asked'[u])
          /\ DOMAIN asked' = Senders
      BY <2>2, StepProgresses
    <3>2. Out!Next
      <4> DEFINE p == [s \in Senders |-> Tags(wire[s])]
                 q == [s \in Senders |-> Tags(wire'[s])]
      <4>1. /\ DOMAIN q = Senders
            /\ \A u \in Senders : p[u] = Tags(wire[u]) /\ q[u] = Tags(wire'[u])
        OBVIOUS
      <4> HIDE DEF p, q
      <4>2. \A a, b : IsPrefix(a, b) => Out!IsPrefix(a, b)
        BY DEF IsPrefix, Out!IsPrefix
      <4>3. /\ \A u \in Senders : /\ Out!IsPrefix(asked[u], asked'[u])
                                  /\ Out!IsPrefix(p[u], q[u])
                                  /\ Out!IsPrefix(q[u], asked'[u])
            /\ DOMAIN asked' = Senders /\ DOMAIN q = Senders
        BY <3>1, <4>1, <4>2, Zenon
      <4> QED
        BY <4>3, Zenon DEF Out!Next, Out!Progress, Passed, p, q
    <3> QED
      BY <3>2
  <2> QED
    BY <2>1, <2>2
<1>3. Spec => [](TypeOK /\ OnceAndInOrder)
  BY SendTypeCorrect, SentOnceAndInOrder, PTL
<1> QED
  BY <1>1, <1>2, <1>3, PTL DEF Spec, Out!Safety

=============================================================================
