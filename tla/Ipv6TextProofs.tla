---------------------------- MODULE Ipv6TextProofs ----------------------------
(***************************************************************************)
(* Proofs about Ipv6Text, for every address and text.                      *)
(***************************************************************************)
EXTENDS Ipv6Text, ListTheorems, TLAPS

Token == -2..MaxGroup

-----------------------------------------------------------------------------
(***************************************************************************)
(* Counting places.                                                        *)
(***************************************************************************)
LEMMA MaxGroupIsNat == MaxGroup \in Nat
BY SMT DEF MaxGroup

LEMMA SubsetsAreFinite ==
    ASSUME NEW n \in Nat, NEW s \in SUBSET (1..n)
    PROVE  IsFiniteSet(s) /\ Cardinality(s) \in Nat
<1>1. IsFiniteSet(1..n)
  BY FS_Interval
<1>2. IsFiniteSet(s)
  BY <1>1, FS_Subset
<1> QED
  BY <1>2, FS_CardinalityType

(* Each rank is the rank of a place.                                        *)
Ranked(places) == \A k \in 1..Cardinality(places) :
                     \E i \in places : Cardinality({j \in places : j <= i}) = k

LEMMA EachRankIsTaken ==
    ASSUME NEW n \in Nat, NEW places \in SUBSET (1..n)
    PROVE  Ranked(places)
<1> DEFINE S == {m \in Nat : \A s \in SUBSET (1..m) : Ranked(s)}
<1>1. \A m : m \in S <=> m \in Nat /\ \A s \in SUBSET (1..m) : Ranked(s)
  OBVIOUS
<1> HIDE DEF S
<1>2. 0 \in S
  <2>1. \A s \in SUBSET (1..0) : Cardinality(s) = 0
    <3>1. \A s \in SUBSET (1..0) : s = {}
      OBVIOUS
    <3> QED
      BY <3>1, FS_EmptySet
  <2>2. \A s \in SUBSET (1..0) : Ranked(s)
    BY <2>1 DEF Ranked
  <2> QED
    BY <1>1, <2>2
<1>3. ASSUME NEW m \in Nat, m \in S, NEW s \in SUBSET (1..m + 1)
      PROVE  Ranked(s)
  <2> DEFINE r == s \ {m + 1}
  <2>1. r \in SUBSET (1..m) /\ IsFiniteSet(r) /\ Cardinality(r) \in Nat
    <3>1. r \in SUBSET (1..m)
      OBVIOUS
    <3> QED
      BY <3>1, SubsetsAreFinite
  <2>2. Ranked(r)
    BY <1>1, <1>3, <2>1
  <2>3. CASE m + 1 \notin s
    BY <2>2, <2>3, ZenonT(30) DEF Ranked
  <2>4. CASE m + 1 \in s
    <3>1. Cardinality(s) = Cardinality(r) + 1
      <4>1. s = r \cup {m + 1} /\ m + 1 \notin r
        BY <2>4
      <4> HIDE DEF r
      <4> QED
        BY <2>1, <4>1, FS_AddElement
    <3>2. ASSUME NEW k \in 1..Cardinality(s)
          PROVE  \E i \in s : Cardinality({j \in s : j <= i}) = k
      <4>1. CASE k = Cardinality(s)
        <5>1. {j \in s : j <= m + 1} = s
          <6>1. \A j \in s : j \in 1..m + 1
            OBVIOUS
          <6>2. \A j \in s : j <= m + 1
            BY <6>1
          <6> HIDE DEF r
          <6> QED
            BY <6>2
        <5> QED
          BY <2>4, <4>1, <5>1
      <4>2. CASE k # Cardinality(s)
        <5>1. k \in 1..Cardinality(r)
          BY <2>1, <3>1, <3>2, <4>2
        <5>2. PICK i \in r : Cardinality({j \in r : j <= i}) = k
          BY <2>2, <5>1 DEF Ranked
        <5>3. {j \in r : j <= i} = {j \in s : j <= i}
          BY <2>1
        <5> QED
          BY <5>2, <5>3
      <4> QED
        BY <4>1, <4>2
    <3> QED
      BY <3>2 DEF Ranked
  <2> QED
    BY <2>3, <2>4
<1>4. \A m \in Nat : m \in S => m + 1 \in S
  BY <1>1, <1>3
<1>5. Nat \subseteq S
  BY <1>2, <1>4, NatSetInduction
<1> QED
  BY <1>1, <1>5

LEMMA PlaceIsThere ==
    ASSUME NEW n \in Nat, NEW places \in SUBSET (1..n), NEW k \in 1..Cardinality(places)
    PROVE  PlaceOf(places, k) \in places
<1>1. \E i \in places : Cardinality({j \in places : j <= i}) = k
  BY EachRankIsTaken DEF Ranked
<1> QED
  BY <1>1 DEF PlaceOf

LEMMA TokensCount ==
    ASSUME NEW tokens \in Seq(Token)
    PROVE  /\ Colons(tokens) \in Nat
           /\ Len(tokens) \in Nat /\ Places(tokens) \in SUBSET (1..Len(tokens))
           /\ Cardinality(Places(tokens)) \in Nat
           /\ Cardinality(Places(tokens)) = 0 => Places(tokens) = {}
<1> DEFINE C == {i \in DOMAIN tokens : tokens[i] = Colon}
<1>1. /\ Len(tokens) \in Nat /\ Places(tokens) \in SUBSET (1..Len(tokens))
      /\ C \in SUBSET (1..Len(tokens))
  BY DEF Places
<1>2. Cardinality(C) \in Nat
  BY <1>1, SubsetsAreFinite
<1>3. IsFiniteSet(Places(tokens)) /\ Cardinality(Places(tokens)) \in Nat
  BY <1>1, SubsetsAreFinite
<1>4. Cardinality(Places(tokens)) = 0 => Places(tokens) = {}
  BY <1>3, FS_EmptySet
<1>5. Colons(tokens) \in Nat
  BY <1>2 DEF Colons
<1> QED
  BY <1>1, <1>3, <1>4, <1>5

-----------------------------------------------------------------------------
(***************************************************************************)
(* Types.                                                                  *)
(***************************************************************************)
IsText(t) == t.tokens \in Seq(Token) /\ t.zone \in BOOLEAN

(* What is read where a number is expected is a number of 16 bits, unless   *)
(* the text has none.                                                       *)
LEMMA NumberReadType ==
    ASSUME NEW t, IsText(t), IPv6isCorrect(t.tokens), NEW k \in Nat \ {0},
           Places(t.tokens) # {} \/ t.zone
    PROVE  NumberRead(t, k) \in 0..MaxGroup
<1> DEFINE places == Places(t.tokens)
           n == Cardinality(places)
<1>1. t.tokens \in Seq(Token) /\ t.zone \in BOOLEAN
  BY DEF IsText
<1>2. /\ Len(t.tokens) \in Nat /\ places \in SUBSET (1..Len(t.tokens)) /\ n \in Nat
      /\ n = 0 => places = {}
  BY <1>1, TokensCount
<1>3. \A i \in places : t.tokens[i] \in 0..MaxGroup
  <2> TAKE i \in places
  <2>1. t.tokens[i] \in Token /\ t.tokens[i] # Colon /\ t.tokens[i] # Malformed
    BY <1>1, <1>2 DEF Places, IPv6isCorrect
  <2> QED
    BY <2>1, MaxGroupIsNat DEF Token, Colon, Malformed
<1>4. NumberRead(t, k) = CASE k <= n -> t.tokens[PlaceOf(places, k)]
                           [] k > n /\ t.zone -> 0
                           [] k > n /\ ~t.zone -> t.tokens[PlaceOf(places, n)]
  BY DEF NumberRead
<1>5. ASSUME NEW m \in 1..n
      PROVE  t.tokens[PlaceOf(places, m)] \in 0..MaxGroup
  <2> HIDE DEF places
  <2>1. PlaceOf(places, m) \in places
    BY <1>2, PlaceIsThere
  <2> QED
    BY <1>3, <2>1
<1>6. 0 \in 0..MaxGroup
  BY MaxGroupIsNat
<1>7. CASE k <= n
  <2>1. k \in 1..n
    BY <1>2, <1>7
  <2> HIDE DEF n, places
  <2> QED
    BY <1>2, <1>4, <1>5, <1>7, <2>1
<1>8. CASE k > n /\ t.zone
  <2>1. ~(k <= n)
    BY <1>2, <1>8
  <2> HIDE DEF n, places
  <2> QED
    BY <1>2, <1>4, <1>6, <1>8, <2>1
<1>9. CASE k > n /\ ~t.zone
  <2>1. ~(k <= n) /\ n \in 1..n
    BY <1>2, <1>9
  <2> HIDE DEF n, places
  <2> QED
    BY <1>2, <1>4, <1>5, <1>9, <2>1
<1>10. k <= n \/ k > n
  BY <1>2
<1> QED
  BY <1>1, <1>7, <1>8, <1>9, <1>10

(* A text of colons alone is "::", which is all zeros.                      *)
LEMMA OnlyColons ==
    ASSUME NEW t, IsText(t), IPv6isCorrect(t.tokens), Places(t.tokens) = {}, ~t.zone
    PROVE  ZeroBlock(t) = [before |-> 0, size |-> 8]
<1>1. t.tokens \in Seq(Token)
  BY DEF IsText
<1>2. t.tokens # <<>>
  <2>1. SUFFICES ASSUME t.tokens = <<>>
                 PROVE  FALSE
    OBVIOUS
  <2>2. {i \in DOMAIN t.tokens : t.tokens[i] = Colon} = {}
    BY <2>1
  <2>3. Colons(t.tokens) = 0
    BY <2>2, FS_EmptySet DEF Colons
  <2> QED
    BY <2>3 DEF IPv6isCorrect
<1>3. Head(t.tokens) = Colon /\ Last(t.tokens) = Colon
  <2>1. \A i \in DOMAIN t.tokens : t.tokens[i] = Colon
    BY DEF Places
  <2>2. 1 \in DOMAIN t.tokens /\ Len(t.tokens) \in DOMAIN t.tokens
    BY <1>1, <1>2
  <2> QED
    BY <1>1, <1>2, <2>1, <2>2 DEF Last
<1> QED
  BY <1>3 DEF ZeroBlock

LEMMA ZeroBlockType ==
    ASSUME NEW t, IsText(t), IPv6isCorrect(t.tokens)
    PROVE  ZeroBlock(t).before \in Nat /\ ZeroBlock(t).size \in Int
<1> DEFINE count == Colons(t.tokens)
           ends == Last(t.tokens) = Colon /\ ~t.zone
           double == DoubleColons(t.tokens)
           first == SubSeq(t.tokens, 1, CHOOSE i \in double : TRUE)
<1>1. t.tokens \in Seq(Token) /\ count \in 2..8
  BY DEF IsText, IPv6isCorrect
<1>2. ZeroBlock(t) = CASE Head(t.tokens) = Colon /\ ends -> [before |-> 0, size |-> 8]
        [] Head(t.tokens) = Colon /\ ~ends -> [before |-> 0, size |-> 9 - count]
        [] Head(t.tokens) # Colon /\ ends -> [before |-> count - 1, size |-> 9 - count]
        [] OTHER -> IF double = {} THEN [before |-> 8, size |-> 0]
                    ELSE [before |-> Colons(first), size |-> 8 - count]
  BY DEF ZeroBlock
<1>3. double # {} => Colons(first) \in Nat
  <2> SUFFICES ASSUME double # {}
               PROVE  Colons(first) \in Nat
    OBVIOUS
  <2> DEFINE i == CHOOSE i \in double : TRUE
  <2>1. i \in double
    OBVIOUS
  <2>2. i \in 1..Len(t.tokens) - 1
    BY <2>1 DEF DoubleColons
  <2> HIDE DEF i
  <2>3. SubSeq(t.tokens, 1, i) \in Seq(Token)
    <3> HIDE DEF Token
    <3>1. Len(t.tokens) \in Nat /\ i \in 1..Len(t.tokens)
      BY <1>1, <2>2
    <3> QED
      BY <1>1, <3>1
  <2> QED
    BY <2>3, TokensCount DEF i
<1> HIDE DEF count, ends, double, first
<1>4. CASE Head(t.tokens) = Colon
  BY <1>1, <1>2, <1>4
<1>5. CASE Head(t.tokens) # Colon
  BY <1>1, <1>2, <1>3, <1>5
<1> QED
  BY <1>4, <1>5

LEMMA ReadAddressType ==
    ASSUME NEW t, IsText(t), IPv6isCorrect(t.tokens)
    PROVE  ReadAddress(t) \in Address
<1> DEFINE block == ZeroBlock(t)
<1>1. block.before \in Nat /\ block.size \in Int
  BY ZeroBlockType
<1>2. ASSUME NEW g \in 1..NumGroups
      PROVE  (CASE g <= block.before -> NumberRead(t, g)
                [] g > block.before /\ g <= block.before + block.size -> 0
                [] OTHER -> NumberRead(t, g - block.size)) \in 0..MaxGroup
  <2>1. CASE Places(t.tokens) # {} \/ t.zone
    <3>1. ASSUME NEW k \in Nat \ {0}
          PROVE  NumberRead(t, k) \in 0..MaxGroup
      BY <2>1, NumberReadType
    <3>2. g \in Nat \ {0} /\ 0 \in 0..MaxGroup
      BY MaxGroupIsNat DEF NumGroups
    <3>3. ~(g <= block.before) /\ ~(g <= block.before + block.size)
             => g - block.size \in Nat \ {0}
      BY <1>1, <3>2
    <3>4. g > block.before <=> ~(g <= block.before)
      BY <1>1, <3>2
    <3> HIDE DEF block
    <3>5. CASE g <= block.before
      BY <3>1, <3>2, <3>5
    <3>6. CASE ~(g <= block.before) /\ g <= block.before + block.size
      BY <3>2, <3>4, <3>6
    <3>7. CASE ~(g <= block.before) /\ ~(g <= block.before + block.size)
      <4>1. NumberRead(t, g - block.size) \in 0..MaxGroup
        BY <3>1, <3>3, <3>7
      <4> QED
        BY <3>7, <4>1
    <3> QED
      BY <3>5, <3>6, <3>7
  <2>2. CASE Places(t.tokens) = {} /\ ~t.zone
    <3>1. block = [before |-> 0, size |-> 8]
      BY <2>2, OnlyColons
    <3>2. g > 0 /\ g <= 8 /\ 0 \in 0..MaxGroup
      BY MaxGroupIsNat DEF NumGroups
    <3> HIDE DEF block
    <3> QED
      BY <3>1, <3>2
  <2>3. t.zone \in BOOLEAN
    BY DEF IsText
  <2> QED
    BY <2>1, <2>2, <2>3
<1> QED
  BY <1>2 DEF ReadAddress, Address

(* What is printed is a text, whatever block of zeros the scan reports.     *)
LEMMA PrintedType ==
    ASSUME NEW a \in Address
    PROVE  ToIPv6string(a) \in Seq(Token)
<1> DEFINE block == Scanned(a)
           compress == block.maxSize >= 2
           last == block.maxAt + block.maxSize - 1
           Piece(g) ==
            IF compress /\ g \in block.maxAt..last
              THEN IF g = last THEN <<Colon>> ELSE <<>>
              ELSE IF g # NumGroups THEN <<a[g], Colon>> ELSE <<a[g]>>
           pieces == [g \in 1..NumGroups |-> Piece(g)]
           front == IF compress /\ block.maxAt = 1 THEN <<Colon>> ELSE <<>>
<1>1. ToIPv6string(a) = front \o Chained(pieces)
  BY DEF ToIPv6string
<1>2. Colon \in Token /\ \A g \in 1..NumGroups : a[g] \in Token
  <2>1. \A g \in 1..NumGroups : a[g] \in 0..MaxGroup
    BY DEF Address
  <2>2. Colon \in Token /\ \A n \in 0..MaxGroup : n \in Token
    BY MaxGroupIsNat DEF Token, Colon
  <2> QED
    BY <2>1, <2>2
<1>3. /\ <<>> \in Seq(Token) /\ <<Colon>> \in Seq(Token)
      /\ \A n \in Token : <<n>> \in Seq(Token) /\ <<n, Colon>> \in Seq(Token)
  <2> HIDE DEF Token
  <2> QED
    BY <1>2
<1>4. front \in Seq(Token)
  BY <1>3, Zenon
<1>5. \A g \in 1..NumGroups : Piece(g) \in Seq(Token)
  <2> TAKE g \in 1..NumGroups
  <2>1. <<a[g]>> \in Seq(Token) /\ <<a[g], Colon>> \in Seq(Token)
    BY <1>2, <1>3
  <2> QED
    BY <1>3, <2>1, Zenon
<1> HIDE DEF front, Piece
<1>6. pieces \in Seq(Seq(Token))
  <2>1. NumGroups \in Nat
    BY DEF NumGroups
  <2>2. pieces \in [1..NumGroups -> Seq(Token)]
    BY <1>5
  <2> HIDE DEF pieces
  <2> QED
    BY <2>1, <2>2, FunctionIsSeq
<1> HIDE DEF pieces
<1>7. Chained(pieces) \in Seq(Token)
  BY <1>3, <1>6, ChainedAppend
<1> HIDE DEF Token
<1>8. front \o Chained(pieces) \in Seq(Token)
  BY <1>4, <1>7
<1> QED
  BY <1>1, <1>8

LEMMA TypeParts ==
    TypeOK <=> /\ locator \in [kind : Kinds \cup {UDPv6}, address : Address]
               /\ IsText(text)
BY DEF TypeOK, IsText, Token

LEMMA SetType ==
    ASSUME NEW K, NEW l \in [kind : K, address : Address], NEW t, IsText(t)
    PROVE  SetIPv6(l, t) \in [kind : K, address : Address]
<1>1. CASE l.kind \in V6Kinds /\ IPv6isCorrect(t.tokens)
  <2>1. ReadAddress(t) \in Address
    BY <1>1, ReadAddressType
  <2> QED
    BY <1>1, <2>1 DEF SetIPv6
<1>2. CASE ~(l.kind \in V6Kinds /\ IPv6isCorrect(t.tokens))
  BY <1>2 DEF SetIPv6
<1> QED
  BY <1>1, <1>2

LEMMA ZeroIsAddress == ZeroAddress \in Address
BY MaxGroupIsNat DEF ZeroAddress, Address

LEMMA NoTextIsText == IsText(NoText)
BY DEF IsText, NoText, Plain

LEMMA StepKeepsType ==
    ASSUME TypeOK, [Next]_vars
    PROVE  TypeOK'
<1> DEFINE Locators == [kind : Kinds \cup {UDPv6}, address : Address]
<1>1. locator \in Locators /\ IsText(text)
  BY TypeParts
<1> SUFFICES locator' \in Locators /\ IsText(text')
  BY DEF TypeOK, IsText, Token
<1>2. \A t \in Texts : IsText(t)
  BY TextsAssumption DEF IsText, Token
<1>3. ASSUME NEW t \in Texts \cup {text}, ReadText(t)
      PROVE  locator' \in Locators /\ IsText(text')
  <2>1. IsText(t)
    BY <1>1, <1>2
  <2>2. locator' = SetIPv6(locator, t) /\ text' = t
    BY <1>3 DEF ReadText
  <2> QED
    BY <1>1, <2>1, <2>2, SetType
<1>4. ASSUME NEW t \in Texts \cup {text}, NEW kind \in Kinds, CreateLocator(kind, t)
      PROVE  locator' \in Locators /\ IsText(text')
  <2>1. IsText(t)
    BY <1>1, <1>2
  <2> DEFINE l == [kind |-> kind, address |-> ZeroAddress]
  <2>2. l \in Locators
    BY ZeroIsAddress
  <2>3. locator' = SetIPv6(l, t) /\ text' = t
    BY <1>4 DEF CreateLocator
  <2> HIDE DEF l
  <2> QED
    BY <2>1, <2>2, <2>3, SetType
<1>5. ASSUME NEW a \in Addresses, SetGroups(a)
      PROVE  locator' \in Locators /\ IsText(text')
  <2>1. locator' \in Locators
    BY <1>1, <1>5, AddressesAssumption DEF SetGroups
  <2> QED
    BY <1>5, <2>1, NoTextIsText DEF SetGroups
<1>6. CASE WriteText
  <2>1. ToIPv6string(locator.address) \in Seq(Token)
    BY <1>1, PrintedType
  <2> QED
    BY <1>1, <1>6, <2>1 DEF WriteText, IsText, Plain
<1>7. CASE UNCHANGED vars
  BY <1>1, <1>7 DEF vars
<1> HIDE DEF Locators
<1> QED
  BY <1>3, <1>4, <1>5, <1>6, <1>7, Zenon DEF Next

(* Whatever texts an address is read from, and whatever is printed, the     *)
(* locator keeps eight groups of 16 bits: no read takes a colon or a        *)
(* refused quartet for a number, or a number where there is none.           *)
THEOREM AddressTypeCorrect == Spec => []TypeOK
<1>1. Init => TypeOK
  <2> SUFFICES ASSUME Init
               PROVE  TypeOK
    OBVIOUS
  <2>1. locator \in [kind : Kinds \cup {UDPv6}, address : Address]
    BY ZeroIsAddress DEF Init
  <2>2. IsText(text)
    BY NoTextIsText DEF Init
  <2> QED
    BY <2>1, <2>2, TypeParts
<1>2. TypeOK /\ [Next]_vars => TypeOK'
  BY StepKeepsType
<1> QED
  BY <1>1, <1>2, PTL DEF Spec

-----------------------------------------------------------------------------
(***************************************************************************)
(* Where the quartets are, given in their order: how many there are, which *)
(* is the k-th, and how many colons are among them.                        *)
(***************************************************************************)
Enumerates(places, n, e) ==
    /\ e \in [1..n -> Nat]
    /\ \A i, j \in 1..n : i < j => e[i] < e[j]
    /\ places = {e[k] : k \in 1..n}

RankIs(places, e, m) ==
    /\ IsFiniteSet({e[k] : k \in 1..m})
    /\ Cardinality({e[k] : k \in 1..m}) = m
    /\ m > 0 => {j \in places : j <= e[m]} = {e[k] : k \in 1..m}

LEMMA RankOfPlace ==
    ASSUME NEW n \in Nat, NEW places, NEW e, Enumerates(places, n, e), NEW m \in 0..n
    PROVE  RankIs(places, e, m)
<1> DEFINE s == {e[k] : k \in 1..m}
           f == [k \in 1..m |-> e[k]]
<1>1. e \in [1..n -> Nat] /\ places = {e[k] : k \in 1..n}
      /\ \A i, j \in 1..n : i < j => e[i] < e[j]
  BY DEF Enumerates
<1>2. \A i, j \in 1..m : e[i] = e[j] => i = j
  <2> TAKE i, j \in 1..m
  <2>1. i \in 1..n /\ j \in 1..n /\ (i < j \/ j < i \/ i = j)
    OBVIOUS
  <2>2. e[i] \in Nat /\ e[j] \in Nat
    BY <1>1, <2>1
  <2> QED
    BY <1>1, <2>1, <2>2
<1>3. ExistsBijection(1..m, s)
  <2>1. f \in [1..m -> s] /\ \A k \in 1..m : f[k] = e[k]
    OBVIOUS
  <2>2. \A x \in s : \E k \in 1..m : e[k] = x
    OBVIOUS
  <2> HIDE DEF f, s
  <2>3. f \in Bijection(1..m, s)
    BY <1>2, <2>1, <2>2 DEF Bijection, Injection, Surjection, IsInjective
  <2> QED
    BY <2>3 DEF ExistsBijection
<1>4. IsFiniteSet(1..m) /\ Cardinality(1..m) = m
  BY FS_Interval
<1>5. IsFiniteSet(s) /\ Cardinality(s) = m
  <2> HIDE DEF s
  <2>1. IsFiniteSet(s) /\ Cardinality(s) = Cardinality(1..m)
    BY <1>3, <1>4, FS_Bijection
  <2> QED
    BY <1>4, <2>1
<1>6. ASSUME m > 0
      PROVE  {j \in places : j <= e[m]} = s
  <2>1. \A k \in 1..n : e[k] <= e[m] <=> k <= m
    <3> TAKE k \in 1..n
    <3>1. m \in 1..n /\ (k < m \/ m < k \/ k = m)
      BY <1>6
    <3>2. e[k] \in Nat /\ e[m] \in Nat
      BY <1>1, <3>1
    <3>3. (k < m => e[k] < e[m]) /\ (m < k => e[m] < e[k])
      BY <1>1, <3>1
    <3> QED
      BY <3>1, <3>2, <3>3
  <2>2. \A k \in 1..m : k \in 1..n /\ k <= m
    OBVIOUS
  <2>3. \A k \in 1..n : k <= m => k \in 1..m
    OBVIOUS
  <2> QED
    BY <1>1, <2>1, <2>2, <2>3
<1> QED
  BY <1>5, <1>6 DEF RankIs

LEMMA PlacesInOrder ==
    ASSUME NEW n \in Nat, NEW places, NEW e, Enumerates(places, n, e)
    PROVE  /\ IsFiniteSet(places) /\ Cardinality(places) = n
           /\ \A k \in 1..n : PlaceOf(places, k) = e[k]
<1>1. places = {e[k] : k \in 1..n}
  BY DEF Enumerates
<1>2. IsFiniteSet(places) /\ Cardinality(places) = n
  <2>1. n \in 0..n
    OBVIOUS
  <2> QED
    BY <1>1, <2>1, RankOfPlace DEF RankIs
<1>3. \A m \in 1..n : Cardinality({j \in places : j <= e[m]}) = m
  <2> TAKE m \in 1..n
  <2>1. m \in 0..n /\ m > 0
    OBVIOUS
  <2>0. RankIs(places, e, m)
    BY <2>1, RankOfPlace
  <2>2. {j \in places : j <= e[m]} = {e[k] : k \in 1..m}
    BY <2>0, <2>1 DEF RankIs
  <2>3. Cardinality({e[k] : k \in 1..m}) = m
    BY <2>0 DEF RankIs
  <2> QED
    BY <2>2, <2>3
<1>4. ASSUME NEW k \in 1..n
      PROVE  PlaceOf(places, k) = e[k]
  <2>1. e[k] \in places /\ Cardinality({j \in places : j <= e[k]}) = k
    BY <1>1, <1>3
  <2>2. \A i \in places : Cardinality({j \in places : j <= i}) = k => i = e[k]
    <3> SUFFICES ASSUME NEW m \in 1..n, Cardinality({j \in places : j <= e[m]}) = k
                 PROVE  e[m] = e[k]
      BY <1>1
    <3> QED
      BY <1>3
  <2> QED
    BY <2>1, <2>2 DEF PlaceOf
<1> QED
  BY <1>2, <1>4

(* What is not a quartet is a colon.                                        *)
LEMMA ColonsAndQuartets ==
    ASSUME NEW tokens \in Seq(Token)
    PROVE  Colons(tokens) = Len(tokens) - Cardinality(Places(tokens))
<1> DEFINE C == {i \in DOMAIN tokens : tokens[i] = Colon}
           P == Places(tokens)
<1>1. Len(tokens) \in Nat /\ DOMAIN tokens = 1..Len(tokens)
  OBVIOUS
<1>2. /\ IsFiniteSet(1..Len(tokens)) /\ Cardinality(1..Len(tokens)) = Len(tokens)
  BY <1>1, FS_Interval, SMTT(30)
<1>3. P \in SUBSET (1..Len(tokens)) /\ C = (1..Len(tokens)) \ P
  BY <1>1 DEF Places
<1>4. IsFiniteSet(P) /\ Cardinality(P) \in Nat /\ (1..Len(tokens)) \cap P = P
  BY <1>1, <1>3, SubsetsAreFinite
<1> HIDE DEF C, P
<1>5. Cardinality(C) = Cardinality(1..Len(tokens)) - Cardinality((1..Len(tokens)) \cap P)
  <2> DEFINE I == 1..Len(tokens)
  <2> HIDE DEF I
  <2>1. Cardinality(I \ P) = Cardinality(I) - Cardinality(I \cap P)
    BY <1>2, <1>4, FS_Difference DEF I
  <2> QED
    BY <1>3, <2>1 DEF I
<1> QED
  BY <1>2, <1>4, <1>5 DEF Colons, C, P

-----------------------------------------------------------------------------
(***************************************************************************)
(* Notations.                                                              *)
(***************************************************************************)
Width(n) == IF n = 0 THEN 0 ELSE 2 * n - 1

ColonsBetween(s, numbers) ==
    /\ s \in Seq(Token) /\ Len(s) = Width(Len(numbers))
    /\ \A k \in 1..Len(numbers) : s[2 * k - 1] = numbers[k]
    /\ \A k \in 1..Len(numbers) - 1 : s[2 * k] = Colon

LEMMA Halves == \A i \in Nat : \E k \in Nat : i = 2 * k \/ i = 2 * k + 1
<1> DEFINE S == {i \in Nat : \E k \in Nat : i = 2 * k \/ i = 2 * k + 1}
<1>1. 0 \in S
  BY 0 = 2 * 0
<1>2. ASSUME NEW i \in Nat, i \in S
      PROVE  i + 1 \in S
  <2>1. PICK k \in Nat : i = 2 * k \/ i = 2 * k + 1
    BY <1>2
  <2>2. (i + 1 = 2 * k + 1 \/ i + 1 = 2 * (k + 1)) /\ k + 1 \in Nat
    BY <2>1
  <2>3. \E m \in Nat : i + 1 = 2 * m \/ i + 1 = 2 * m + 1
    BY <2>2, Zenon
  <2> QED
    BY <2>3
<1> HIDE DEF S
<1>3. Nat \subseteq S
  BY <1>1, <1>2, NatSetInduction
<1> QED
  BY <1>3 DEF S

LEMMA ElementOfSeq ==
    ASSUME NEW S, NEW s \in Seq(S)
    PROVE  Len(s) \in Nat /\ \A i \in 1..Len(s) : s[i] \in S
OBVIOUS

LEMMA Parity ==
    ASSUME NEW k \in Nat
    PROVE  /\ (2 * k) % 2 = 0 /\ (2 * k + 1) % 2 = 1
           /\ (2 * k) \div 2 = k
OBVIOUS

LEMMA SeparatedShape ==
    ASSUME NEW numbers \in Seq(0..MaxGroup)
    PROVE  ColonsBetween(Separated(numbers), numbers)
<1> DEFINE n == Len(numbers)
           s == Separated(numbers)
<1>1. n \in Nat /\ (\A k \in 1..n : numbers[k] \in Token) /\ Colon \in Token
  <2>1. Colon \in Token /\ \A m \in 0..MaxGroup : m \in Token
    BY MaxGroupIsNat DEF Token, Colon
  <2>2. n \in Nat /\ \A k \in 1..n : numbers[k] \in 0..MaxGroup
    <3> DEFINE G == 0..MaxGroup
    <3>1. numbers \in Seq(G)
      OBVIOUS
    <3> HIDE DEF G
    <3>2. \A k \in 1..n : numbers[k] \in G
      BY <3>1, ElementOfSeq
    <3> QED
      BY <3>2 DEF G
  <2> QED
    BY <2>1, <2>2
<1>2. s = [i \in 1..2 * n - 1 |-> IF i % 2 = 1 THEN numbers[(i + 1) \div 2] ELSE Colon]
  BY DEF Separated
<1> HIDE DEF n, s
<1>3. 1..2 * n - 1 = 1..Width(n) /\ Width(n) \in Nat
  BY <1>1 DEF Width
<1>4. ASSUME NEW k \in 1..n
      PROVE  s[2 * k - 1] = numbers[k] /\ 2 * k - 1 \in 1..2 * n - 1
  <2>1. 2 * k - 1 \in 1..2 * n - 1 /\ k \in Nat /\ k - 1 \in Nat
    BY <1>1
  <2>2. (2 * (k - 1) + 1) % 2 = 1 /\ (2 * k) \div 2 = k
    BY <2>1, Parity
  <2>3. 2 * (k - 1) + 1 = 2 * k - 1 /\ (2 * k - 1) + 1 = 2 * k
    BY <2>1
  <2>4. (2 * k - 1) % 2 = 1 /\ ((2 * k - 1) + 1) \div 2 = k
    BY <2>2, <2>3
  <2> QED
    BY <1>2, <2>1, <2>4
<1>5. ASSUME NEW k \in 1..n - 1
      PROVE  s[2 * k] = Colon /\ 2 * k \in 1..2 * n - 1
  <2>1. 2 * k \in 1..2 * n - 1 /\ k \in Nat
    BY <1>1
  <2>2. (2 * k) % 2 = 0
    BY <2>1, Parity
  <2> QED
    BY <1>2, <2>1, <2>2
<1>6. ASSUME NEW i \in 1..2 * n - 1
      PROVE  s[i] \in Token
  <2>0. i \in Nat
    BY <1>1
  <2>1. PICK k \in Nat : i = 2 * k \/ i = 2 * k + 1
    BY <2>0, Halves
  <2>2. CASE i = 2 * k
    <3>1. k \in 1..n - 1
      BY <1>1, <2>2
    <3> QED
      BY <1>1, <1>5, <2>2, <3>1
  <2>3. CASE i = 2 * k + 1
    <3>1. k + 1 \in 1..n /\ i = 2 * (k + 1) - 1
      BY <1>1, <2>3
    <3>2. s[i] = numbers[k + 1]
      BY <1>4, <3>1
    <3> QED
      BY <1>1, <3>1, <3>2
  <2> QED
    BY <2>1, <2>2, <2>3
<1>7. s \in [1..2 * n - 1 -> Token]
  BY <1>2, <1>6
<1>8. s \in Seq(Token) /\ Len(s) = Width(n)
  <2> HIDE DEF Token
  <2>1. s \in [1..Width(n) -> Token]
    BY <1>3, <1>7
  <2> QED
    BY <1>3, <2>1, FunctionIsSeq
<1> QED
  BY <1>4, <1>5, <1>8 DEF ColonsBetween, s, n

(* A text with p quartets before its "::" and q after it, in order v.       *)
Around(tokens, p, q, v) ==
    /\ tokens \in Seq(Token) /\ Len(tokens) = Width(p) + 2 + Width(q)
    /\ \A k \in 1..p : tokens[2 * k - 1] = v[k]
    /\ \A k \in 1..p - 1 : tokens[2 * k] = Colon
    /\ tokens[Width(p) + 1] = Colon /\ tokens[Width(p) + 2] = Colon
    /\ \A k \in 1..q : tokens[Width(p) + 1 + 2 * k] = v[p + k]
    /\ \A k \in 1..q - 1 : tokens[Width(p) + 2 + 2 * k] = Colon

LEMMA WidthIsNat == \A n \in Nat : /\ Width(n) \in Nat
                                   /\ \A k \in 1..n : 2 * k - 1 \in 1..Width(n)
                                   /\ \A k \in 1..n - 1 : 2 * k \in 1..Width(n)
BY DEF Width

(* s is the tokens of a, and then those of b. *)
Follows(s, a, b) ==
    /\ s \in Seq(Token) /\ Len(s) = Len(a) + Len(b)
    /\ \A i \in 1..Len(a) : s[i] = a[i]
    /\ \A i \in 1..Len(b) : s[i + Len(a)] = b[i]

LEMMA Joining ==
    ASSUME NEW a \in Seq(Token), NEW b \in Seq(Token)
    PROVE  Follows(a \o b, a, b)
<1> HIDE DEF Token
<1>1. a \o b \in Seq(Token) /\ Len(a \o b) = Len(a) + Len(b)
  BY Concatenation
<1>2. \A i \in 1..Len(a) : (a \o b)[i] = a[i]
  BY Concatenation
<1>3. \A i \in 1..Len(b) : (a \o b)[i + Len(a)] = b[i]
  BY Concatenation
<1> QED
  BY <1>1, <1>2, <1>3 DEF Follows

LEMMA JoinShape ==
    ASSUME NEW x \in Seq(0..MaxGroup), NEW y \in Seq(0..MaxGroup),
           NEW l, NEW r, ColonsBetween(l, x), ColonsBetween(r, y)
    PROVE  Around(l \o <<Colon, Colon>> \o r, Len(x), Len(y), x \o y)
<1> DEFINE p == Len(x)
           q == Len(y)
           c == <<Colon, Colon>>
           v == x \o y
           lc == l \o c
           tokens == lc \o r
           w == Width(p)
<1>1. /\ p \in Nat /\ q \in Nat /\ w \in Nat /\ Width(q) \in Nat
      /\ \A k \in 1..p : 2 * k - 1 \in 1..w
      /\ \A k \in 1..p - 1 : 2 * k \in 1..w
      /\ \A k \in 1..q : 2 * k - 1 \in 1..Width(q)
      /\ \A k \in 1..q - 1 : 2 * k \in 1..Width(q)
  <2>1. p \in Nat /\ q \in Nat
    OBVIOUS
  <2> HIDE DEF p, q
  <2> QED
    BY <2>1, WidthIsNat
<1>2. /\ c \in Seq(Token) /\ Len(c) = 2 /\ c[1] = Colon /\ c[2] = Colon
  <2>1. Colon \in Token
    BY MaxGroupIsNat DEF Token, Colon
  <2> HIDE DEF Token
  <2> QED
    BY <2>1
<1>3. /\ l \in Seq(Token) /\ Len(l) = w
      /\ \A k \in 1..p : l[2 * k - 1] = x[k]
      /\ \A k \in 1..p - 1 : l[2 * k] = Colon
  BY DEF ColonsBetween
<1>4. /\ r \in Seq(Token) /\ Len(r) = Width(q)
      /\ \A k \in 1..q : r[2 * k - 1] = y[k]
      /\ \A k \in 1..q - 1 : r[2 * k] = Colon
  BY DEF ColonsBetween
<1>5. /\ \A k \in 1..p : v[k] = x[k]
      /\ \A k \in 1..q : v[k + p] = y[k]
  <2> DEFINE G == 0..MaxGroup
  <2>1. x \in Seq(G) /\ y \in Seq(G)
    OBVIOUS
  <2> HIDE DEF G
  <2> QED
    BY <2>1, Concatenation
<1> HIDE DEF c, v, p, q, w
<1>6. /\ lc \in Seq(Token) /\ Len(lc) = w + 2
      /\ \A i \in 1..w : lc[i] = l[i]
      /\ \A i \in 1..2 : lc[i + w] = c[i]
  <2>1. Follows(lc, l, c)
    BY <1>2, <1>3, Joining
  <2> HIDE DEF lc
  <2> QED
    BY <1>2, <1>3, <2>1 DEF Follows
<1> HIDE DEF lc
<1>7. /\ tokens \in Seq(Token) /\ Len(tokens) = w + 2 + Width(q)
      /\ \A i \in 1..w + 2 : tokens[i] = lc[i]
      /\ \A i \in 1..Width(q) : tokens[i + (w + 2)] = r[i]
  <2>1. Follows(tokens, lc, r)
    BY <1>4, <1>6, Joining
  <2> HIDE DEF tokens
  <2> QED
    BY <1>4, <1>6, <2>1 DEF Follows
<1> HIDE DEF tokens
<1>8. ASSUME NEW k \in 1..p
      PROVE  tokens[2 * k - 1] = v[k]
  <2>1. 2 * k - 1 \in 1..w /\ 2 * k - 1 \in 1..w + 2
    BY <1>1
  <2>2. tokens[2 * k - 1] = lc[2 * k - 1]
    BY <1>7, <2>1
  <2>3. lc[2 * k - 1] = l[2 * k - 1]
    BY <1>6, <2>1
  <2> QED
    BY <1>3, <1>5, <2>2, <2>3
<1>9. ASSUME NEW k \in 1..p - 1
      PROVE  tokens[2 * k] = Colon
  <2>1. 2 * k \in 1..w /\ 2 * k \in 1..w + 2
    BY <1>1
  <2> QED
    BY <1>3, <1>6, <1>7, <2>1
<1>10. tokens[w + 1] = Colon /\ tokens[w + 2] = Colon
  <2>1. w + 1 \in 1..w + 2 /\ w + 2 \in 1..w + 2 /\ 1 + w = w + 1 /\ 2 + w = w + 2
    BY <1>1
  <2>2. lc[1 + w] = c[1] /\ lc[2 + w] = c[2]
    BY <1>6
  <2>3. tokens[w + 1] = lc[w + 1] /\ tokens[w + 2] = lc[w + 2]
    BY <1>7, <2>1
  <2> QED
    BY <1>2, <2>1, <2>2, <2>3
<1>11. ASSUME NEW k \in 1..q
       PROVE  tokens[w + 1 + 2 * k] = v[p + k]
  <2>1. 2 * k - 1 \in 1..Width(q) /\ (2 * k - 1) + (w + 2) = w + 1 + 2 * k /\ k + p = p + k
    BY <1>1
  <2>2. tokens[(2 * k - 1) + (w + 2)] = r[2 * k - 1]
    BY <1>7, <2>1
  <2> QED
    BY <1>4, <1>5, <2>1, <2>2
<1>12. ASSUME NEW k \in 1..q - 1
       PROVE  tokens[w + 2 + 2 * k] = Colon
  <2>1. 2 * k \in 1..Width(q) /\ 2 * k + (w + 2) = w + 2 + 2 * k
    BY <1>1
  <2>2. tokens[2 * k + (w + 2)] = r[2 * k]
    BY <1>7, <2>1
  <2> QED
    BY <1>4, <2>1, <2>2
<1>13. Around(tokens, p, q, v)
  BY <1>7, <1>8, <1>9, <1>10, <1>11, <1>12 DEF Around, w
<1> QED
  BY <1>13 DEF tokens, lc, c, p, q, v

(* Where the k-th quartet is. *)
Spot(p, k) == IF k <= p THEN 2 * k - 1 ELSE Width(p) + 1 + 2 * (k - p)

(* What is known of the places of a text with "::".                         *)
LEMMA AroundPlaces ==
    ASSUME NEW p \in Nat, NEW q \in Nat, NEW tokens, NEW v,
           \A k \in 1..p + q : v[k] \in 0..MaxGroup, Around(tokens, p, q, v)
    PROVE  /\ Enumerates(Places(tokens), p + q, [k \in 1..p + q |-> Spot(p, k)])
           /\ \A k \in 1..p + q : tokens[Spot(p, k)] = v[k]
<1> DEFINE w == Width(p)
           n == p + q
           e == [k \in 1..n |-> Spot(p, k)]
<1>1. /\ tokens \in Seq(Token) /\ Len(tokens) = w + 2 + Width(q)
      /\ \A k \in 1..p : tokens[2 * k - 1] = v[k]
      /\ \A k \in 1..p - 1 : tokens[2 * k] = Colon
      /\ tokens[w + 1] = Colon /\ tokens[w + 2] = Colon
      /\ \A k \in 1..q : tokens[w + 1 + 2 * k] = v[p + k]
      /\ \A k \in 1..q - 1 : tokens[w + 2 + 2 * k] = Colon
  BY DEF Around
<1>2. w \in Nat /\ Width(q) \in Nat /\ DOMAIN tokens = 1..Len(tokens)
      /\ w = (IF p = 0 THEN 0 ELSE 2 * p - 1) /\ Width(q) = (IF q = 0 THEN 0 ELSE 2 * q - 1)
  BY <1>1 DEF Width
<1>3. ASSUME NEW k \in 1..n
      PROVE  /\ Spot(p, k) \in DOMAIN tokens /\ Spot(p, k) \in Nat
             /\ tokens[Spot(p, k)] = v[k]
  <2>1. CASE k <= p
    <3>1. k \in 1..p /\ Spot(p, k) = 2 * k - 1
      BY <2>1 DEF Spot
    <3>2. 2 * k - 1 \in 1..w + 2 + Width(q)
      BY <1>2, <3>1
    <3> QED
      BY <1>1, <1>2, <3>1, <3>2
  <2>2. CASE k > p
    <3>1. k - p \in 1..q /\ Spot(p, k) = w + 1 + 2 * (k - p) /\ p + (k - p) = k
      BY <2>2 DEF Spot
    <3>2. w + 1 + 2 * (k - p) \in 1..w + 2 + Width(q)
      BY <1>2, <3>1
    <3>3. tokens[w + 1 + 2 * (k - p)] = v[p + (k - p)]
      BY <1>1, <3>1
    <3> QED
      BY <1>1, <1>2, <3>1, <3>2, <3>3
  <2> QED
    BY <2>1, <2>2
<1>4. ASSUME NEW k \in 1..n
      PROVE  tokens[Spot(p, k)] # Colon
  <2>1. v[k] \in 0..MaxGroup
    OBVIOUS
  <2>2. \A m \in 0..MaxGroup : m # Colon
    BY MaxGroupIsNat DEF Colon
  <2>3. tokens[Spot(p, k)] = v[k]
    BY <1>3
  <2> QED
    BY <2>1, <2>2, <2>3
<1>5. \A i, j \in 1..n : i < j => Spot(p, i) < Spot(p, j)
  BY <1>2 DEF Spot
<1>6. ASSUME NEW i \in DOMAIN tokens, tokens[i] # Colon
      PROVE  \E k \in 1..n : i = Spot(p, k)
  <2>1. i \in Nat /\ i >= 1 /\ i <= w + 2 + Width(q)
    BY <1>1, <1>2
  <2>2. i # w + 1 /\ i # w + 2
    BY <1>1, <1>6
  <2>3. CASE i <= w
    <3>1. PICK h \in Nat : i = 2 * h \/ i = 2 * h + 1
      BY <2>1, Halves
    <3>2. i # 2 * h
      <4>1. i = 2 * h => h \in 1..p - 1
        BY <1>2, <2>1, <2>3
      <4> QED
        BY <1>1, <1>6, <4>1
    <3>3. h + 1 \in 1..n /\ h + 1 <= p /\ i = 2 * (h + 1) - 1
      BY <1>2, <2>1, <2>3, <3>1, <3>2
    <3> QED
      BY <3>3 DEF Spot
  <2>4. CASE i > w + 2
    <3>0. i - (w + 2) \in Nat
      BY <1>2, <2>1, <2>4
    <3>1. PICK h \in Nat : i - (w + 2) = 2 * h \/ i - (w + 2) = 2 * h + 1
      BY <3>0, Halves
    <3>2. i - (w + 2) # 2 * h
      <4>1. SUFFICES ASSUME i - (w + 2) = 2 * h
                     PROVE  FALSE
        OBVIOUS
      <4>2. i = w + 2 + 2 * h /\ h >= 1
        BY <1>2, <2>1, <2>4, <4>1, SMTT(30)
      <4>3. 2 * h <= Width(q)
        BY <1>2, <2>1, <4>2
      <4>4. h \in 1..q - 1
        BY <1>2, <4>2, <4>3
      <4> QED
        BY <1>1, <1>6, <4>2, <4>4
    <3>3. /\ p + h + 1 \in 1..n /\ ~(p + h + 1 <= p)
          /\ i = w + 1 + 2 * ((p + h + 1) - p)
      BY <1>2, <2>1, <2>4, <3>1, <3>2, SMTT(30)
    <3>4. i = Spot(p, p + h + 1)
      BY <3>3 DEF Spot
    <3> QED
      BY <3>3, <3>4
  <2> QED
    BY <1>2, <2>1, <2>2, <2>3, <2>4
<1>7. e \in [1..n -> Nat] /\ \A k \in 1..n : e[k] = Spot(p, k)
  BY <1>3
<1> HIDE DEF e
<1>8. Places(tokens) = {e[k] : k \in 1..n}
  BY <1>3, <1>4, <1>6, <1>7 DEF Places
<1>9. \A i, j \in 1..n : i < j => e[i] < e[j]
  BY <1>5, <1>7
<1>10. Enumerates(Places(tokens), n, e)
  BY <1>7, <1>8, <1>9 DEF Enumerates
<1> QED
  BY <1>3, <1>10 DEF e

(* What setIPv6 finds in such a text: the numbers in their order, as many   *)
(* colons, one "::", and a colon at an end only where that is.              *)
Found(tokens, p, q, v) ==
    /\ Colons(tokens) = Width(p) + 2 + Width(q) - (p + q)
    /\ Cardinality(Places(tokens)) = p + q
    /\ \A k \in 1..p + q : tokens[PlaceOf(Places(tokens), k)] = v[k]
    /\ DoubleColons(tokens) = {Width(p) + 1}
    /\ Head(tokens) = Colon <=> p = 0
    /\ Last(tokens) = Colon <=> q = 0
    /\ tokens[2] = Colon \/ p # 0
    /\ tokens[Len(tokens) - 1] = Colon \/ q # 0
    /\ \A i \in DOMAIN tokens : tokens[i] # Malformed

LEMMA AroundFound ==
    ASSUME NEW p \in Nat, NEW q \in Nat, NEW tokens, NEW v,
           \A k \in 1..p + q : v[k] \in 0..MaxGroup, Around(tokens, p, q, v)
    PROVE  Found(tokens, p, q, v)
<1> DEFINE w == Width(p)
           n == p + q
           e == [k \in 1..n |-> Spot(p, k)]
<1>1. /\ tokens \in Seq(Token) /\ Len(tokens) = w + 2 + Width(q)
      /\ tokens[w + 1] = Colon /\ tokens[w + 2] = Colon
      /\ \A k \in 1..p : tokens[2 * k - 1] = v[k]
      /\ \A k \in 1..q : tokens[w + 1 + 2 * k] = v[p + k]
  BY DEF Around
<1>2. w \in Nat /\ Width(q) \in Nat /\ DOMAIN tokens = 1..Len(tokens)
      /\ w = (IF p = 0 THEN 0 ELSE 2 * p - 1) /\ Width(q) = (IF q = 0 THEN 0 ELSE 2 * q - 1)
  BY <1>1 DEF Width
<1>3. Enumerates(Places(tokens), n, e) /\ \A k \in 1..n : tokens[Spot(p, k)] = v[k]
  BY AroundPlaces
<1>4. \A m \in 0..MaxGroup : m # Colon /\ m # Malformed
  BY MaxGroupIsNat DEF Colon, Malformed
<1>5. n \in Nat /\ \A k \in 1..n : e[k] = Spot(p, k)
  OBVIOUS
<1> HIDE DEF e
<1>6. Cardinality(Places(tokens)) = n
  BY <1>3, <1>5, PlacesInOrder
<1>7. \A k \in 1..n : tokens[PlaceOf(Places(tokens), k)] = v[k]
  <2> TAKE k \in 1..n
  <2>1. PlaceOf(Places(tokens), k) = e[k]
    BY <1>3, <1>5, PlacesInOrder
  <2> QED
    BY <1>3, <1>5, <2>1
<1>8. Colons(tokens) = w + 2 + Width(q) - n
  <2>1. Colons(tokens) = Len(tokens) - Cardinality(Places(tokens))
    BY <1>1, ColonsAndQuartets
  <2> QED
    BY <1>1, <1>2, <1>5, <1>6, <2>1
<1>9. \A k \in 1..p : tokens[2 * k - 1] # Colon
  <2> TAKE k \in 1..p
  <2>1. k \in 1..p + q
    OBVIOUS
  <2> QED
    BY <1>1, <1>4, <2>1
<1>10. \A k \in 1..q : tokens[w + 1 + 2 * k] # Colon
  <2> TAKE k \in 1..q
  <2>1. p + k \in 1..p + q
    OBVIOUS
  <2> QED
    BY <1>1, <1>4, <2>1
<1>11. Head(tokens) = Colon <=> p = 0
  <2>1. Head(tokens) = tokens[1]
    BY <1>1, <1>2
  <2>2. CASE p = 0
    BY <1>1, <1>2, <2>1, <2>2
  <2>3. CASE p # 0
    <3>1. 1 \in 1..p /\ 2 * 1 - 1 = 1
      BY <2>3
    <3> QED
      BY <1>9, <2>1, <2>3, <3>1
  <2> QED
    BY <2>2, <2>3
<1>12. Last(tokens) = Colon <=> q = 0
  <2>1. Last(tokens) = tokens[w + 2 + Width(q)]
    BY <1>1, <1>2 DEF Last
  <2>2. CASE q = 0
    BY <1>1, <1>2, <2>1, <2>2
  <2>3. CASE q # 0
    <3>1. q \in 1..q /\ w + 1 + 2 * q = w + 2 + Width(q)
      BY <1>2, <2>3
    <3> QED
      BY <1>10, <2>1, <2>3, <3>1
  <2> QED
    BY <2>2, <2>3
<1>13. tokens[2] = Colon \/ p # 0
  BY <1>1, <1>2
<1>14. tokens[Len(tokens) - 1] = Colon \/ q # 0
  BY <1>1, <1>2
<1>15. \A i \in DOMAIN tokens : tokens[i] # Malformed
  <2> SUFFICES ASSUME NEW i \in DOMAIN tokens, tokens[i] # Colon
               PROVE  tokens[i] # Malformed
    BY DEF Colon, Malformed
  <2>1. PICK k \in 1..n : i = Spot(p, k)
    BY <1>3, <1>5 DEF Places, Enumerates
  <2>2. tokens[i] = v[k] /\ v[k] \in 0..MaxGroup
    BY <1>3, <2>1
  <2> QED
    BY <1>4, <2>2
<1>16. DoubleColons(tokens) = {w + 1}
  <2>1. w + 1 \in 1..Len(tokens) - 1 /\ (w + 1) + 1 = w + 2
    BY <1>1, <1>2
  <2>2. ASSUME NEW i \in 1..Len(tokens) - 1, tokens[i] = Colon, tokens[i + 1] = Colon,
               i # w + 1
        PROVE  FALSE
    <3>1. i \in Nat /\ i >= 1 /\ i <= w + 1 + Width(q)
      BY <1>1, <1>2
    <3>2. CASE i <= w
      <4>1. PICK h \in Nat : i = 2 * h \/ i = 2 * h + 1
        BY <3>1, Halves
      <4>2. CASE i = 2 * h
        <5>1. h + 1 \in 1..p /\ 2 * (h + 1) - 1 = i + 1
          BY <1>2, <3>1, <3>2, <4>2
        <5> QED
          BY <1>9, <2>2, <5>1
      <4>3. CASE i = 2 * h + 1
        <5>1. h + 1 \in 1..p /\ 2 * (h + 1) - 1 = i
          BY <1>2, <3>1, <3>2, <4>3
        <5> QED
          BY <1>9, <2>2, <5>1
      <4> QED
        BY <4>1, <4>2, <4>3
    <3>3. CASE i >= w + 2
      <4>0. i - (w + 2) \in Nat
        BY <1>2, <3>1, <3>3
      <4>1. PICK h \in Nat : i - (w + 2) = 2 * h \/ i - (w + 2) = 2 * h + 1
        BY <4>0, Halves
      <4>4. q > 0 /\ Width(q) = 2 * q - 1
        BY <1>2, <3>1, <3>3
      <4>2. CASE i - (w + 2) = 2 * h
        <5>1. h + 1 \in 1..q /\ w + 1 + 2 * (h + 1) = i + 1
          BY <1>2, <3>1, <3>3, <4>2, <4>4
        <5> QED
          BY <1>10, <2>2, <5>1
      <4>3. CASE i - (w + 2) = 2 * h + 1
        <5>1. h + 1 \in 1..q /\ w + 1 + 2 * (h + 1) = i
          BY <1>2, <3>1, <3>3, <4>3, <4>4
        <5> QED
          BY <1>10, <2>2, <5>1
      <4> QED
        BY <4>1, <4>2, <4>3
    <3> QED
      BY <1>2, <2>2, <3>1, <3>2, <3>3
  <2> QED
    BY <1>1, <2>1, <2>2 DEF DoubleColons
<1> QED
  BY <1>6, <1>7, <1>8, <1>11, <1>12, <1>13, <1>14, <1>15, <1>16 DEF Found

(* The colons up to the "::" are as many as the quartets before it.         *)
LEMMA ColonsBefore ==
    ASSUME NEW p \in Nat \ {0}, NEW q \in Nat, NEW tokens, NEW v,
           \A k \in 1..p + q : v[k] \in 0..MaxGroup, Around(tokens, p, q, v)
    PROVE  Colons(SubSeq(tokens, 1, Width(p) + 1)) = p
<1> DEFINE w == Width(p)
           front == SubSeq(tokens, 1, w + 1)
           e == [k \in 1..p |-> 2 * k - 1]
<1>1. /\ tokens \in Seq(Token) /\ Len(tokens) = w + 2 + Width(q)
      /\ \A k \in 1..p : tokens[2 * k - 1] = v[k]
      /\ \A k \in 1..p - 1 : tokens[2 * k] = Colon
      /\ tokens[w + 1] = Colon
  BY DEF Around
<1>2. w \in Nat /\ Width(q) \in Nat /\ w = 2 * p - 1
  BY DEF Width
<1>3. /\ front \in Seq(Token) /\ Len(front) = w + 1
      /\ \A i \in 1..w + 1 : front[i] = tokens[i]
  <2> HIDE DEF Token
  <2>1. w + 1 \in 1..Len(tokens)
    BY <1>1, <1>2
  <2> QED
    BY <1>1, <2>1
<1> HIDE DEF front
<1>4. \A m \in 0..MaxGroup : m # Colon
  BY MaxGroupIsNat DEF Colon
<1>5. ASSUME NEW k \in 1..p
      PROVE  2 * k - 1 \in DOMAIN front /\ front[2 * k - 1] # Colon
  <2>1. 2 * k - 1 \in 1..w + 1 /\ k \in 1..p + q
    BY <1>2
  <2>2. front[2 * k - 1] = v[k]
    BY <1>1, <1>3, <2>1
  <2> QED
    BY <1>3, <1>4, <2>1, <2>2
<1>6. ASSUME NEW i \in DOMAIN front, front[i] # Colon
      PROVE  \E k \in 1..p : i = 2 * k - 1
  <2>1. i \in 1..w + 1 /\ i \in Nat /\ tokens[i] # Colon /\ i # w + 1
    BY <1>1, <1>2, <1>3, <1>6
  <2>2. PICK h \in Nat : i = 2 * h \/ i = 2 * h + 1
    BY <2>1, Halves
  <2>3. i # 2 * h
    <3>1. i = 2 * h => h \in 1..p - 1
      BY <1>2, <2>1
    <3> QED
      BY <1>1, <2>1, <3>1
  <2>4. h + 1 \in 1..p /\ i = 2 * (h + 1) - 1
    BY <1>2, <2>1, <2>2, <2>3
  <2> QED
    BY <2>4
<1>7. e \in [1..p -> Nat] /\ \A k \in 1..p : e[k] = 2 * k - 1
  OBVIOUS
<1> HIDE DEF e
<1>8. Places(front) = {e[k] : k \in 1..p}
  <2>1. \A i \in Places(front) : \E k \in 1..p : i = e[k]
    BY <1>6, <1>7 DEF Places
  <2>2. \A k \in 1..p : e[k] \in Places(front)
    BY <1>5, <1>7 DEF Places
  <2> QED
    BY <2>1, <2>2
<1>9. \A i, j \in 1..p : i < j => e[i] < e[j]
  BY <1>7
<1>10. Enumerates(Places(front), p, e)
  BY <1>7, <1>8, <1>9 DEF Enumerates
<1>11. Cardinality(Places(front)) = p
  BY <1>10, PlacesInOrder
<1>12. Colons(front) = Len(front) - p
  BY <1>3, <1>11, ColonsAndQuartets
<1> QED
  BY <1>2, <1>3, <1>12 DEF front

LEMMA FoundIsCorrect ==
    ASSUME NEW p \in Nat, NEW q \in Nat, p + q <= 7, NEW tokens, NEW v, Found(tokens, p, q, v)
    PROVE  IPv6isCorrect(tokens)
<1> DEFINE count == Colons(tokens)
<1>1. count = Width(p) + 2 + Width(q) - (p + q)
  BY DEF Found
<1>2. count \in 2..8 /\ (count = 8 => p = 0 \/ q = 0)
  BY <1>1 DEF Width
<1>3. Cardinality(DoubleColons(tokens)) <= 1
  <2>1. Cardinality({Width(p) + 1}) = 1
    BY FS_Singleton
  <2> QED
    BY <2>1 DEF Found
<1>4. count = 8 => Colon \in {Head(tokens), Last(tokens)}
  BY <1>2 DEF Found
<1>5. Head(tokens) = Colon => tokens[2] = Colon
  BY DEF Found
<1>6. Last(tokens) = Colon => tokens[Len(tokens) - 1] = Colon
  BY DEF Found
<1>7. \A i \in DOMAIN tokens : tokens[i] # Malformed
  BY DEF Found
<1> HIDE DEF count
<1> QED
  BY <1>2, <1>3, <1>4, <1>5, <1>6, <1>7 DEF IPv6isCorrect, count

(* Behind a zone an ending "::" is not seen: the block is one group short,  *)
(* and the read that fails at the zone gives the missing zero.              *)
BlockSize(p, q, zone) == IF q = 0 /\ zone THEN 7 - p ELSE 8 - p - q

LEMMA BlockFound ==
    ASSUME NEW p \in Nat, NEW q \in Nat, p + q <= 7, NEW tokens, NEW v, NEW zone \in BOOLEAN,
           \A k \in 1..p + q : v[k] \in 0..MaxGroup, Around(tokens, p, q, v)
    PROVE  ZeroBlock([tokens |-> tokens, zone |-> zone])
             = [before |-> p, size |-> BlockSize(p, q, zone)]
<1> DEFINE t == [tokens |-> tokens, zone |-> zone]
           count == Colons(tokens)
           ends == Last(tokens) = Colon /\ ~zone
           double == DoubleColons(tokens)
           front == SubSeq(tokens, 1, CHOOSE i \in double : TRUE)
<1>1. ZeroBlock(t) = CASE Head(tokens) = Colon /\ ends -> [before |-> 0, size |-> 8]
        [] Head(tokens) = Colon /\ ~ends -> [before |-> 0, size |-> 9 - count]
        [] Head(tokens) # Colon /\ ends -> [before |-> count - 1, size |-> 9 - count]
        [] OTHER -> IF double = {} THEN [before |-> 8, size |-> 0]
                    ELSE [before |-> Colons(front), size |-> 8 - count]
  BY DEF ZeroBlock
<1>2. Found(tokens, p, q, v)
  BY AroundFound
<1>3. /\ count = Width(p) + 2 + Width(q) - (p + q)
      /\ Head(tokens) = Colon <=> p = 0
      /\ ends <=> q = 0 /\ ~zone
      /\ double = {Width(p) + 1}
  BY <1>2 DEF Found
<1>4. p # 0 => Colons(front) = p
  <2> SUFFICES ASSUME p # 0
               PROVE  Colons(front) = p
    OBVIOUS
  <2>1. (CHOOSE i \in double : TRUE) = Width(p) + 1
    BY <1>3
  <2>2. p \in Nat \ {0}
    OBVIOUS
  <2>3. Colons(SubSeq(tokens, 1, Width(p) + 1)) = p
    BY <2>2, ColonsBefore
  <2> QED
    BY <2>1, <2>3
<1> HIDE DEF t, count, ends, double, front
<1>5. CASE p = 0 /\ ends
  BY <1>1, <1>3, <1>5 DEF BlockSize, t
<1>6. CASE p = 0 /\ ~ends
  <2>1. BlockSize(p, q, zone) = 9 - count
    BY <1>3, <1>6 DEF BlockSize, Width
  <2> QED
    BY <1>1, <1>3, <1>6, <2>1 DEF t
<1>7. CASE p # 0 /\ ends
  <2>1. p = count - 1 /\ BlockSize(p, q, zone) = 9 - count
    BY <1>3, <1>7 DEF BlockSize, Width
  <2> QED
    BY <1>1, <1>3, <1>7, <2>1 DEF t
<1>8. CASE p # 0 /\ ~ends
  <2>1. BlockSize(p, q, zone) = 8 - count
    BY <1>3, <1>8 DEF BlockSize, Width
  <2>2. double # {}
    BY <1>3
  <2>3. ZeroBlock(t) = [before |-> Colons(front), size |-> 8 - count]
    BY <1>1, <1>3, <1>8, <2>2
  <2> QED
    BY <1>4, <1>8, <2>1, <2>3 DEF t
<1> QED
  BY <1>5, <1>6, <1>7, <1>8

LEMMA AroundIsRead ==
    ASSUME NEW a \in Address, NEW zone \in BOOLEAN,
           NEW p \in Nat, NEW q \in Nat, p + q <= 7, NEW tokens, NEW v,
           \A k \in 1..p : v[k] = a[k], \A k \in 1..q : v[p + k] = a[8 - q + k],
           \A g \in 1..8 : p < g /\ g <= 8 - q => a[g] = 0,
           Around(tokens, p, q, v)
    PROVE  /\ IPv6isCorrect(tokens)
           /\ ReadAddress([tokens |-> tokens, zone |-> zone]) = a
<1> DEFINE t == [tokens |-> tokens, zone |-> zone]
           n == p + q
           places == Places(tokens)
           size == BlockSize(p, q, zone)
<1>1. a = [g \in 1..NumGroups |-> a[g]] /\ \A g \in 1..8 : a[g] \in 0..MaxGroup
  BY DEF Address, NumGroups
<1>2. \A k \in 1..p + q : v[k] \in 0..MaxGroup
  <2> TAKE k \in 1..p + q
  <2>1. CASE k <= p
    <3>1. k \in 1..p /\ k \in 1..8
      BY <2>1
    <3> QED
      BY <1>1, <3>1
  <2>2. CASE k > p
    <3>1. k - p \in 1..q /\ p + (k - p) = k /\ 8 - q + (k - p) \in 1..8
      BY <2>2
    <3>2. v[p + (k - p)] = a[8 - q + (k - p)]
      BY <3>1
    <3> QED
      BY <1>1, <3>1, <3>2
  <2> QED
    BY <2>1, <2>2
<1>3. Found(tokens, p, q, v)
  BY <1>2, AroundFound
<1>4. IPv6isCorrect(tokens)
  BY <1>3, FoundIsCorrect
<1>5. ZeroBlock(t) = [before |-> p, size |-> size]
  BY <1>2, BlockFound
<1>6. Cardinality(places) = n /\ \A k \in 1..n : tokens[PlaceOf(places, k)] = v[k]
  BY <1>3 DEF Found
<1>7. \A k : NumberRead(t, k) =
          CASE k <= Cardinality(places) -> tokens[PlaceOf(places, k)]
            [] k > Cardinality(places) /\ zone -> 0
            [] k > Cardinality(places) /\ ~zone
                 -> tokens[PlaceOf(places, Cardinality(places))]
  BY DEF NumberRead
<1> HIDE DEF places
<1>8. \A k \in 1..n : NumberRead(t, k) = v[k]
  <2> TAKE k \in 1..n
  <2>1. k <= n /\ ~(k > n)
    OBVIOUS
  <2> QED
    BY <1>6, <1>7, <2>1
<1>9. zone => NumberRead(t, n + 1) = 0
  <2>1. ~(n + 1 <= n) /\ n + 1 > n
    OBVIOUS
  <2> QED
    BY <1>6, <1>7, <2>1
<1>10. ReadAddress(t) = [g \in 1..NumGroups |->
          CASE g <= p -> NumberRead(t, g)
            [] g > p /\ g <= p + size -> 0
            [] OTHER -> NumberRead(t, g - size)]
  BY <1>5 DEF ReadAddress
<1>11. size \in Nat /\ (q = 0 /\ zone => size = 7 - p) /\ (~(q = 0 /\ zone) => size = 8 - p - q)
  BY DEF BlockSize
<1> HIDE DEF t, size
<1>12. ASSUME NEW g \in 1..8
       PROVE  (CASE g <= p -> NumberRead(t, g)
                 [] g > p /\ g <= p + size -> 0
                 [] OTHER -> NumberRead(t, g - size)) = a[g]
  <2>1. CASE g <= p
    <3>1. g \in 1..n /\ g \in 1..p
      BY <2>1
    <3>2. NumberRead(t, g) = a[g]
      BY <1>8, <3>1
    <3>3. ~(g > p)
      BY <2>1
    <3> QED
      BY <2>1, <3>2, <3>3
  <2>2. CASE g > p /\ g <= p + size
    <3>1. a[g] = 0
      BY <1>11, <2>2
    <3>2. ~(g <= p)
      BY <2>2
    <3> QED
      BY <2>2, <3>1, <3>2
  <2>3. CASE g > p /\ g > p + size
    <3>1. NumberRead(t, g - size) = a[g]
      <4>1. CASE q = 0 /\ zone
        <5>1. g - size = n + 1 /\ g = 8
          BY <1>11, <2>3, <4>1
        <5>2. a[g] = 0
          BY <2>3, <4>1, <5>1
        <5> QED
          BY <1>9, <4>1, <5>1, <5>2
      <4>2. CASE ~(q = 0 /\ zone)
        <5>1. /\ g - (8 - q) \in 1..q /\ 8 - q + (g - (8 - q)) = g
              /\ g - size = p + (g - (8 - q)) /\ g - size \in 1..n
          BY <1>11, <2>3, <4>2
        <5>2. v[p + (g - (8 - q))] = a[8 - q + (g - (8 - q))]
          BY <5>1
        <5> QED
          BY <1>8, <5>1, <5>2
      <4> QED
        BY <4>1, <4>2
    <3>2. ~(g <= p) /\ ~(g <= p + size)
      BY <1>11, <2>3
    <3> QED
      BY <3>1, <3>2
  <2> QED
    BY <1>11, <2>1, <2>2, <2>3
<1>13. ReadAddress(t) = a
  BY <1>1, <1>10, <1>12 DEF NumGroups
<1> QED
  BY <1>4, <1>13 DEF t

LEMMA AddressIsSeq ==
    ASSUME NEW a \in Address
    PROVE  a \in Seq(0..MaxGroup) /\ Len(a) = 8
<1> DEFINE G == 0..MaxGroup
<1>1. a \in [1..8 -> G]
  BY DEF Address, NumGroups
<1> HIDE DEF G
<1>2. a \in Seq(G) /\ Len(a) = 8
  BY <1>1, FunctionIsSeq
<1> QED
  BY <1>2 DEF G

(* All eight numbers.                                                       *)
LEMMA WholeIsRead ==
    ASSUME NEW a \in Address, NEW zone \in BOOLEAN
    PROVE  /\ IPv6isCorrect(Separated(a))
           /\ ReadAddress([tokens |-> Separated(a), zone |-> zone]) = a
<1> DEFINE s == Separated(a)
           t == [tokens |-> s, zone |-> zone]
           e == [k \in 1..8 |-> 2 * k - 1]
           places == Places(s)
<1>1. /\ s \in Seq(Token) /\ Len(s) = 15
      /\ \A k \in 1..8 : s[2 * k - 1] = a[k]
      /\ \A k \in 1..7 : s[2 * k] = Colon
  <2>1. a \in Seq(0..MaxGroup) /\ Len(a) = 8
    BY AddressIsSeq
  <2>2. ColonsBetween(s, a)
    BY <2>1, SeparatedShape
  <2> HIDE DEF s
  <2> QED
    BY <2>1, <2>2 DEF ColonsBetween, Width
<1>2. a = [g \in 1..8 |-> a[g]] /\ \A g \in 1..8 : a[g] \in 0..MaxGroup
  BY DEF Address, NumGroups
<1>3. \A m \in 0..MaxGroup : m # Colon /\ m # Malformed
  BY MaxGroupIsNat DEF Colon, Malformed
<1> HIDE DEF s
<1>4. \A k \in 1..8 : s[2 * k - 1] # Colon /\ s[2 * k - 1] # Malformed
  BY <1>1, <1>2, <1>3
<1>5. ASSUME NEW i \in 1..15
      PROVE  (\E k \in 1..8 : i = 2 * k - 1) \/ (\E k \in 1..7 : i = 2 * k)
  <2>1. PICK h \in Nat : i = 2 * h \/ i = 2 * h + 1
    <3>1. i \in Nat
      OBVIOUS
    <3> QED
      BY <3>1, Halves
  <2>2. CASE i = 2 * h
    <3>1. h \in 1..7
      BY <2>2
    <3> QED
      BY <2>2, <3>1
  <2>3. CASE i = 2 * h + 1
    <3>1. h + 1 \in 1..8 /\ i = 2 * (h + 1) - 1
      BY <2>3
    <3> QED
      BY <3>1
  <2> QED
    BY <2>1, <2>2, <2>3
<1>6. e \in [1..8 -> Nat] /\ \A k \in 1..8 : e[k] = 2 * k - 1
  OBVIOUS
<1> HIDE DEF e
<1>7. places = {e[k] : k \in 1..8}
  <2>1. \A i \in places : \E k \in 1..8 : i = e[k]
    <3> SUFFICES ASSUME NEW i \in 1..15, s[i] # Colon
                 PROVE  \E k \in 1..8 : i = e[k]
      <4>1. DOMAIN s = 1..15
        BY <1>1
      <4> QED
        BY <4>1 DEF Places
    <3>1. PICK k \in 1..8 : i = 2 * k - 1
      BY <1>1, <1>5
    <3> QED
      BY <1>6, <3>1
  <2>2. \A k \in 1..8 : e[k] \in places
    <3> TAKE k \in 1..8
    <3>1. 2 * k - 1 \in DOMAIN s
      BY <1>1
    <3> QED
      BY <1>4, <1>6, <3>1 DEF Places
  <2> HIDE DEF places
  <2> QED
    BY <2>1, <2>2
<1>8. Enumerates(places, 8, e)
  <2>1. \A i, j \in 1..8 : i < j => e[i] < e[j]
    BY <1>6
  <2> QED
    BY <1>6, <1>7, <2>1 DEF Enumerates
<1>9. Cardinality(places) = 8 /\ \A k \in 1..8 : PlaceOf(places, k) = e[k]
  <2> HIDE DEF places
  <2>1. \A n \in Nat : n = 8 => Cardinality(places) = n /\ \A k \in 1..n : PlaceOf(places, k) = e[k]
    <3> TAKE n \in Nat
    <3> SUFFICES ASSUME n = 8
                 PROVE  Cardinality(places) = n /\ \A k \in 1..n : PlaceOf(places, k) = e[k]
      OBVIOUS
    <3>1. Enumerates(places, n, e)
      BY <1>8
    <3>2. Cardinality(places) = n
      BY <3>1, PlacesInOrder
    <3>3. \A k \in 1..n : PlaceOf(places, k) = e[k]
      BY <3>1, PlacesInOrder
    <3> QED
      BY <3>2, <3>3
  <2> QED
    BY <2>1
<1>10. Colons(s) = 7
  <2>1. Colons(s) = Len(s) - Cardinality(Places(s))
    BY <1>1, ColonsAndQuartets
  <2> QED
    BY <1>1, <1>9, <2>1
<1>11. Head(s) # Colon /\ Last(s) # Colon
  <2>1. s[2 * 1 - 1] # Colon /\ s[2 * 8 - 1] # Colon
    BY <1>4
  <2>2. Head(s) = s[1] /\ Last(s) = s[15]
    BY <1>1 DEF Last
  <2> QED
    BY <2>1, <2>2
<1>12. DoubleColons(s) = {}
  <2> SUFFICES ASSUME NEW i \in 1..14, s[i] = Colon, s[i + 1] = Colon
               PROVE  FALSE
    BY <1>1 DEF DoubleColons
  <2>1. i \in 1..15
    OBVIOUS
  <2>2. PICK k \in 1..7 : i = 2 * k
    BY <1>4, <1>5, <2>1
  <2>3. k + 1 \in 1..8 /\ i + 1 = 2 * (k + 1) - 1
    BY <2>2
  <2> QED
    BY <1>4, <2>3
<1>13. \A i \in DOMAIN s : s[i] # Malformed
  <2> TAKE i \in DOMAIN s
  <2>1. i \in 1..15
    BY <1>1
  <2>2. CASE \E k \in 1..8 : i = 2 * k - 1
    BY <1>4, <2>2
  <2>3. CASE \E k \in 1..7 : i = 2 * k
    BY <1>1, <2>3, SMTT(30) DEF Colon, Malformed
  <2> QED
    BY <1>5, <2>1, <2>2, <2>3
<1>14. IPv6isCorrect(s)
  <2>1. Cardinality({}) = 0
    BY FS_EmptySet
  <2> QED
    BY <1>10, <1>11, <1>12, <1>13, <2>1 DEF IPv6isCorrect
<1>15. ZeroBlock(t) = [before |-> 8, size |-> 0]
  BY <1>11, <1>12 DEF ZeroBlock
<1>16. \A k \in 1..8 : NumberRead(t, k) = a[k]
  <2> TAKE k \in 1..8
  <2>1. k <= 8 /\ k <= Cardinality(places)
    BY <1>9
  <2>2. s[PlaceOf(places, k)] = a[k]
    BY <1>1, <1>6, <1>9
  <2>3. NumberRead(t, k) = s[PlaceOf(places, k)]
    <3>1. k > Cardinality(places) <=> ~(k <= Cardinality(places))
      BY <1>9
    <3> QED
      BY <2>1, <3>1 DEF NumberRead
  <2> QED
    BY <2>2, <2>3
<1>17. ReadAddress(t) = [g \in 1..8 |-> a[g]]
  <2>1. ReadAddress(t) = [g \in 1..8 |->
          CASE g <= 8 -> NumberRead(t, g)
            [] g > 8 /\ g <= 8 + 0 -> 0
            [] OTHER -> NumberRead(t, g - 0)]
    BY <1>15 DEF ReadAddress, NumGroups
  <2>2. \A g \in 1..8 : g <= 8 /\ ~(g > 8)
    OBVIOUS
  <2> HIDE DEF t
  <2> QED
    BY <1>16, <2>1, <2>2
<1> QED
  BY <1>2, <1>14, <1>17 DEF t, s

IsCut(c, S, a, m, n) ==
    /\ c \in Seq(S) /\ Len(c) = n + 1 - m
    /\ \A k \in 1..n + 1 - m : c[k] = a[m + k - 1]

LEMMA Cut ==
    ASSUME NEW S, NEW a \in Seq(S), NEW m \in Nat, NEW n \in Nat,
           m >= 1, m <= n + 1, n <= Len(a)
    PROVE  IsCut(SubSeq(a, m, n), S, a, m, n)
BY DEF IsCut

(* v is the numbers of a before and behind a block of zeros.                *)
Describes(a, p, q, v) ==
    /\ \A k \in 1..p : v[k] = a[k]
    /\ \A k \in 1..q : v[p + k] = a[8 - q + k]

LEMMA CollapsedShape ==
    ASSUME NEW a \in Address, NEW b \in ZeroBlocks(a)
    PROVE  /\ b[1] - 1 \in Nat /\ 8 - b[2] \in Nat /\ (b[1] - 1) + (8 - b[2]) <= 7
           /\ \E v : /\ Around(Collapsed(a, b), b[1] - 1, 8 - b[2], v)
                    /\ Describes(a, b[1] - 1, 8 - b[2], v)
<1> DEFINE tokens == Collapsed(a, b)
<1> DEFINE x == SubSeq(a, 1, b[1] - 1)
           y == SubSeq(a, b[2] + 1, NumGroups)
           v == x \o y
           p == b[1] - 1
           q == 8 - b[2]
           G == 0..MaxGroup
<1>1. b[1] \in 1..8 /\ b[2] \in 1..8 /\ b[1] <= b[2] /\ \A g \in b[1]..b[2] : a[g] = 0
  BY DEF ZeroBlocks, NumGroups
<1>2. a \in Seq(G) /\ Len(a) = 8
  BY AddressIsSeq
<1>20. b[1] \in Nat /\ b[2] \in Nat /\ 1 <= b[1] /\ b[1] <= b[2] /\ b[2] <= 8
  BY <1>1
<1>3. p \in Nat /\ q \in Nat /\ p + q <= 7
  BY <1>20
<1> HIDE DEF G
<1>4. x \in Seq(G) /\ Len(x) = p /\ \A k \in 1..p : x[k] = a[k]
  <2> DEFINE m == 1
  <2>1. /\ m \in Nat /\ m >= 1 /\ m <= p + 1 /\ p <= Len(a) /\ p + 1 - m = p
        /\ \A k \in 1..p : m + k - 1 = k
    BY <1>2, <1>20
  <2>2. p \in Nat /\ x = SubSeq(a, m, p)
    BY <1>3
  <2> HIDE DEF m, p, x
  <2>3. IsCut(SubSeq(a, m, p), G, a, m, p)
    BY <1>2, <2>1, <2>2, Cut
  <2> QED
    BY <2>1, <2>2, <2>3 DEF IsCut
<1>5. y \in Seq(G) /\ Len(y) = q /\ \A k \in 1..q : y[k] = a[b[2] + k]
  <2> DEFINE m == b[2] + 1
  <2>1. /\ m \in Nat /\ m >= 1 /\ m <= 8 + 1 /\ 8 <= Len(a) /\ 8 + 1 - m = q
        /\ \A k \in 1..q : m + k - 1 = b[2] + k
    BY <1>2, <1>20, SMTT(30)
  <2>4. y = SubSeq(a, m, 8)
    BY DEF NumGroups
  <2> HIDE DEF m, q, y
  <2>2. IsCut(SubSeq(a, m, 8), G, a, m, 8)
    BY <1>2, <2>1, Cut
  <2> QED
    BY <2>1, <2>2, <2>4 DEF IsCut
<1>6. tokens = Separated(x) \o <<Colon, Colon>> \o Separated(y)
  BY DEF Collapsed
<1> HIDE DEF x, y
<1>7. /\ \A k \in 1..p : v[k] = x[k]
      /\ \A k \in 1..q : v[k + p] = y[k]
  <2> HIDE DEF p, q
  <2>1. \A k \in 1..Len(x) : v[k] = x[k]
    BY <1>4, <1>5, Concatenation
  <2>2. \A k \in 1..Len(y) : v[k + Len(x)] = y[k]
    BY <1>4, <1>5, Concatenation
  <2> QED
    BY <1>4, <1>5, <2>1, <2>2
<1>8. ColonsBetween(Separated(x), x) /\ ColonsBetween(Separated(y), y)
  BY <1>4, <1>5, SeparatedShape DEF G
<1>9. Around(tokens, p, q, v)
  BY <1>4, <1>5, <1>6, <1>8, JoinShape DEF G
<1> HIDE DEF v
<1>10. \A k \in 1..p : v[k] = a[k]
  BY <1>4, <1>7
<1>11. \A k \in 1..q : v[p + k] = a[8 - q + k]
  <2> TAKE k \in 1..q
  <2>1. k + p = p + k /\ b[2] + k = 8 - q + k
    BY <1>1, <1>3
  <2> QED
    BY <1>5, <1>7, <2>1
<1>12. Describes(a, p, q, v)
  BY <1>10, <1>11 DEF Describes
<1> HIDE DEF tokens
<1> QED
  BY <1>3, <1>9, <1>12 DEF p, q, tokens

LEMMA NotationsAreRead ==
    ASSUME NEW a \in Address, NEW zone \in BOOLEAN, NEW tokens \in Notations(a)
    PROVE  /\ IPv6isCorrect(tokens)
           /\ ReadAddress([tokens |-> tokens, zone |-> zone]) = a
<1>1. CASE tokens = Separated(a)
  BY <1>1, WholeIsRead
<1>2. ASSUME NEW b \in ZeroBlocks(a), tokens = Collapsed(a, b)
      PROVE  /\ IPv6isCorrect(tokens)
             /\ ReadAddress([tokens |-> tokens, zone |-> zone]) = a
  <2> DEFINE p == b[1] - 1
             q == 8 - b[2]
  <2>1. /\ p \in Nat /\ q \in Nat /\ p + q <= 7
        /\ \E v : Around(tokens, p, q, v) /\ Describes(a, p, q, v)
    BY <1>2, CollapsedShape
  <2>2. b[1] \in 1..8 /\ b[2] \in 1..8 /\ \A g \in b[1]..b[2] : a[g] = 0
    BY DEF ZeroBlocks, NumGroups
  <2>3. \A g \in 1..8 : p < g /\ g <= 8 - q => a[g] = 0
    BY <2>2
  <2> HIDE DEF p, q
  <2>4. PICK v : Around(tokens, p, q, v) /\ Describes(a, p, q, v)
    BY <2>1
  <2>5. (\A k \in 1..p : v[k] = a[k]) /\ (\A k \in 1..q : v[p + k] = a[8 - q + k])
    BY <2>4 DEF Describes
  <2> QED
    BY <2>1, <2>3, <2>4, <2>5, AroundIsRead
<1> QED
  BY <1>1, <1>2 DEF Notations

(* Every way to write the address of the locator in text, all eight numbers *)
(* or those around any block of zeros, with a zone or without, is accepted  *)
(* by IPv6isCorrect and read by setIPv6 as that very address.               *)
THEOREM EveryNotationIsRead == Spec => []EveryNotationReads
<1>1. TypeOK => EveryNotationReads
  <2> SUFFICES ASSUME TypeOK,
                      NEW tokens \in Notations(locator.address), NEW zone \in BOOLEAN
               PROVE  /\ IPv6isCorrect(tokens)
                      /\ ReadAddress([tokens |-> tokens, zone |-> zone]) = locator.address
    BY DEF EveryNotationReads
  <2>1. locator.address \in Address
    BY DEF TypeOK
  <2> QED
    BY <2>1, NotationsAreRead
<1> QED
  BY <1>1, AddressTypeCorrect, PTL

-----------------------------------------------------------------------------
(***************************************************************************)
(* The block of zeros that toIPv6string collapses.                         *)
(***************************************************************************)
ScanType == [open : BOOLEAN, at : Nat, size : Nat, maxAt : Nat, maxSize : Nat]

ScanStart == [open |-> FALSE, at |-> 1, size |-> 0, maxAt |-> 1, maxSize |-> 0]

LoopEnd(a) == FoldLeft(LAMBDA scan, g : ScanGroup(a, scan, g), ScanStart, [g \in 1..NumGroups |-> g])

LEMMA GroupKeepsType ==
    ASSUME NEW a, NEW scan \in ScanType, NEW g \in Nat
    PROVE  ScanGroup(a, scan, g) \in ScanType
<1>1. Largest(scan) \in ScanType
  <2>1. CASE scan.size > scan.maxSize
    BY <2>1 DEF Largest, ScanType
  <2>2. CASE ~(scan.size > scan.maxSize)
    BY <2>2 DEF Largest, ScanType
  <2> QED
    BY <2>1, <2>2
<1>2. \A s \in ScanType : [s EXCEPT !.open = FALSE] \in ScanType
  BY DEF ScanType
<1>3. [scan EXCEPT !.size = @ + 1] \in ScanType
  BY DEF ScanType
<1>4. [scan EXCEPT !.open = TRUE, !.at = g, !.size = 1] \in ScanType
  BY DEF ScanType
<1> QED
  BY <1>1, <1>2, <1>3, <1>4 DEF ScanGroup

(* The first loop goes group by group.                                      *)
LEMMA ScanSteps ==
    ASSUME NEW a
    PROVE  \E after \in [0..8 -> ScanType] :
              /\ after[0] = ScanStart /\ after[8] = LoopEnd(a)
              /\ \A m \in 1..8 : after[m] = ScanGroup(a, after[m - 1], m)
<1> DEFINE step == [p \in ScanType \X Nat |-> ScanGroup(a, p[1], p[2])]
           groups == [g \in 1..NumGroups |-> g]
           n == NumGroups
           Recurs(f) == f = [s \in SUBSET (DOMAIN groups) |->
                               IF s = {} THEN ScanStart
                               ELSE ScanGroup(a, f[s \ {Max(s)}], groups[Max(s)])]
<1>1. ScanStart \in ScanType
  BY DEF ScanStart, ScanType
<1>2. step \in [ScanType \X Nat -> ScanType]
  BY GroupKeepsType
<1>3. \A scan \in ScanType, g \in Nat : step[<<scan, g>>] = ScanGroup(a, scan, g)
  OBVIOUS
<1>4. /\ DOMAIN groups = 1..n /\ n \in Nat /\ n = 8
      /\ \A g \in 1..n : groups[g] \in Nat /\ groups[g] = g
  BY DEF NumGroups
<1>40. groups \in Seq(Nat) /\ Len(groups) = n
  <2>1. groups \in [1..n -> Nat]
    BY <1>4
  <2>2. n \in Nat
    BY <1>4
  <2> HIDE DEF groups, n
  <2> QED
    BY <2>1, <2>2, FunctionIsSeq
<1> HIDE DEF step, groups, n
<1>5. PICK f : Unfolds(ScanType, step, ScanStart, groups, f, n)
  BY <1>1, <1>2, <1>40, FoldExists
<1>6. Recurs(f)
  <2>1. ASSUME NEW s \in SUBSET (1..n)
        PROVE  f[s] = IF s = {} THEN ScanStart
                      ELSE ScanGroup(a, f[s \ {Max(s)}], groups[Max(s)])
    <3>1. CASE s = {}
      BY <1>5, <3>1 DEF Unfolds, FoldValue
    <3>2. CASE s # {}
      <4>1. groups[Max(s)] \in Nat /\ f[s \ {Max(s)}] \in ScanType
        BY <1>4, <1>5, <3>2, MaxBelongs DEF Unfolds
      <4> QED
        BY <1>3, <1>5, <3>2, <4>1 DEF Unfolds, FoldValue
    <3> QED
      BY <3>1, <3>2
  <2>2. f = [s \in SUBSET (1..n) |-> f[s]]
    BY <1>5 DEF Unfolds
  <2> QED
    BY <1>4, <2>1, <2>2
<1>7. PICK h : Recurs(h) /\ LoopEnd(a) = h[DOMAIN groups]
  BY <1>6 DEF LoopEnd, FoldLeft, MapThenFoldSet, groups
<1>8. FoldsBy(ScanType, Nat, step, ScanStart, n, groups, h)
  <2>1. ASSUME NEW s \in SUBSET (1..n), s # {}, h[s \ {Max(s)}] \in ScanType
        PROVE  h[s] = step[<<h[s \ {Max(s)}], groups[Max(s)]>>]
    <3>1. groups[Max(s)] \in Nat
      BY <1>4, <2>1, MaxBelongs
    <3>2. h[s] = ScanGroup(a, h[s \ {Max(s)}], groups[Max(s)])
      BY <1>4, <1>7, <2>1
    <3> HIDE DEF Recurs
    <3> QED
      BY <1>3, <2>1, <3>1, <3>2
  <2>2. h[{}] = ScanStart
    BY <1>7
  <2> HIDE DEF Recurs
  <2> QED
    BY <1>1, <1>2, <1>4, <2>1, <2>2 DEF FoldsBy
<1>9. GoesBy(ScanType, step, ScanStart, n, groups, h[1..n])
  <2> HIDE DEF Recurs
  <2> QED
    BY <1>8, FoldSteps
<1>10. PICK after \in [0..n -> ScanType] :
          /\ after[0] = ScanStart /\ after[n] = h[1..n]
          /\ \A m \in 1..n : after[m] = step[<<after[m - 1], groups[m]>>]
  BY <1>9 DEF GoesBy
<1>11. \A m \in 1..n : after[m] = ScanGroup(a, after[m - 1], m)
  <2> TAKE m \in 1..n
  <2>1. m - 1 \in 0..n /\ groups[m] = m /\ m \in Nat
    BY <1>4
  <2> QED
    BY <1>3, <1>10, <2>1
<1>12. after[n] = LoopEnd(a)
  BY <1>4, <1>7, <1>10
<1> HIDE DEF Recurs
<1> QED
  BY <1>4, <1>10, <1>11, <1>12

(* The zeros from i to j. *)
Zeros(a, i, j) == \A g \in 1..8 : i <= g /\ g <= j => a[g] = 0

(* No block of zeros that ends by n is larger than `size', or as large and  *)
(* before `at'.                                                             *)
Beats(a, at, size, n) ==
    \A i, j \in 1..8 : i <= j /\ j <= n /\ Zeros(a, i, j)
        => j - i + 1 < size \/ (j - i + 1 = size /\ at <= i)

IsBlock(a, at, size) ==
    size > 0 => at \in 1..8 /\ at + size - 1 <= 8 /\ Zeros(a, at, at + size - 1)

(* After m groups the scan has the largest of the blocks that have ended,   *)
(* and the block that is open.                                              *)
ScannedTo(a, m, scan) ==
    /\ scan \in ScanType
    /\ scan.open <=> m > 0 /\ a[m] = 0
    /\ IsBlock(a, scan.maxAt, scan.maxSize)
    /\ ~scan.open => /\ Beats(a, scan.maxAt, scan.maxSize, m)
                     /\ scan.maxSize > 0 => scan.maxAt <= m
    /\ scan.open => /\ scan.at \in 1..m /\ scan.size = m - scan.at + 1
                    /\ Zeros(a, scan.at, m)
                    /\ scan.at > 1 => a[scan.at - 1] # 0
                    /\ Beats(a, scan.maxAt, scan.maxSize, scan.at - 1)
                    /\ scan.maxSize > 0 => scan.maxAt < scan.at

(* What becomes of the scan when the open block ends.                       *)
LEMMA LargestKeeps ==
    ASSUME NEW a \in Address, NEW m \in 1..8, NEW scan, ScannedTo(a, m, scan), scan.open
    PROVE  /\ Largest(scan) \in ScanType
           /\ IsBlock(a, Largest(scan).maxAt, Largest(scan).maxSize)
           /\ Beats(a, Largest(scan).maxAt, Largest(scan).maxSize, m)
           /\ Largest(scan).maxSize > 0 => Largest(scan).maxAt <= m
<1>1. /\ scan \in ScanType
      /\ IsBlock(a, scan.maxAt, scan.maxSize)
      /\ scan.at \in 1..m /\ scan.size = m - scan.at + 1
      /\ Zeros(a, scan.at, m)
      /\ scan.at > 1 => a[scan.at - 1] # 0
      /\ Beats(a, scan.maxAt, scan.maxSize, scan.at - 1)
      /\ scan.maxSize > 0 => scan.maxAt < scan.at
  BY DEF ScannedTo
<1> DEFINE at == scan.at
           size == scan.size
           maxAt == scan.maxAt
           maxSize == scan.maxSize
<1>2. at \in Nat /\ size \in Nat /\ maxAt \in Nat /\ maxSize \in Nat /\ m \in Nat /\ m <= 8
  BY <1>1 DEF ScanType
<1>3. at >= 1 /\ at <= m /\ size = m - at + 1
  BY <1>1
<1>4. \A i, j \in 1..8 : i <= j /\ j <= m /\ Zeros(a, i, j)
        => \/ j <= at - 1
           \/ at <= i
  <2> SUFFICES ASSUME NEW i \in 1..8, NEW j \in 1..8, Zeros(a, i, j), j <= m,
                      ~(j <= at - 1), ~(at <= i)
               PROVE  FALSE
    OBVIOUS
  <2>1. at - 1 \in 1..8 /\ i <= at - 1 /\ at - 1 <= j /\ at > 1
    BY <1>2, <1>3
  <2> QED
    BY <1>1, <2>1 DEF Zeros
<1>5. CASE size > maxSize
  <2>1. Largest(scan) = [scan EXCEPT !.maxAt = at, !.maxSize = size]
    BY <1>5 DEF Largest
  <2>2. Largest(scan) \in ScanType /\ Largest(scan).maxAt = at /\ Largest(scan).maxSize = size
    BY <1>1, <1>2, <2>1 DEF ScanType
  <2>3. at + size - 1 = m
    BY <1>2, <1>3
  <2>4. IsBlock(a, at, size)
    BY <1>1, <1>2, <1>3, <2>3 DEF IsBlock
  <2>5. Beats(a, at, size, m)
    <3> SUFFICES ASSUME NEW i \in 1..8, NEW j \in 1..8, i <= j, j <= m, Zeros(a, i, j)
                 PROVE  j - i + 1 < size \/ (j - i + 1 = size /\ at <= i)
      BY DEF Beats
    <3>1. CASE at <= i
      BY <1>2, <1>3, <3>1
    <3>2. CASE j <= at - 1
      <4>1. j - i + 1 < maxSize \/ j - i + 1 = maxSize
        BY <1>1, <3>2 DEF Beats
      <4> QED
        BY <1>2, <1>5, <4>1
    <3> QED
      BY <1>4, <3>1, <3>2
  <2> HIDE DEF at, size
  <2> QED
    BY <1>3, <2>2, <2>4, <2>5
<1>6. CASE ~(size > maxSize)
  <2>1. Largest(scan) = scan
    BY <1>6 DEF Largest
  <2>2. Beats(a, maxAt, maxSize, m)
    <3> SUFFICES ASSUME NEW i \in 1..8, NEW j \in 1..8, i <= j, j <= m, Zeros(a, i, j)
                 PROVE  j - i + 1 < maxSize \/ (j - i + 1 = maxSize /\ maxAt <= i)
      BY DEF Beats
    <3>1. CASE at <= i
      <4>1. maxSize > 0 /\ j - i + 1 <= size /\ size <= maxSize
        BY <1>2, <1>3, <1>6, <3>1
      <4>2. maxAt < at
        BY <1>1, <4>1
      <4> QED
        BY <1>2, <3>1, <4>1, <4>2
    <3>2. CASE j <= at - 1
      BY <1>1, <3>2 DEF Beats
    <3> QED
      BY <1>4, <3>1, <3>2
  <2>3. maxSize > 0 => maxAt <= m
    BY <1>1, <1>2, <1>3
  <2> QED
    BY <1>1, <2>1, <2>2, <2>3
<1> QED
  BY <1>5, <1>6

LEMMA ScanGoesOn ==
    ASSUME NEW a \in Address, NEW m \in 1..8, NEW scan, ScannedTo(a, m - 1, scan)
    PROVE  ScannedTo(a, m, ScanGroup(a, scan, m))
<1> DEFINE new == ScanGroup(a, scan, m)
<1> SUFFICES ScannedTo(a, m, new)
  OBVIOUS
<1>1. /\ scan \in ScanType
      /\ scan.open <=> m - 1 > 0 /\ a[m - 1] = 0
      /\ IsBlock(a, scan.maxAt, scan.maxSize)
      /\ ~scan.open => /\ Beats(a, scan.maxAt, scan.maxSize, m - 1)
                       /\ scan.maxSize > 0 => scan.maxAt <= m - 1
      /\ scan.open => /\ scan.at \in 1..m - 1 /\ scan.size = (m - 1) - scan.at + 1
                      /\ Zeros(a, scan.at, m - 1)
                      /\ scan.at > 1 => a[scan.at - 1] # 0
                      /\ Beats(a, scan.maxAt, scan.maxSize, scan.at - 1)
                      /\ scan.maxSize > 0 => scan.maxAt < scan.at
  BY DEF ScannedTo
<1>2. new \in ScanType
  <2>1. m \in Nat
    OBVIOUS
  <2> QED
    BY <1>1, <2>1, GroupKeepsType
<1>3. /\ scan.open \in BOOLEAN /\ scan.at \in Nat /\ scan.size \in Nat
      /\ scan.maxAt \in Nat /\ scan.maxSize \in Nat
  BY <1>1 DEF ScanType
<1>4. CASE a[m] = 0 /\ scan.open
  <2>1. new = [scan EXCEPT !.size = @ + 1]
    BY <1>4 DEF ScanGroup
  <2>2. /\ new.open /\ new.at = scan.at /\ new.size = scan.size + 1
        /\ new.maxAt = scan.maxAt /\ new.maxSize = scan.maxSize
    BY <1>1, <1>4, <2>1 DEF ScanType
  <2>3. new.at \in 1..m /\ new.size = m - new.at + 1
    BY <1>1, <1>3, <1>4, <2>2
  <2>4. Zeros(a, new.at, m)
    BY <1>1, <1>4, <2>2 DEF Zeros
  <2> HIDE DEF new
  <2> QED
    BY <1>1, <1>2, <1>4, <2>2, <2>3, <2>4 DEF ScannedTo
<1>5. CASE a[m] = 0 /\ ~scan.open
  <2>1. new = [scan EXCEPT !.open = TRUE, !.at = m, !.size = 1]
    BY <1>5 DEF ScanGroup
  <2>2. /\ new.open /\ new.at = m /\ new.size = 1
        /\ new.maxAt = scan.maxAt /\ new.maxSize = scan.maxSize
    BY <1>1, <1>5, <2>1 DEF ScanType
  <2>3. new.at \in 1..m /\ new.size = m - new.at + 1
    BY <2>2
  <2>4. Zeros(a, new.at, m)
    BY <1>5, <2>2 DEF Zeros
  <2>5. new.at > 1 => a[new.at - 1] # 0
    BY <1>1, <1>5, <2>2
  <2>6. Beats(a, new.maxAt, new.maxSize, new.at - 1)
    BY <1>1, <1>5, <2>2
  <2>7. new.maxSize > 0 => new.maxAt < new.at
    BY <1>1, <1>3, <1>5, <2>2
  <2> HIDE DEF new
  <2> QED
    BY <1>1, <1>2, <1>5, <2>2, <2>3, <2>4, <2>5, <2>6, <2>7 DEF ScannedTo
<1>6. ASSUME NEW at \in Nat, NEW size \in Nat, Beats(a, at, size, m - 1), a[m] # 0
      PROVE  Beats(a, at, size, m)
  <2> SUFFICES ASSUME NEW i \in 1..8, NEW j \in 1..8, i <= j, j <= m, Zeros(a, i, j)
               PROVE  j - i + 1 < size \/ (j - i + 1 = size /\ at <= i)
    BY DEF Beats
  <2>1. j # m
    BY <1>6 DEF Zeros
  <2>2. j <= m - 1
    BY <2>1
  <2> QED
    BY <1>6, <2>2 DEF Beats
<1>7. CASE a[m] # 0 /\ scan.open
  <2> DEFINE best == Largest(scan)
  <2>1. new = [best EXCEPT !.open = FALSE]
    BY <1>7 DEF ScanGroup
  <2>2. m - 1 \in 1..8
    BY <1>1, <1>7
  <2>3. /\ best \in ScanType
        /\ IsBlock(a, best.maxAt, best.maxSize)
        /\ Beats(a, best.maxAt, best.maxSize, m - 1)
        /\ best.maxSize > 0 => best.maxAt <= m - 1
    BY <1>7, <2>2, LargestKeeps
  <2> HIDE DEF best
  <2>4. ~new.open /\ new.maxAt = best.maxAt /\ new.maxSize = best.maxSize
    BY <2>1, <2>3 DEF ScanType
  <2>5. best.maxAt \in Nat /\ best.maxSize \in Nat
    BY <2>3 DEF ScanType
  <2>6. Beats(a, best.maxAt, best.maxSize, m)
    BY <1>6, <1>7, <2>3, <2>5
  <2>7. best.maxSize > 0 => best.maxAt <= m
    BY <2>3, <2>5
  <2> HIDE DEF new
  <2> QED
    BY <1>2, <1>7, <2>3, <2>4, <2>6, <2>7 DEF ScannedTo
<1>8. CASE a[m] # 0 /\ ~scan.open
  <2>1. new = scan
    BY <1>8 DEF ScanGroup
  <2>2. Beats(a, scan.maxAt, scan.maxSize, m)
    BY <1>1, <1>3, <1>6, <1>8
  <2>3. scan.maxSize > 0 => scan.maxAt <= m
    BY <1>1, <1>3, <1>8
  <2> HIDE DEF new
  <2> QED
    BY <1>1, <1>8, <2>1, <2>2, <2>3 DEF ScannedTo
<1> QED
  BY <1>4, <1>5, <1>7, <1>8

(* toIPv6string collapses the first of the largest blocks.                  *)
LEMMA ScannedIsBest ==
    ASSUME NEW a \in Address
    PROVE  /\ Scanned(a).maxAt \in Nat /\ Scanned(a).maxSize \in Nat
           /\ IsBlock(a, Scanned(a).maxAt, Scanned(a).maxSize)
           /\ Beats(a, Scanned(a).maxAt, Scanned(a).maxSize, 8)
<1> DEFINE end == LoopEnd(a)
<1>1. Scanned(a) = IF end.open THEN Largest(end) ELSE end
  BY DEF Scanned, LoopEnd, ScanStart
<1>2. PICK after \in [0..8 -> ScanType] :
         /\ after[0] = ScanStart /\ after[8] = end
         /\ \A m \in 1..8 : after[m] = ScanGroup(a, after[m - 1], m)
  BY ScanSteps
<1> DEFINE S == {m \in 0..8 : ScannedTo(a, m, after[m])}
<1>3. ScannedTo(a, 0, ScanStart)
  <2>1. ScanStart \in ScanType
    BY DEF ScanStart, ScanType
  <2>2. Beats(a, 1, 0, 0)
    BY DEF Beats
  <2> QED
    BY <2>1, <2>2 DEF ScannedTo, ScanStart, IsBlock
<1>4. 0 \in S
  BY <1>2, <1>3
<1>5. ASSUME NEW m \in 1..8, m - 1 \in S
      PROVE  m \in S
  <2>1. after[m] = ScanGroup(a, after[m - 1], m)
    BY <1>2
  <2>2. ScannedTo(a, m - 1, after[m - 1])
    BY <1>5
  <2>3. ScannedTo(a, m, after[m])
    BY <2>1, <2>2, ScanGoesOn
  <2>4. m \in 0..8
    OBVIOUS
  <2> QED
    BY <2>3, <2>4
<1>6. 8 \in S
  <2> HIDE DEF S
  <2>0. \A n \in Nat : n = 8 => 0..n \subseteq S
    BY <1>4, <1>5, IndexInduction
  <2> QED
    BY <2>0
<1>7. ScannedTo(a, 8, end)
  BY <1>2, <1>6
<1> HIDE DEF end, S
<1>8. CASE end.open
  <2>1. /\ Largest(end) \in ScanType
        /\ IsBlock(a, Largest(end).maxAt, Largest(end).maxSize)
        /\ Beats(a, Largest(end).maxAt, Largest(end).maxSize, 8)
    BY <1>7, <1>8, LargestKeeps
  <2>2. Largest(end).maxAt \in Nat /\ Largest(end).maxSize \in Nat
    BY <2>1 DEF ScanType
  <2> QED
    BY <1>1, <1>8, <2>1, <2>2
<1>9. CASE ~end.open
  <2>1. end.maxAt \in Nat /\ end.maxSize \in Nat
    BY <1>7 DEF ScannedTo, ScanType
  <2> QED
    BY <1>1, <1>7, <1>9, <2>1 DEF ScannedTo
<1> QED
  BY <1>8, <1>9

-----------------------------------------------------------------------------
(***************************************************************************)
(* What toIPv6string writes.                                               *)
(***************************************************************************)
LEMMA Paired ==
    ASSUME NEW x, NEW y
    PROVE  <<x>> \o <<y>> = <<x, y>>
<1>1. <<x>> \in Seq({x, y}) /\ <<y>> \in Seq({x, y}) /\ <<x, y>> \in Seq({x, y})
  OBVIOUS
<1>2. /\ <<x>> \o <<y>> \in Seq({x, y})
      /\ Len(<<x>> \o <<y>>) = 2 /\ (<<x>> \o <<y>>)[1] = x /\ (<<x>> \o <<y>>)[2] = y
  BY <1>1
<1>3. Len(<<x, y>>) = 2 /\ <<x, y>>[1] = x /\ <<x, y>>[2] = y
  OBVIOUS
<1>4. \A i \in 1..Len(<<x>> \o <<y>>) : (<<x>> \o <<y>>)[i] = <<x, y>>[i]
  BY <1>2, <1>3
<1> QED
  BY <1>1, <1>2, <1>3, <1>4, Extensional

(* Numbers as the second loop leaves them: a colon behind each.             *)
Ended(s) == IF s = <<>> THEN <<>> ELSE Separated(s) \o <<Colon>>

LEMMA SeparatedOnce ==
    ASSUME NEW x
    PROVE  Separated(<<x>>) = <<x>> /\ Separated(<<>>) = <<>>
<1>1. 1 % 2 = 1 /\ (1 + 1) \div 2 = 1 /\ 1..2 * 1 - 1 = {1} /\ 1..2 * 0 - 1 = {}
  OBVIOUS
<1>2. Separated(<<x>>) = [i \in {1} |-> x]
  BY <1>1 DEF Separated
<1>3. Separated(<<>>) = [i \in {} |-> x]
  BY <1>1 DEF Separated
<1> QED
  BY <1>2, <1>3

(* The element of a separated text at a place. *)
LEMMA SeparatedAt ==
    ASSUME NEW s \in Seq(0..MaxGroup), NEW i \in 1..Width(Len(s))
    PROVE  Separated(s)[i] = IF i % 2 = 1 THEN s[(i + 1) \div 2] ELSE Colon
<1>1. Len(s) \in Nat
  OBVIOUS
<1>2. i \in 1..2 * Len(s) - 1
  BY <1>1 DEF Width
<1> QED
  BY <1>2 DEF Separated

LEMMA EndedType ==
    ASSUME NEW s \in Seq(0..MaxGroup)
    PROVE  Separated(s) \in Seq(Token) /\ Ended(s) \in Seq(Token)
<1>1. Separated(s) \in Seq(Token)
  BY SeparatedShape DEF ColonsBetween
<1>2. Colon \in Token
  BY MaxGroupIsNat DEF Token, Colon
<1> HIDE DEF Token
<1>3. <<Colon>> \in Seq(Token) /\ <<>> \in Seq(Token)
  BY <1>2
<1>4. Separated(s) \o <<Colon>> \in Seq(Token)
  BY <1>1, <1>3
<1> QED
  BY <1>1, <1>3, <1>4 DEF Ended

LEMMA SeparatedAppend ==
    ASSUME NEW s \in Seq(0..MaxGroup), NEW x \in 0..MaxGroup
    PROVE  Separated(Append(s, x)) = Ended(s) \o <<x>>
<1> DEFINE n == Len(s)
           longer == Append(s, x)
           l == Separated(longer)
           r == Ended(s) \o <<x>>
           G == 0..MaxGroup
<1>1. CASE s = <<>>
  <2>1. longer = <<x>> /\ <<>> \o <<x>> = <<x>>
    BY <1>1
  <2> QED
    BY <1>1, <2>1, SeparatedOnce DEF Ended
<1>2. CASE s # <<>>
  <2>1. n \in Nat /\ n >= 1
    BY <1>2
  <2>2. longer \in Seq(G) /\ Len(longer) = n + 1
        /\ (\A k \in 1..n : longer[k] = s[k]) /\ longer[n + 1] = x
    <3> s \in Seq(G) /\ x \in G
      OBVIOUS
    <3> HIDE DEF G
    <3> QED
      OBVIOUS
  <2>3. x \in Token /\ Colon \in Token
    BY MaxGroupIsNat DEF Token, Colon
  <2>4. l \in Seq(Token) /\ Len(l) = 2 * n + 1
    <3>1. ColonsBetween(l, longer)
      BY <2>2, SeparatedShape
    <3>2. Width(n + 1) = 2 * n + 1
      BY <2>1 DEF Width
    <3> QED
      BY <2>2, <3>1, <3>2 DEF ColonsBetween
  <2>5. Separated(s) \in Seq(Token) /\ Len(Separated(s)) = 2 * n - 1
    <3>1. ColonsBetween(Separated(s), s)
      BY SeparatedShape
    <3>2. Width(n) = 2 * n - 1
      BY <2>1 DEF Width
    <3> QED
      BY <3>1, <3>2 DEF ColonsBetween
  <2>6. r = (Separated(s) \o <<Colon>>) \o <<x>>
    BY <1>2 DEF Ended
  <2> DEFINE w == Separated(s)
  <2>7. /\ r \in Seq(Token) /\ Len(r) = 2 * n + 1
        /\ \A i \in 1..2 * n - 1 : r[i] = w[i]
        /\ r[2 * n] = Colon /\ r[2 * n + 1] = x
    <3> HIDE DEF r, w, Token, n
    <3>1. w \in Seq(Token) /\ Len(w) = 2 * n - 1 /\ r = (w \o <<Colon>>) \o <<x>>
      BY <2>5, <2>6 DEF w
    <3>2. <<Colon>> \in Seq(Token) /\ <<x>> \in Seq(Token)
      BY <2>3
    <3> QED
      BY <2>1, <3>1, <3>2
  <2>8. l = [i \in 1..2 * (n + 1) - 1 |-> IF i % 2 = 1 THEN longer[(i + 1) \div 2] ELSE Colon]
    BY <2>2 DEF Separated
  <2>9. w = [i \in 1..2 * n - 1 |-> IF i % 2 = 1 THEN s[(i + 1) \div 2] ELSE Colon]
    BY DEF Separated
  <2> HIDE DEF l, r, w, longer, n
  <2>10. ASSUME NEW k \in Nat, 2 * k \in 1..2 * n + 1
         PROVE  l[2 * k] = r[2 * k]
    <3>1. (2 * k) % 2 = 0
      BY Parity
    <3>2. l[2 * k] = Colon
      BY <2>1, <2>8, <2>10, <3>1
    <3>3. CASE 2 * k \in 1..2 * n - 1
      <4>1. w[2 * k] = Colon
        BY <2>9, <3>1, <3>3
      <4> QED
        BY <2>7, <3>2, <3>3, <4>1
    <3>4. CASE 2 * k = 2 * n
      BY <2>7, <3>2, <3>4
    <3>5. 2 * k # 2 * n + 1
      BY <2>1
    <3> QED
      BY <2>1, <2>10, <3>3, <3>4, <3>5
  <2>11. ASSUME NEW k \in Nat, 2 * k + 1 \in 1..2 * n + 1
         PROVE  l[2 * k + 1] = r[2 * k + 1]
    <3>1. (2 * k + 1) % 2 = 1 /\ ((2 * k + 1) + 1) \div 2 = k + 1
      <4>1. (2 * (k + 1)) \div 2 = k + 1
        BY Parity
      <4>2. (2 * k + 1) + 1 = 2 * (k + 1)
        OBVIOUS
      <4> QED
        BY <4>1, <4>2, Parity
    <3>2. l[2 * k + 1] = longer[k + 1]
      BY <2>1, <2>8, <2>11, <3>1
    <3>3. CASE 2 * k + 1 \in 1..2 * n - 1
      <4>1. w[2 * k + 1] = s[k + 1] /\ k + 1 \in 1..n
        BY <2>1, <2>9, <3>1, <3>3
      <4> QED
        BY <2>2, <2>7, <3>2, <3>3, <4>1
    <3>4. CASE 2 * k + 1 = 2 * n + 1
      <4>1. k + 1 = n + 1
        BY <2>1, <3>4
      <4> QED
        BY <2>2, <2>7, <3>2, <3>4, <4>1
    <3>5. 2 * k + 1 # 2 * n
      BY <2>1
    <3> QED
      BY <2>1, <2>11, <3>3, <3>4, <3>5
  <2>12. \A i \in 1..Len(l) : l[i] = r[i]
    <3> TAKE i \in 1..Len(l)
    <3>1. i \in 1..2 * n + 1 /\ i \in Nat
      BY <2>1, <2>4
    <3>2. PICK k \in Nat : i = 2 * k \/ i = 2 * k + 1
      BY <3>1, Halves
    <3> QED
      BY <2>10, <2>11, <3>1, <3>2
  <2>13. l = r
    <3> HIDE DEF Token
    <3> QED
      BY <2>4, <2>7, <2>12, Extensional
  <2> QED
    BY <2>13 DEF l, r, longer
<1> QED
  BY <1>1, <1>2

(* One number more, with its colon. *)
LEMMA EndedAppend ==
    ASSUME NEW s \in Seq(0..MaxGroup), NEW x \in 0..MaxGroup
    PROVE  Ended(Append(s, x)) = Ended(s) \o <<x, Colon>>
<1>1. Append(s, x) # <<>>
  OBVIOUS
<1>2. Ended(Append(s, x)) = (Ended(s) \o <<x>>) \o <<Colon>>
  BY <1>1, SeparatedAppend DEF Ended
<1>3. x \in Token /\ Colon \in Token
  BY MaxGroupIsNat DEF Token, Colon
<1>4. Ended(s) \in Seq(Token)
  BY EndedType
<1> HIDE DEF Token
<1>5. <<x>> \in Seq(Token) /\ <<Colon>> \in Seq(Token)
  BY <1>3
<1>6. Associate(Ended(s), <<x>>, <<Colon>>)
  BY <1>4, <1>5, Associates
<1> QED
  BY <1>2, <1>6, Paired DEF Associate

LEMMA OneMore ==
    ASSUME NEW S, NEW a \in Seq(S), NEW i \in Nat, NEW m \in Nat,
           i >= 1, i <= m, m <= Len(a)
    PROVE  /\ SubSeq(a, i, m - 1) \in Seq(S) /\ a[m] \in S
           /\ SubSeq(a, i, m) = Append(SubSeq(a, i, m - 1), a[m])
<1> DEFINE l == SubSeq(a, i, m)
           r == Append(SubSeq(a, i, m - 1), a[m])
<1>1. IsCut(l, S, a, i, m) /\ IsCut(SubSeq(a, i, m - 1), S, a, i, m - 1)
  BY Cut
<1>2. a[m] \in S
  OBVIOUS
<1>3. l \in Seq(S) /\ Len(l) = m + 1 - i /\ \A k \in 1..m + 1 - i : l[k] = a[i + k - 1]
  BY <1>1 DEF IsCut
<1>4. SubSeq(a, i, m - 1) \in Seq(S) /\ Len(SubSeq(a, i, m - 1)) = m - i
      /\ \A k \in 1..m - i : SubSeq(a, i, m - 1)[k] = a[i + k - 1]
  BY <1>1 DEF IsCut
<1>5. r \in Seq(S) /\ Len(r) = m + 1 - i /\ \A k \in 1..m + 1 - i : r[k] = a[i + k - 1]
  BY <1>2, <1>4
<1> HIDE DEF l, r
<1>6. l = r
  BY <1>3, <1>5, Extensional
<1> QED
  BY <1>2, <1>4, <1>6 DEF l, r

(* What a piece of the text adds to what is written.                        *)
Adds(after, m, piece) == after[m] = after[m - 1] \o piece

WroteNumbers(after, a, base, from, to) ==
    \A m \in 0..8 : from <= m /\ m <= to => after[m] = base \o Ended(SubSeq(a, from + 1, m))

LEMMA Writes ==
    ASSUME NEW a \in Address, NEW base \in Seq(Token), NEW after,
           NEW from \in 0..8, NEW to \in 0..8, after[from] = base,
           \A m \in 1..8 : from < m /\ m <= to => Adds(after, m, <<a[m], Colon>>)
    PROVE  WroteNumbers(after, a, base, from, to)
<1> DEFINE G == 0..MaxGroup
           part(m) == SubSeq(a, from + 1, m)
           M == {m \in 0..8 : from <= m /\ m <= to => after[m] = base \o Ended(part(m))}
<1>1. a \in Seq(G) /\ Len(a) = 8
  BY AddressIsSeq
<1>2. after[from] = base \o Ended(part(from))
  <2>1. part(from) = <<>>
    <3> HIDE DEF G
    <3> QED
      BY <1>1
  <2>2. base \o <<>> = base
    OBVIOUS
  <2> QED
    BY <2>1, <2>2 DEF Ended
<1>3. 0 \in M
  BY <1>2
<1>4. ASSUME NEW m \in 1..8, m - 1 \in M
      PROVE  m \in M
  <2> SUFFICES ASSUME from <= m, m <= to
               PROVE  after[m] = base \o Ended(part(m))
    <3>1. m \in 0..8
      OBVIOUS
    <3> QED
      BY <3>1, Zenon
  <2>1. CASE m = from
    BY <1>2, <2>1
  <2>2. CASE m # from
    <3>1. from < m /\ from <= m - 1 /\ m - 1 <= to /\ m - 1 \in 0..8
      BY <2>2
    <3>2. after[m - 1] = base \o Ended(part(m - 1))
      BY <1>4, <3>1
    <3>3. after[m] = after[m - 1] \o <<a[m], Colon>>
      BY <3>1 DEF Adds
    <3>4. part(m - 1) \in Seq(G) /\ a[m] \in G /\ part(m) = Append(part(m - 1), a[m])
      <4>1. from + 1 \in Nat /\ m \in Nat /\ from + 1 >= 1 /\ from + 1 <= m /\ m <= Len(a)
        BY <1>1, <3>1
      <4> HIDE DEF G
      <4> QED
        BY <1>1, <4>1, OneMore
    <3>5. Ended(part(m)) = Ended(part(m - 1)) \o <<a[m], Colon>>
      BY <3>4, EndedAppend
    <3>6. Associate(base, Ended(part(m - 1)), <<a[m], Colon>>)
      <4>1. Ended(part(m - 1)) \in Seq(Token)
        BY <3>4, EndedType
      <4>2. a[m] \in Token /\ Colon \in Token
        BY <3>4, MaxGroupIsNat DEF Token, Colon
      <4> HIDE DEF Token, part, G
      <4>3. <<a[m], Colon>> \in Seq(Token)
        BY <4>2
      <4> QED
        BY <4>1, <4>3, Associates
    <3> HIDE DEF part
    <3> QED
      BY <3>2, <3>3, <3>5, <3>6, Zenon DEF Associate
  <2> QED
    BY <2>1, <2>2
<1> HIDE DEF M
<1>5. 0..8 \subseteq M
  <2>1. \A n \in Nat : n = 8 => 0..n \subseteq M
    BY <1>3, <1>4, IndexInduction
  <2> QED
    BY <2>1
<1> QED
  BY <1>5, Zenon DEF M, WroteNumbers

(* Inside a collapsed block nothing is written.                             *)
WroteNothing(after, base, from, to) ==
    \A m \in 0..8 : from <= m /\ m <= to => after[m] = base

LEMMA WritesNothing ==
    ASSUME NEW base \in Seq(Token), NEW after,
           NEW from \in 0..8, NEW to \in 0..8, after[from] = base,
           \A m \in 1..8 : from < m /\ m <= to => Adds(after, m, <<>>)
    PROVE  WroteNothing(after, base, from, to)
<1> DEFINE M == {m \in 0..8 : from <= m /\ m <= to => after[m] = base}
<1>1. base \o <<>> = base
  OBVIOUS
<1>3. 0 \in M
  OBVIOUS
<1>4. ASSUME NEW m \in 1..8, m - 1 \in M
      PROVE  m \in M
  <2> SUFFICES ASSUME from <= m, m <= to
               PROVE  after[m] = base
    OBVIOUS
  <2>1. CASE m = from
    BY <2>1
  <2>2. CASE m # from
    <3>1. from < m /\ from <= m - 1 /\ m - 1 <= to
      BY <2>2
    <3>2. after[m - 1] = base
      BY <1>4, <3>1
    <3> QED
      BY <1>1, <3>1, <3>2 DEF Adds
  <2> QED
    BY <2>1, <2>2
<1> HIDE DEF M
<1>5. 0..8 \subseteq M
  <2>1. \A n \in Nat : n = 8 => 0..n \subseteq M
    BY <1>3, <1>4, IndexInduction
  <2> QED
    BY <2>1
<1> QED
  BY <1>5, Zenon DEF M, WroteNothing

(* The text of a block, compressed or not, from the pieces of its groups.   *)
PieceOf(a, compress, at, last, g) ==
    IF compress /\ g \in at..last
      THEN IF g = last THEN <<Colon>> ELSE <<>>
      ELSE IF g # NumGroups THEN <<a[g], Colon>> ELSE <<a[g]>>

LeadingColon(compress, at) == IF compress /\ at = 1 THEN <<Colon>> ELSE <<>>

Written(a, compress, at, last) ==
    LeadingColon(compress, at) \o Chained([g \in 1..NumGroups |-> PieceOf(a, compress, at, last, g)])

LEMMA PrintedIsWritten ==
    ASSUME NEW a
    PROVE  ToIPv6string(a) = Written(a, Scanned(a).maxSize >= 2, Scanned(a).maxAt,
                                     Scanned(a).maxAt + Scanned(a).maxSize - 1)
BY DEF ToIPv6string, Written, LeadingColon, PieceOf

LEMMA PieceType ==
    ASSUME NEW a \in Address, NEW compress, NEW at, NEW last, NEW g \in 1..8
    PROVE  PieceOf(a, compress, at, last, g) \in Seq(Token)
<1>1. Colon \in Token /\ a[g] \in Token
  <2>1. \A h \in 1..8 : a[h] \in 0..MaxGroup
    BY DEF Address, NumGroups
  <2>2. Colon \in Token /\ \A n \in 0..MaxGroup : n \in Token
    BY MaxGroupIsNat DEF Token, Colon
  <2> QED
    BY <2>1, <2>2
<1> HIDE DEF Token
<1>2. /\ <<>> \in Seq(Token) /\ <<Colon>> \in Seq(Token)
      /\ <<a[g], Colon>> \in Seq(Token) /\ <<a[g]>> \in Seq(Token)
  BY <1>1
<1> QED
  BY <1>2, Zenon DEF PieceOf

IsWriting(after, a, compress, at, last) ==
    /\ after \in [0..8 -> Seq(Token)] /\ after[0] = <<>>
    /\ Written(a, compress, at, last) = LeadingColon(compress, at) \o after[8]
    /\ \A m \in 1..8 : Adds(after, m, PieceOf(a, compress, at, last, m))

LEMMA WrittenSteps ==
    ASSUME NEW a \in Address, NEW compress, NEW at, NEW last
    PROVE  \E after : IsWriting(after, a, compress, at, last)
<1> DEFINE pieces == [g \in 1..8 |-> PieceOf(a, compress, at, last, g)]
<1>1. Written(a, compress, at, last) = LeadingColon(compress, at) \o Chained(pieces)
  BY DEF Written, NumGroups
<1>2. \A g \in 1..8 : pieces[g] = PieceOf(a, compress, at, last, g)
  OBVIOUS
<1>3. pieces \in Seq(Seq(Token)) /\ Len(pieces) = 8
  <2> DEFINE n == 8
  <2>1. pieces \in [1..n -> Seq(Token)] /\ n \in Nat
    BY PieceType
  <2> HIDE DEF pieces, n
  <2>2. pieces \in Seq(Seq(Token)) /\ Len(pieces) = n
    BY <2>1, FunctionIsSeq
  <2> QED
    BY <2>2 DEF n
<1> HIDE DEF pieces
<1>4. \E after \in [0..Len(pieces) -> Seq(Token)] :
         /\ after[0] = <<>> /\ after[Len(pieces)] = Chained(pieces)
         /\ \A m \in 1..Len(pieces) : after[m] = after[m - 1] \o pieces[m]
  BY <1>3, ChainedSteps
<1>5. PICK after \in [0..8 -> Seq(Token)] :
         /\ after[0] = <<>> /\ after[8] = Chained(pieces)
         /\ \A m \in 1..8 : after[m] = after[m - 1] \o pieces[m]
  BY <1>3, <1>4
<1>6. \A m \in 1..8 : Adds(after, m, PieceOf(a, compress, at, last, m))
  BY <1>2, <1>5 DEF Adds
<1>7. Written(a, compress, at, last) = LeadingColon(compress, at) \o after[8]
  BY <1>1, <1>5, Zenon
<1>8. IsWriting(after, a, compress, at, last)
  BY <1>5, <1>6, <1>7 DEF IsWriting
<1> QED
  BY <1>8

(* Nothing is collapsed. *)
LEMMA WrittenWhole ==
    ASSUME NEW a \in Address, NEW compress, ~compress, NEW at, NEW last
    PROVE  Written(a, compress, at, last) = Separated(a)
<1> DEFINE G == 0..MaxGroup
           x == SubSeq(a, 1, 7)
<1>0. PICK after : IsWriting(after, a, compress, at, last)
  BY WrittenSteps
<1>1. /\ after \in [0..8 -> Seq(Token)] /\ after[0] = <<>>
      /\ Written(a, compress, at, last) = LeadingColon(compress, at) \o after[8]
      /\ \A m \in 1..8 : Adds(after, m, PieceOf(a, compress, at, last, m))
  BY <1>0 DEF IsWriting
<1>2. \A m \in 1..8 : 0 < m /\ m <= 7 => Adds(after, m, <<a[m], Colon>>)
  <2> TAKE m \in 1..8
  <2> HAVE 0 < m /\ m <= 7
  <2>1. PieceOf(a, compress, at, last, m) = <<a[m], Colon>>
    BY DEF PieceOf, NumGroups
  <2>2. Adds(after, m, PieceOf(a, compress, at, last, m))
    BY <1>1
  <2> QED
    BY <2>1, <2>2, Zenon
<1>3. after[8] = after[7] \o <<a[8]>>
  <2>1. PieceOf(a, compress, at, last, 8) = <<a[8]>> /\ 8 - 1 = 7
    BY DEF PieceOf, NumGroups
  <2>2. Adds(after, 8, PieceOf(a, compress, at, last, 8))
    BY <1>1
  <2> QED
    BY <2>1, <2>2, Zenon DEF Adds
<1>4. after[7] = <<>> \o Ended(SubSeq(a, 0 + 1, 7))
  <2>1. <<>> \in Seq(Token) /\ 0 \in 0..8 /\ 7 \in 0..8
    OBVIOUS
  <2>2. WroteNumbers(after, a, <<>>, 0, 7)
    BY <1>1, <1>2, <2>1, Writes
  <2>3. 7 \in 0..8 /\ 0 <= 7 /\ 7 <= 7
    OBVIOUS
  <2> QED
    BY <2>2, <2>3, Zenon DEF WroteNumbers
<1>5. a \in Seq(G) /\ Len(a) = 8
  BY AddressIsSeq
<1>6. x \in Seq(G) /\ a[8] \in G /\ SubSeq(a, 1, 8) = Append(x, a[8]) /\ SubSeq(a, 1, 8) = a
  <2> DEFINE i == 1
             m == 8
  <2>1. i \in Nat /\ m \in Nat /\ i >= 1 /\ i <= m /\ m <= Len(a) /\ m - 1 = 7
    BY <1>5
  <2> HIDE DEF i, m, G
  <2>2. SubSeq(a, i, m - 1) \in Seq(G) /\ a[m] \in G
        /\ SubSeq(a, i, m) = Append(SubSeq(a, i, m - 1), a[m])
    BY <1>5, <2>1, OneMore
  <2>3. SubSeq(a, 1, Len(a)) = a
    BY <1>5
  <2> QED
    BY <1>5, <2>1, <2>2, <2>3 DEF i, m
<1>7. Ended(x) \in Seq(Token)
  BY <1>6, EndedType
<1>8. after[7] = Ended(x)
  BY <1>4, <1>7
<1>9. Separated(a) = Ended(x) \o <<a[8]>>
  BY <1>6, SeparatedAppend
<1>10. LeadingColon(compress, at) = <<>>
  BY DEF LeadingColon
<1>11. after[8] \in Seq(Token)
  BY <1>1
<1>12. <<>> \o after[8] = after[8]
  BY <1>11
<1> QED
  BY <1>1, <1>3, <1>8, <1>9, <1>10, <1>12, Zenon

(* Colons before and behind what is collapsed.                              *)
LEMMA FrontAndColon ==
    ASSUME NEW x \in Seq(0..MaxGroup), NEW at \in Nat, at = 1 <=> x = <<>>
    PROVE  LeadingColon(TRUE, at) \o (Ended(x) \o <<Colon>>) = Separated(x) \o <<Colon, Colon>>
<1>1. Colon \in Token
  BY MaxGroupIsNat DEF Token, Colon
<1>2. Separated(x) \in Seq(Token)
  BY EndedType
<1> HIDE DEF Token
<1>3. <<Colon>> \in Seq(Token) /\ <<Colon, Colon>> \in Seq(Token)
  BY <1>1
<1>4. <<Colon>> \o <<Colon>> = <<Colon, Colon>>
  BY Paired
<1>5. \A s \in Seq(Token) : <<>> \o s = s
  OBVIOUS
<1>6. CASE x = <<>>
  <2>1. LeadingColon(TRUE, at) = <<Colon>> /\ Ended(x) = <<>> /\ Separated(x) = <<>>
    BY <1>6, SeparatedOnce DEF LeadingColon, Ended
  <2> QED
    BY <1>3, <1>4, <1>5, <2>1, Zenon
<1>7. CASE x # <<>>
  <2>1. LeadingColon(TRUE, at) = <<>> /\ Ended(x) = Separated(x) \o <<Colon>>
    BY <1>7 DEF LeadingColon, Ended
  <2>2. Associate(Separated(x), <<Colon>>, <<Colon>>)
    BY <1>2, <1>3, Associates
  <2>3. Separated(x) \o <<Colon, Colon>> \in Seq(Token)
    BY <1>2, <1>3
  <2> QED
    BY <1>4, <1>5, <2>1, <2>2, <2>3, Zenon DEF Associate
<1> QED
  BY <1>6, <1>7

(* A block is collapsed. *)
LEMMA WrittenAround ==
    ASSUME NEW a \in Address, NEW at \in 1..8, NEW last \in 1..8, at <= last
    PROVE  Written(a, TRUE, at, last) = Collapsed(a, <<at, last>>)
<1> DEFINE G == 0..MaxGroup
           x == SubSeq(a, 1, at - 1)
           y == SubSeq(a, last + 1, 8)
           base == Ended(x) \o <<Colon>>
<1>0. PICK after : IsWriting(after, a, TRUE, at, last)
  BY WrittenSteps
<1>1. /\ after \in [0..8 -> Seq(Token)] /\ after[0] = <<>>
      /\ Written(a, TRUE, at, last) = LeadingColon(TRUE, at) \o after[8]
      /\ \A m \in 1..8 : Adds(after, m, PieceOf(a, TRUE, at, last, m))
  BY <1>0 DEF IsWriting
<1>2. /\ \A m \in 1..8 : m < at \/ (last < m /\ m < 8)
                            => PieceOf(a, TRUE, at, last, m) = <<a[m], Colon>>
      /\ \A m \in 1..8 : at <= m /\ m < last => PieceOf(a, TRUE, at, last, m) = <<>>
      /\ PieceOf(a, TRUE, at, last, last) = <<Colon>>
      /\ last < 8 => PieceOf(a, TRUE, at, last, 8) = <<a[8]>>
  BY DEF PieceOf, NumGroups
<1>20. ASSUME NEW m \in 1..8, m < at \/ (last < m /\ m < 8)
       PROVE  Adds(after, m, <<a[m], Colon>>)
  <2>1. PieceOf(a, TRUE, at, last, m) = <<a[m], Colon>>
    BY <1>2, <1>20
  <2>2. Adds(after, m, PieceOf(a, TRUE, at, last, m))
    BY <1>1
  <2> QED
    BY <2>1, <2>2, Zenon
<1>21. ASSUME NEW m \in 1..8, at <= m, m < last
       PROVE  Adds(after, m, <<>>)
  <2>1. PieceOf(a, TRUE, at, last, m) = <<>>
    BY <1>2, <1>21
  <2>2. Adds(after, m, PieceOf(a, TRUE, at, last, m))
    BY <1>1
  <2> QED
    BY <2>1, <2>2, Zenon
<1>22. Adds(after, last, <<Colon>>) /\ (last < 8 => Adds(after, 8, <<a[8]>>))
  <2>1. \A m \in 1..8 : Adds(after, m, PieceOf(a, TRUE, at, last, m))
    BY <1>1, Zenon
  <2>2. 8 \in 1..8
    OBVIOUS
  <2> QED
    BY <1>2, <2>1, <2>2, Zenon
<1>3. a \in Seq(G) /\ Len(a) = 8
  BY AddressIsSeq
<1>4. x \in Seq(G) /\ Len(x) = at - 1
  <2> DEFINE i == 1
             m == at - 1
  <2>1. i \in Nat /\ m \in Nat /\ i >= 1 /\ i <= m + 1 /\ m <= Len(a) /\ m + 1 - i = at - 1
    BY <1>3
  <2> HIDE DEF m, i, G
  <2>2. IsCut(SubSeq(a, i, m), G, a, i, m)
    BY <1>3, <2>1, Cut
  <2>3. SubSeq(a, i, m) \in Seq(G) /\ Len(SubSeq(a, i, m)) = at - 1
    BY <2>1, <2>2 DEF IsCut
  <2> QED
    BY <2>3 DEF i, m
<1>5. y \in Seq(G)
  <2> DEFINE i == last + 1
             m == 8
  <2>1. i \in Nat /\ m \in Nat /\ i >= 1 /\ i <= m + 1 /\ m <= Len(a)
    BY <1>3
  <2> HIDE DEF m, i, G
  <2>2. IsCut(SubSeq(a, i, m), G, a, i, m)
    BY <1>3, <2>1, Cut
  <2>3. SubSeq(a, i, m) \in Seq(G)
    BY <2>2 DEF IsCut
  <2> QED
    BY <2>3 DEF i, m
<1>6. /\ Ended(x) \in Seq(Token) /\ Separated(x) \in Seq(Token)
      /\ Separated(y) \in Seq(Token) /\ Colon \in Token
  <2>1. Colon \in Token
    BY MaxGroupIsNat DEF Token, Colon
  <2> QED
    BY <1>4, <1>5, <2>1, EndedType
<1>7. base \in Seq(Token)
  <2> HIDE DEF Token
  <2> QED
    BY <1>6
<1>8. after[at - 1] = Ended(x)
  <2>1. <<>> \in Seq(Token) /\ 0 \in 0..8 /\ at - 1 \in 0..8 /\ 0 <= at - 1
    OBVIOUS
  <2>2. \A m \in 1..8 : 0 < m /\ m <= at - 1 => Adds(after, m, <<a[m], Colon>>)
    BY <1>20
  <2>3. WroteNumbers(after, a, <<>>, 0, at - 1)
    BY <1>1, <2>1, <2>2, Writes
  <2>4. at - 1 <= at - 1 /\ 0 + 1 = 1
    OBVIOUS
  <2>5. after[at - 1] = <<>> \o Ended(SubSeq(a, 0 + 1, at - 1))
    BY <2>1, <2>3, <2>4, Zenon DEF WroteNumbers
  <2> QED
    BY <1>6, <2>4, <2>5
<1>9. after[last - 1] = Ended(x)
  <2>1. at - 1 \in 0..8 /\ last - 1 \in 0..8 /\ at - 1 <= last - 1
    OBVIOUS
  <2>2. \A m \in 1..8 : at - 1 < m /\ m <= last - 1 => Adds(after, m, <<>>)
    BY <1>21
  <2>3. WroteNothing(after, Ended(x), at - 1, last - 1)
    BY <1>6, <1>8, <2>1, <2>2, WritesNothing
  <2>4. last - 1 <= last - 1
    OBVIOUS
  <2> QED
    BY <2>1, <2>3, <2>4, Zenon DEF WroteNothing
<1>10. after[last] = base
  BY <1>9, <1>22, Zenon DEF Adds
<1> HIDE DEF base
<1>11. after[8] = base \o Separated(y)
  <2>1. CASE last = 8
    <3>1. y = <<>>
      <4> HIDE DEF G
      <4> QED
        BY <1>3, <2>1
    <3>2. Separated(y) = <<>>
      BY <3>1, SeparatedOnce, Zenon
    <3>3. base \o <<>> = base
      BY <1>7
    <3> QED
      BY <1>10, <2>1, <3>2, <3>3, Zenon
  <2>2. CASE last < 8
    <3> DEFINE z == SubSeq(a, last + 1, 7)
    <3>1. last \in 0..8 /\ 7 \in 0..8 /\ last <= 7
      BY <2>2
    <3>2. \A m \in 1..8 : last < m /\ m <= 7 => Adds(after, m, <<a[m], Colon>>)
      BY <1>20
    <3>3. after[7] = base \o Ended(z)
      <4>1. WroteNumbers(after, a, base, last, 7)
        BY <1>7, <1>10, <3>1, <3>2, Writes
      <4>2. 7 <= 7
        OBVIOUS
      <4> QED
        BY <3>1, <4>1, <4>2, Zenon DEF WroteNumbers
    <3>4. after[8] = after[7] \o <<a[8]>>
      <4>1. 8 - 1 = 7
        OBVIOUS
      <4> QED
        BY <1>22, <2>2, <4>1, Zenon DEF Adds
    <3>5. z \in Seq(G) /\ a[8] \in G /\ y = Append(z, a[8])
      <4> DEFINE i == last + 1
                 m == 8
      <4>1. i \in Nat /\ m \in Nat /\ i >= 1 /\ i <= m /\ m <= Len(a) /\ m - 1 = 7
        BY <1>3, <2>2
      <4> HIDE DEF i, m, G
      <4>2. SubSeq(a, i, m - 1) \in Seq(G) /\ a[m] \in G
            /\ SubSeq(a, i, m) = Append(SubSeq(a, i, m - 1), a[m])
        BY <1>3, <4>1, OneMore
      <4> QED
        BY <4>1, <4>2 DEF i, m
    <3>6. Separated(y) = Ended(z) \o <<a[8]>>
      BY <3>5, SeparatedAppend
    <3>7. Ended(z) \in Seq(Token) /\ <<a[8]>> \in Seq(Token)
      <4>1. a[8] \in Token
        BY <3>5, MaxGroupIsNat DEF Token
      <4>2. Ended(z) \in Seq(Token)
        BY <3>5, EndedType
      <4> HIDE DEF Token, z
      <4> QED
        BY <4>1, <4>2
    <3>8. Associate(base, Ended(z), <<a[8]>>)
      <4> HIDE DEF z, Token
      <4> QED
        BY <1>7, <3>7, Associates
    <3> HIDE DEF z, y
    <3> QED
      BY <3>3, <3>4, <3>6, <3>8, Zenon DEF Associate
  <2>3. last = 8 \/ last < 8
    OBVIOUS
  <2> QED
    BY <2>1, <2>2, <2>3, Zenon
<1>12. LeadingColon(TRUE, at) \o base = Separated(x) \o <<Colon, Colon>>
  <2>1. at = 1 <=> x = <<>>
    <3> HIDE DEF x, G
    <3> QED
      BY <1>4
  <2>2. at \in Nat
    OBVIOUS
  <2> HIDE DEF x
  <2> QED
    BY <1>4, <2>1, <2>2, FrontAndColon DEF base
<1>13. Associate(LeadingColon(TRUE, at), base, Separated(y))
  <2> HIDE DEF Token, y
  <2>1. LeadingColon(TRUE, at) \in Seq(Token)
    BY <1>6 DEF LeadingColon
  <2> QED
    BY <1>6, <1>7, <2>1, Associates
<1>14. Collapsed(a, <<at, last>>) = (Separated(x) \o <<Colon, Colon>>) \o Separated(y)
  BY DEF Collapsed, NumGroups
<1> HIDE DEF x, y
<1> QED
  BY <1>1, <1>11, <1>12, <1>13, <1>14, Zenon DEF Associate

(* toIPv6string follows RFC 5952, whatever the address of the locator: two  *)
(* or more zeros are collapsed, as many as there are in one block, and the  *)
(* first of the blocks that are as large; nothing else is.                  *)
THEOREM PrintedAsRfc == Spec => []PrintedIsCanonical
<1>1. TypeOK => PrintedIsCanonical
  <2> SUFFICES ASSUME TypeOK
               PROVE  PrintedIsCanonical
    OBVIOUS
  <2> DEFINE a == locator.address
             at == Scanned(a).maxAt
             n == Scanned(a).maxSize
             last == at + n - 1
             size(b) == b[2] - b[1] + 1
             blocks == {b \in ZeroBlocks(a) : size(b) >= 2}
  <2>1. a \in Address
    BY DEF TypeOK
  <2> HIDE DEF a
  <2>2. at \in Nat /\ n \in Nat /\ IsBlock(a, at, n) /\ Beats(a, at, n, 8)
    BY <2>1, ScannedIsBest
  <2>3. ToIPv6string(a) = Written(a, n >= 2, at, last)
    BY PrintedIsWritten
  <2> HIDE DEF at, n
  <2>4. ASSUME NEW b \in ZeroBlocks(a)
        PROVE  /\ b = <<b[1], b[2]>> /\ b[1] \in 1..8 /\ b[2] \in 1..8 /\ b[1] <= b[2]
               /\ size(b) < n \/ (size(b) = n /\ at <= b[1])
    <3>1. /\ b \in (1..8) \X (1..8) /\ b[1] <= b[2]
          /\ \A g \in b[1]..b[2] : a[g] = 0
      BY DEF ZeroBlocks, NumGroups
    <3>2. b[1] \in 1..8 /\ b[2] \in 1..8
      BY <3>1
    <3>3. Zeros(a, b[1], b[2])
      BY <3>1 DEF Zeros
    <3>4. b[2] <= 8
      BY <3>2
    <3>5. size(b) < n \/ (size(b) = n /\ at <= b[1])
      BY <2>2, <3>1, <3>2, <3>3, <3>4 DEF Beats
    <3> QED
      BY <3>1, <3>2, <3>5
  <2>5. CASE n < 2
    <3>1. blocks = {}
      BY <2>2, <2>4, <2>5
    <3>2. ~(n >= 2)
      BY <2>2, <2>5
    <3>3. ToIPv6string(a) = Separated(a)
      BY <2>1, <2>3, <3>2, WrittenWhole
    <3> QED
      BY <3>1, <3>3, Zenon DEF PrintedIsCanonical, a
  <2>6. CASE n >= 2
    <3>1. at \in 1..8 /\ last \in 1..8 /\ at <= last /\ Zeros(a, at, last)
      BY <2>2, <2>6 DEF IsBlock
    <3>2. <<at, last>> \in ZeroBlocks(a)
      BY <3>1 DEF ZeroBlocks, Zeros, NumGroups
    <3>3. size(<<at, last>>) = n
      BY <2>2
    <3>4. <<at, last>> \in blocks
      BY <2>6, <3>2, <3>3
    <3>5. ToIPv6string(a) = Collapsed(a, <<at, last>>)
      <4>1. (n >= 2) = TRUE
        BY <2>6
      <4> HIDE DEF last
      <4> QED
        BY <2>1, <2>3, <3>1, <4>1, WrittenAround
    <3>6. ASSUME NEW b \in blocks,
                 \A c \in blocks : size(c) < size(b) \/ (size(c) = size(b) /\ b[1] <= c[1])
          PROVE  b = <<at, last>>
      <4>1. b \in ZeroBlocks(a)
        OBVIOUS
      <4>2. /\ b = <<b[1], b[2]>> /\ b[1] \in 1..8 /\ b[2] \in 1..8
            /\ size(b) < n \/ (size(b) = n /\ at <= b[1])
        BY <2>4, <4>1
      <4>3. n < size(b) \/ (n = size(b) /\ b[1] <= at)
        <5>1. /\ size(<<at, last>>) < size(b)
              \/ (size(<<at, last>>) = size(b) /\ b[1] <= <<at, last>>[1])
          BY <3>4, <3>6
        <5> QED
          BY <3>3, <5>1
      <4>4. b[1] = at /\ b[2] = last
        BY <2>2, <4>2, <4>3
      <4> QED
        BY <4>2, <4>4
    <3>7. blocks # {}
      BY <3>4
    <3> DEFINE best == {b \in blocks : \A c \in blocks :
                          size(c) < size(b) \/ (size(c) = size(b) /\ b[1] <= c[1])}
    <3>8. \A b \in best : ToIPv6string(a) = Collapsed(a, b)
      <4> TAKE b \in best
      <4>1. b = <<at, last>>
        BY <3>6
      <4> QED
        BY <3>5, <4>1
    <3> QED
      BY <3>7, <3>8, Zenon DEF PrintedIsCanonical, a
  <2> QED
    BY <2>2, <2>5, <2>6
<1> QED
  BY <1>1, AddressTypeCorrect, PTL

-----------------------------------------------------------------------------
(***************************************************************************)
(* Texts that are accepted.                                                *)
(***************************************************************************)
(* No two quartets are side by side. *)
Spaced(tokens) == \A i \in 1..Len(tokens) - 1 : Colon \in {tokens[i], tokens[i + 1]}

LEMMA SeparatedIsSpaced ==
    ASSUME NEW x, Len(x) \in Nat, NEW s, ColonsBetween(s, x)
    PROVE  Spaced(s)
<1> DEFINE n == Len(x)
<1>1. Len(s) = Width(n) /\ \A k \in 1..n - 1 : s[2 * k] = Colon
  BY DEF ColonsBetween
<1>2. n \in Nat
  OBVIOUS
<1> HIDE DEF n
<1>3. ASSUME NEW i \in 1..Len(s) - 1
      PROVE  Colon \in {s[i], s[i + 1]}
  <2>1. i \in Nat /\ i >= 1 /\ i <= 2 * n - 2 /\ n >= 1
    BY <1>1, <1>2 DEF Width
  <2>2. PICK k \in Nat : i = 2 * k \/ i = 2 * k + 1
    BY <2>1, Halves
  <2>3. CASE i = 2 * k
    <3>1. k \in 1..n - 1
      BY <1>2, <2>1, <2>3
    <3> QED
      BY <1>1, <2>3, <3>1
  <2>4. CASE i = 2 * k + 1
    <3>1. k + 1 \in 1..n - 1 /\ i + 1 = 2 * (k + 1)
      BY <1>2, <2>1, <2>4
    <3> QED
      BY <1>1, <3>1
  <2> QED
    BY <2>2, <2>3, <2>4
<1> QED
  BY <1>3 DEF Spaced

LEMMA AroundIsSpaced ==
    ASSUME NEW p \in Nat, NEW q \in Nat, NEW s, NEW v, Around(s, p, q, v)
    PROVE  Spaced(s)
<1> DEFINE w == Width(p)
<1>1. /\ Len(s) = w + 2 + Width(q) /\ s[w + 1] = Colon /\ s[w + 2] = Colon
      /\ \A k \in 1..p - 1 : s[2 * k] = Colon
      /\ \A k \in 1..q - 1 : s[w + 2 + 2 * k] = Colon
  BY DEF Around
<1>2. w \in Nat /\ (p >= 1 => w = 2 * p - 1) /\ (p = 0 => w = 0)
      /\ Width(q) \in Nat /\ (q >= 1 => Width(q) = 2 * q - 1) /\ (q = 0 => Width(q) = 0)
  BY DEF Width
<1> HIDE DEF w
<1>3. ASSUME NEW i \in 1..Len(s) - 1
      PROVE  Colon \in {s[i], s[i + 1]}
  <2>1. i \in Nat /\ i >= 1 /\ i <= w + 1 + Width(q)
    BY <1>1, <1>2
  <2>2. CASE i = w \/ i = w + 1 \/ i = w + 2
    BY <1>1, <1>2, <2>2
  <2>3. CASE i < w
    <3>1. PICK k \in Nat : i = 2 * k \/ i = 2 * k + 1
      BY <2>1, Halves
    <3>2. p >= 1 /\ i <= 2 * p - 2
      BY <1>2, <2>1, <2>3
    <3>3. CASE i = 2 * k
      <4>1. k \in 1..p - 1
        BY <2>1, <3>2, <3>3
      <4> QED
        BY <1>1, <3>3, <4>1
    <3>4. CASE i = 2 * k + 1
      <4>1. k + 1 \in 1..p - 1 /\ i + 1 = 2 * (k + 1)
        BY <3>2, <3>4
      <4> QED
        BY <1>1, <4>1
    <3> QED
      BY <3>1, <3>3, <3>4
  <2>4. CASE i > w + 2
    <3>1. i - (w + 2) \in Nat
      BY <1>2, <2>1, <2>4
    <3>2. PICK k \in Nat : i - (w + 2) = 2 * k \/ i - (w + 2) = 2 * k + 1
      BY <3>1, Halves
    <3>3. q >= 1 /\ i - (w + 2) <= 2 * q - 2
      BY <1>2, <2>1, <2>4
    <3>4. CASE i - (w + 2) = 2 * k
      <4>1. k \in 1..q - 1 /\ i = w + 2 + 2 * k
        BY <1>2, <2>1, <2>4, <3>3, <3>4
      <4> QED
        BY <1>1, <4>1
    <3>5. CASE i - (w + 2) = 2 * k + 1
      <4>1. k + 1 \in 1..q - 1 /\ i + 1 = w + 2 + 2 * (k + 1)
        BY <1>2, <2>1, <3>3, <3>5
      <4> QED
        BY <1>1, <4>1
    <3> QED
      BY <3>2, <3>4, <3>5
  <2> QED
    BY <1>2, <2>1, <2>2, <2>3, <2>4
<1> QED
  BY <1>3 DEF Spaced

(* Notations, and so what toIPv6string prints, have no two side by side.    *)
LEMMA NotationsAreSpaced ==
    ASSUME NEW a \in Address, NEW tokens \in Notations(a)
    PROVE  Spaced(tokens)
<1>1. CASE tokens = Separated(a)
  <2>1. a \in Seq(0..MaxGroup) /\ Len(a) \in Nat
    BY AddressIsSeq
  <2>2. ColonsBetween(Separated(a), a)
    BY <2>1, SeparatedShape
  <2> QED
    BY <1>1, <2>1, <2>2, SeparatedIsSpaced
<1>2. ASSUME NEW b \in ZeroBlocks(a), tokens = Collapsed(a, b)
      PROVE  Spaced(tokens)
  <2>1. /\ b[1] - 1 \in Nat /\ 8 - b[2] \in Nat
        /\ \E v : Around(tokens, b[1] - 1, 8 - b[2], v)
    BY <1>2, CollapsedShape
  <2> QED
    BY <2>1, AroundIsSpaced
<1> QED
  BY <1>1, <1>2 DEF Notations

(* One text has these numbers around its "::".                              *)
LEMMA AroundIsOne ==
    ASSUME NEW p \in Nat, NEW q \in Nat, NEW s, NEW v, Around(s, p, q, v),
           NEW t, NEW u, Around(t, p, q, u), \A k \in 1..p + q : v[k] = u[k]
    PROVE  s = t
<1> DEFINE w == Width(p)
<1>1. /\ s \in Seq(Token) /\ Len(s) = w + 2 + Width(q) /\ s[w + 1] = Colon /\ s[w + 2] = Colon
      /\ \A k \in 1..p : s[2 * k - 1] = v[k]
      /\ \A k \in 1..p - 1 : s[2 * k] = Colon
      /\ \A k \in 1..q : s[w + 1 + 2 * k] = v[p + k]
      /\ \A k \in 1..q - 1 : s[w + 2 + 2 * k] = Colon
  BY DEF Around
<1>2. /\ t \in Seq(Token) /\ Len(t) = w + 2 + Width(q) /\ t[w + 1] = Colon /\ t[w + 2] = Colon
      /\ \A k \in 1..p : t[2 * k - 1] = u[k]
      /\ \A k \in 1..p - 1 : t[2 * k] = Colon
      /\ \A k \in 1..q : t[w + 1 + 2 * k] = u[p + k]
      /\ \A k \in 1..q - 1 : t[w + 2 + 2 * k] = Colon
  BY DEF Around
<1>3. w \in Nat /\ (p >= 1 => w = 2 * p - 1) /\ (p = 0 => w = 0)
      /\ Width(q) \in Nat /\ (q >= 1 => Width(q) = 2 * q - 1) /\ (q = 0 => Width(q) = 0)
  BY DEF Width
<1> HIDE DEF w
<1>4. \A k \in 1..p : s[2 * k - 1] = t[2 * k - 1]
  <2> TAKE k \in 1..p
  <2>1. k \in 1..p + q
    OBVIOUS
  <2> QED
    BY <1>1, <1>2, <2>1
<1>5. \A k \in 1..q : s[w + 1 + 2 * k] = t[w + 1 + 2 * k]
  <2> TAKE k \in 1..q
  <2>1. p + k \in 1..p + q
    OBVIOUS
  <2> QED
    BY <1>1, <1>2, <2>1
<1>6. \A i \in 1..Len(s) : s[i] = t[i]
  <2> TAKE i \in 1..Len(s)
  <2>1. i \in Nat /\ i >= 1 /\ i <= w + 2 + Width(q)
    BY <1>1, <1>3
  <2>2. CASE i = w + 1 \/ i = w + 2
    BY <1>1, <1>2, <2>2
  <2>3. CASE i <= w
    <3>1. PICK k \in Nat : i = 2 * k \/ i = 2 * k + 1
      BY <2>1, Halves
    <3>2. p >= 1 /\ i <= 2 * p - 1
      BY <1>3, <2>1, <2>3
    <3>3. CASE i = 2 * k
      <4>1. k \in 1..p - 1
        BY <2>1, <3>2, <3>3
      <4> QED
        BY <1>1, <1>2, <3>3, <4>1
    <3>4. CASE i = 2 * k + 1
      <4>1. k + 1 \in 1..p /\ i = 2 * (k + 1) - 1
        BY <3>2, <3>4
      <4> QED
        BY <1>4, <4>1
    <3> QED
      BY <3>1, <3>3, <3>4
  <2>4. CASE i > w + 2
    <3>1. i - (w + 2) \in Nat
      BY <1>3, <2>1, <2>4
    <3>2. PICK k \in Nat : i - (w + 2) = 2 * k \/ i - (w + 2) = 2 * k + 1
      BY <3>1, Halves
    <3>3. q >= 1 /\ i - (w + 2) <= 2 * q - 1
      BY <1>3, <2>1, <2>4
    <3>4. CASE i - (w + 2) = 2 * k
      <4>1. k \in 1..q - 1 /\ i = w + 2 + 2 * k
        BY <1>3, <2>1, <2>4, <3>3, <3>4
      <4> QED
        BY <1>1, <1>2, <4>1
    <3>5. CASE i - (w + 2) = 2 * k + 1
      <4>1. k + 1 \in 1..q /\ i = w + 1 + 2 * (k + 1)
        BY <1>3, <2>1, <3>3, <3>5
      <4> QED
        BY <1>5, <4>1
    <3> QED
      BY <3>2, <3>4, <3>5
  <2> QED
    BY <1>3, <2>1, <2>2, <2>3, <2>4
<1> HIDE DEF Token
<1> QED
  BY <1>1, <1>2, <1>6, Extensional

(* A text with the numbers of an address around zeros of it is a notation.  *)
LEMMA AroundIsNotation ==
    ASSUME NEW a \in Address, NEW p \in Nat, NEW q \in Nat, p + q <= 7,
           \A g \in 1..8 : p < g /\ g <= 8 - q => a[g] = 0,
           NEW tokens, NEW v, Describes(a, p, q, v), Around(tokens, p, q, v)
    PROVE  tokens \in Notations(a)
<1> DEFINE b == <<p + 1, 8 - q>>
<1>1. b \in ZeroBlocks(a) /\ b[1] - 1 = p /\ 8 - b[2] = q
  <2>1. p + 1 \in 1..8 /\ 8 - q \in 1..8 /\ p + 1 <= 8 - q /\ (p + 1) - 1 = p /\ 8 - (8 - q) = q
    OBVIOUS
  <2>2. \A g \in p + 1..8 - q : a[g] = 0
    BY <2>1
  <2> QED
    BY <2>1, <2>2 DEF ZeroBlocks, NumGroups
<1> HIDE DEF b
<1>2. PICK u : Around(Collapsed(a, b), p, q, u) /\ Describes(a, p, q, u)
  <2>1. \E u : /\ Around(Collapsed(a, b), b[1] - 1, 8 - b[2], u)
               /\ Describes(a, b[1] - 1, 8 - b[2], u)
    BY <1>1, CollapsedShape
  <2> QED
    BY <1>1, <2>1
<1>3. \A k \in 1..p + q : v[k] = u[k]
  <2> TAKE k \in 1..p + q
  <2>1. CASE k <= p
    BY <1>2, <2>1 DEF Describes
  <2>2. CASE k > p
    <3>1. k - p \in 1..q /\ p + (k - p) = k
      BY <2>2
    <3> QED
      BY <1>2, <3>1 DEF Describes
  <2> QED
    BY <2>1, <2>2
<1>4. tokens = Collapsed(a, b)
  BY <1>2, <1>3, AroundIsOne
<1> QED
  BY <1>1, <1>4 DEF Notations

(* Quartets and colons take turns before the "::" that begins at d ...      *)
TakesTurnsTo(tokens, d, k) ==
    /\ 2 * k - 1 < d => tokens[2 * k - 1] # Colon
    /\ 2 * k < d => tokens[2 * k] = Colon

LEMMA TurnsBefore ==
    ASSUME NEW tokens, Len(tokens) \in Nat, Spaced(tokens), NEW d \in 1..Len(tokens) - 1,
           \A i \in 1..Len(tokens) - 1 :
              tokens[i] = Colon /\ tokens[i + 1] = Colon => i = d,
           tokens[1] = Colon => d = 1
    PROVE  \A k \in Nat : k >= 1 => TakesTurnsTo(tokens, d, k)
<1> DEFINE S == {k \in Nat : k >= 1 => TakesTurnsTo(tokens, d, k)}
<1>1. 0 \in S
  OBVIOUS
<1>2. ASSUME NEW k \in Nat, k \in S
      PROVE  k + 1 \in S
  <2> SUFFICES TakesTurnsTo(tokens, d, k + 1)
    OBVIOUS
  <2>1. ASSUME 2 * k + 1 < d
        PROVE  tokens[2 * k + 1] # Colon
    <3>1. CASE k = 0
      BY <2>1, <3>1
    <3>2. CASE k >= 1
      <4>1. tokens[2 * k] = Colon
        BY <1>2, <2>1, <3>2 DEF TakesTurnsTo
      <4>2. 2 * k \in 1..Len(tokens) - 1 /\ 2 * k # d
        BY <2>1, <3>2
      <4> QED
        BY <4>1, <4>2
    <3> QED
      BY <3>1, <3>2
  <2>2. ASSUME 2 * k + 2 < d
        PROVE  tokens[2 * k + 2] = Colon
    <3>1. 2 * k + 1 \in 1..Len(tokens) - 1 /\ 2 * k + 1 < d /\ (2 * k + 1) + 1 = 2 * k + 2
      BY <2>2
    <3>2. Colon \in {tokens[2 * k + 1], tokens[(2 * k + 1) + 1]}
      BY <3>1 DEF Spaced
    <3> QED
      BY <2>1, <3>1, <3>2
  <2>3. 2 * (k + 1) - 1 = 2 * k + 1 /\ 2 * (k + 1) = 2 * k + 2
    OBVIOUS
  <2> QED
    BY <2>1, <2>2, <2>3 DEF TakesTurnsTo
<1> HIDE DEF S
<1>3. Nat \subseteq S
  BY <1>1, <1>2, NatSetInduction
<1> QED
  BY <1>3 DEF S

(* ... and behind it. *)
TakesTurnsFrom(tokens, d, k) ==
    /\ d + 2 * k <= Len(tokens) => tokens[d + 2 * k] # Colon
    /\ d + 1 + 2 * k <= Len(tokens) => tokens[d + 1 + 2 * k] = Colon

LEMMA TurnsBehind ==
    ASSUME NEW tokens, Len(tokens) \in Nat, Spaced(tokens), NEW d \in 1..Len(tokens) - 1,
           tokens[d + 1] = Colon,
           \A i \in 1..Len(tokens) - 1 :
              tokens[i] = Colon /\ tokens[i + 1] = Colon => i = d
    PROVE  \A k \in Nat : k >= 1 => TakesTurnsFrom(tokens, d, k)
<1> DEFINE S == {k \in Nat : k >= 1 => TakesTurnsFrom(tokens, d, k)}
<1>1. 0 \in S
  OBVIOUS
<1>2. ASSUME NEW k \in Nat, k \in S
      PROVE  k + 1 \in S
  <2> SUFFICES TakesTurnsFrom(tokens, d, k + 1)
    OBVIOUS
  <2>1. ASSUME d + 2 * k + 2 <= Len(tokens)
        PROVE  tokens[d + 2 * k + 2] # Colon
    <3>1. tokens[d + 1 + 2 * k] = Colon
      <4>1. CASE k = 0
        BY <4>1
      <4>2. CASE k >= 1
        BY <1>2, <2>1, <4>2 DEF TakesTurnsFrom
      <4> QED
        BY <4>1, <4>2
    <3>2. /\ d + 1 + 2 * k \in 1..Len(tokens) - 1 /\ d + 1 + 2 * k # d
          /\ (d + 1 + 2 * k) + 1 = d + 2 * k + 2
      BY <2>1
    <3> QED
      BY <3>1, <3>2
  <2>2. ASSUME d + 2 * k + 3 <= Len(tokens)
        PROVE  tokens[d + 2 * k + 3] = Colon
    <3>1. /\ d + 2 * k + 2 \in 1..Len(tokens) - 1 /\ d + 2 * k + 2 <= Len(tokens)
          /\ (d + 2 * k + 2) + 1 = d + 2 * k + 3
      BY <2>2
    <3>2. Colon \in {tokens[d + 2 * k + 2], tokens[(d + 2 * k + 2) + 1]}
      BY <3>1 DEF Spaced
    <3> QED
      BY <2>1, <3>1, <3>2
  <2>3. d + 2 * (k + 1) = d + 2 * k + 2 /\ d + 1 + 2 * (k + 1) = d + 2 * k + 3
    OBVIOUS
  <2> QED
    BY <2>1, <2>2, <2>3 DEF TakesTurnsFrom
<1> HIDE DEF S
<1>3. Nat \subseteq S
  BY <1>1, <1>2, NatSetInduction
<1> QED
  BY <1>3 DEF S

(* The shape of a text with "::" that IPv6isCorrect accepts.                *)
IsShaped(tokens, p, q, v) ==
    /\ p \in Nat /\ q \in Nat /\ p + q <= 7
    /\ \A k \in 1..p + q : v[k] \in 0..MaxGroup
    /\ Around(tokens, p, q, v)

LEMMA AcceptedIsShaped ==
    ASSUME NEW tokens \in Seq(Token), Spaced(tokens), IPv6isCorrect(tokens),
           DoubleColons(tokens) # {}
    PROVE  \E p, q, v : IsShaped(tokens, p, q, v)
<1> DEFINE n == Len(tokens)
<1>1. n \in Nat /\ DOMAIN tokens = 1..n /\ \A i \in 1..n : tokens[i] \in Token
  BY ElementOfSeq
<1>2. PICK d \in 1..n - 1 : tokens[d] = Colon /\ tokens[d + 1] = Colon
  BY DEF DoubleColons
<1>3. \A i \in 1..n - 1 : tokens[i] = Colon /\ tokens[i + 1] = Colon => i = d
  <2> DEFINE D == DoubleColons(tokens)
  <2>1. D \in SUBSET (1..n) /\ d \in D
    BY <1>1, <1>2 DEF DoubleColons
  <2>2. IsFiniteSet(D)
    BY <1>1, <2>1, SubsetsAreFinite
  <2>3. Cardinality(D) <= 1
    BY DEF IPv6isCorrect
  <2>4. \A i \in 1..n - 1 : tokens[i] = Colon /\ tokens[i + 1] = Colon => i \in D
    BY DEF DoubleColons
  <2> HIDE DEF D, n
  <2>5. Cardinality(D) \in Nat /\ Cardinality(D) # 0
    BY <2>1, <2>2, FS_CardinalityType, FS_EmptySet
  <2>6. Cardinality(D) = 1
    BY <2>3, <2>5
  <2>7. PICK x : D = {x}
    BY <2>2, <2>6, FS_Singleton
  <2> QED
    BY <2>1, <2>4, <2>7
<1>4. /\ Head(tokens) = tokens[1] /\ Last(tokens) = tokens[n] /\ n >= 2
      /\ tokens[1] = Colon => tokens[2] = Colon
      /\ tokens[n] = Colon => tokens[n - 1] = Colon
      /\ \A i \in 1..n : tokens[i] # Malformed
  <2>1. Head(tokens) = tokens[1] /\ Last(tokens) = tokens[n] /\ n >= 2
    BY <1>1, <1>2 DEF Last
  <2> QED
    BY <1>1, <2>1 DEF IPv6isCorrect
<1> HIDE DEF n
<1>5. tokens[1] = Colon => d = 1
  <2>1. 1 \in 1..n - 1 /\ 1 + 1 = 2
    BY <1>1, <1>4
  <2> QED
    BY <1>3, <1>4, <2>1
<1>6. tokens[n] = Colon => n = d + 1
  <2>1. n - 1 \in 1..n - 1 /\ (n - 1) + 1 = n
    BY <1>1, <1>4
  <2> QED
    BY <1>2, <1>3, <1>4, <2>1
<1>7. \A k \in Nat : k >= 1 => TakesTurnsTo(tokens, d, k)
  BY <1>1, <1>2, <1>3, <1>5, TurnsBefore DEF n
<1>8. \A k \in Nat : k >= 1 => TakesTurnsFrom(tokens, d, k)
  BY <1>1, <1>2, <1>3, TurnsBehind DEF n
(* The quartets before it. *)
<1>9. PICK p \in Nat : d = Width(p) + 1
  <2>1. CASE d = 1
    <3>1. 0 \in Nat /\ d = Width(0) + 1
      BY <2>1 DEF Width
    <3> QED
      BY <3>1
  <2>2. CASE d > 1
    <3>1. d - 1 \in 1..n - 1 /\ (d - 1) + 1 = d /\ d - 1 \in Nat
      BY <1>1, <2>2
    <3>2. tokens[d - 1] # Colon
      BY <1>2, <1>3, <3>1
    <3>3. PICK k \in Nat : d - 1 = 2 * k \/ d - 1 = 2 * k + 1
      BY <3>1, Halves
    <3>4. d - 1 # 2 * k
      <4> SUFFICES ASSUME d - 1 = 2 * k
                   PROVE  FALSE
        OBVIOUS
      <4>1. k >= 1 /\ 2 * k < d
        BY <2>2, <3>1
      <4>2. tokens[2 * k] = Colon
        BY <1>7, <4>1 DEF TakesTurnsTo
      <4> QED
        BY <3>2, <4>2
    <3>5. k + 1 \in Nat /\ d = Width(k + 1) + 1
      BY <3>3, <3>4 DEF Width
    <3> QED
      BY <3>5
  <2> QED
    BY <2>1, <2>2
(* The quartets behind it. *)
<1>10. PICK q \in Nat : n = d + 1 + Width(q)
  <2>1. CASE n = d + 1
    <3>1. 0 \in Nat /\ n = d + 1 + Width(0)
      BY <2>1 DEF Width
    <3> QED
      BY <3>1
  <2>2. CASE n # d + 1
    <3>1. n - (d + 2) \in Nat
      BY <1>1, <2>2
    <3>2. PICK k \in Nat : n - (d + 2) = 2 * k \/ n - (d + 2) = 2 * k + 1
      BY <3>1, Halves
    <3>3. n - (d + 2) # 2 * k + 1
      <4> SUFFICES ASSUME n - (d + 2) = 2 * k + 1
                   PROVE  FALSE
        OBVIOUS
      <4>1. n = d + 1 + 2 * (k + 1) /\ k + 1 \in Nat /\ k + 1 >= 1 /\ n <= n
        BY <1>1
      <4>2. TakesTurnsFrom(tokens, d, k + 1)
        BY <1>8, <4>1
      <4>3. tokens[n] = Colon
        BY <4>1, <4>2 DEF TakesTurnsFrom, n
      <4> QED
        BY <1>6, <2>2, <4>3
    <3>4. k + 1 \in Nat /\ n = d + 1 + Width(k + 1)
      BY <1>1, <3>2, <3>3 DEF Width
    <3> QED
      BY <3>4
  <2> QED
    BY <2>1, <2>2
<1> DEFINE v == [k \in 1..p + q |-> tokens[Spot(p, k)]]
<1>11. /\ \A k \in 1..p : 2 * k - 1 < d /\ 2 * k - 1 \in 1..n
       /\ \A k \in 1..p - 1 : 2 * k < d
       /\ \A k \in 1..q : d + 2 * k <= n /\ d + 2 * k \in 1..n
       /\ \A k \in 1..q - 1 : d + 1 + 2 * k <= n
  BY <1>1, <1>9, <1>10 DEF Width
<1>12. \A i \in 1..n : tokens[i] # Colon => tokens[i] \in 0..MaxGroup
  BY <1>1, <1>4, MaxGroupIsNat DEF Token, Colon, Malformed
<1>13. /\ \A k \in 1..p : tokens[2 * k - 1] \in 0..MaxGroup
       /\ \A k \in 1..p - 1 : tokens[2 * k] = Colon
  <2>1. ASSUME NEW k \in 1..p
        PROVE  tokens[2 * k - 1] \in 0..MaxGroup
    <3>1. k \in Nat /\ k >= 1
      OBVIOUS
    <3>2. TakesTurnsTo(tokens, d, k)
      BY <1>7, <3>1
    <3>3. tokens[2 * k - 1] # Colon
      BY <1>11, <3>2 DEF TakesTurnsTo
    <3> QED
      BY <1>11, <1>12, <3>3
  <2>2. ASSUME NEW k \in 1..p - 1
        PROVE  tokens[2 * k] = Colon
    <3>1. k \in Nat /\ k >= 1
      OBVIOUS
    <3>2. TakesTurnsTo(tokens, d, k)
      BY <1>7, <3>1
    <3> QED
      BY <1>11, <3>2 DEF TakesTurnsTo
  <2> QED
    BY <2>1, <2>2
<1>14. /\ \A k \in 1..q : tokens[d + 2 * k] \in 0..MaxGroup
       /\ \A k \in 1..q - 1 : tokens[d + 1 + 2 * k] = Colon
  <2>1. ASSUME NEW k \in 1..q
        PROVE  tokens[d + 2 * k] \in 0..MaxGroup
    <3>1. k \in Nat /\ k >= 1
      OBVIOUS
    <3>2. TakesTurnsFrom(tokens, d, k)
      BY <1>8, <3>1
    <3>3. tokens[d + 2 * k] # Colon
      BY <1>11, <3>2 DEF TakesTurnsFrom, n
    <3> QED
      BY <1>11, <1>12, <3>3
  <2>2. ASSUME NEW k \in 1..q - 1
        PROVE  tokens[d + 1 + 2 * k] = Colon
    <3>1. k \in Nat /\ k >= 1
      OBVIOUS
    <3>2. TakesTurnsFrom(tokens, d, k)
      BY <1>8, <3>1
    <3> QED
      BY <1>11, <3>2 DEF TakesTurnsFrom, n
  <2> QED
    BY <2>1, <2>2
<1>15. /\ \A k \in 1..p : v[k] = tokens[2 * k - 1]
       /\ \A k \in 1..q : v[p + k] = tokens[d + 2 * k]
  <2>1. ASSUME NEW k \in 1..p
        PROVE  v[k] = tokens[2 * k - 1]
    <3>1. k \in 1..p + q /\ Spot(p, k) = 2 * k - 1
      BY DEF Spot
    <3> QED
      BY <3>1
  <2>2. ASSUME NEW k \in 1..q
        PROVE  v[p + k] = tokens[d + 2 * k]
    <3>1. p + k \in 1..p + q /\ Spot(p, p + k) = d + 2 * k
      BY <1>9 DEF Spot
    <3> QED
      BY <3>1
  <2> QED
    BY <2>1, <2>2
<1> HIDE DEF v
<1>16. \A k \in 1..p + q : v[k] \in 0..MaxGroup
  <2> TAKE k \in 1..p + q
  <2>1. CASE k <= p
    BY <1>13, <1>15, <2>1
  <2>2. CASE k > p
    <3>1. k - p \in 1..q /\ p + (k - p) = k
      BY <2>2
    <3> QED
      BY <1>14, <1>15, <3>1
  <2> QED
    BY <2>1, <2>2
<1>17. Around(tokens, p, q, v)
  <2>1. n = Width(p) + 2 + Width(q) /\ Width(p) + 2 = d + 1
        /\ (\A k \in 1..q : Width(p) + 1 + 2 * k = d + 2 * k)
        /\ (\A k \in 1..q - 1 : Width(p) + 2 + 2 * k = d + 1 + 2 * k)
    <3> DEFINE w == Width(p)
               u == Width(q)
    <3>1. w \in Nat /\ u \in Nat /\ d = w + 1 /\ n = d + 1 + u
      BY <1>9, <1>10, WidthIsNat
    <3> HIDE DEF w, u
    <3>2. n = w + 2 + u /\ w + 2 = d + 1
          /\ (\A k \in 1..q : w + 1 + 2 * k = d + 2 * k)
          /\ (\A k \in 1..q - 1 : w + 2 + 2 * k = d + 1 + 2 * k)
      BY <3>1
    <3> QED
      BY <3>2 DEF w, u
  <2> QED
    BY <1>2, <1>9, <1>13, <1>14, <1>15, <2>1 DEF Around, n
<1>18. p + q <= 7
  <2>1. Found(tokens, p, q, v)
    BY <1>16, <1>17, AroundFound
  <2> DEFINE count == Colons(tokens)
  <2>2. count = Width(p) + 2 + Width(q) - (p + q)
    BY <2>1 DEF Found
  <2>3. count \in 2..8 /\ (count = 8 => p = 0 \/ q = 0)
    <3>1. count \in 2..8 /\ (count = 8 => Colon \in {Head(tokens), Last(tokens)})
      BY DEF IPv6isCorrect
    <3> QED
      BY <2>1, <3>1 DEF Found
  <2> HIDE DEF count
  <2> QED
    BY <2>2, <2>3 DEF Width
<1>19. IsShaped(tokens, p, q, v)
  BY <1>16, <1>17, <1>18 DEF IsShaped
<1> QED
  BY <1>19

(* What toIPv6string prints is a notation of the address.                   *)
LEMMA PrintedIsNotation ==
    ASSUME NEW a \in Address
    PROVE  ToIPv6string(a) \in Notations(a)
<1> DEFINE at == Scanned(a).maxAt
           n == Scanned(a).maxSize
           last == at + n - 1
<1>1. at \in Nat /\ n \in Nat /\ IsBlock(a, at, n)
  BY ScannedIsBest
<1>2. ToIPv6string(a) = Written(a, n >= 2, at, last)
  BY PrintedIsWritten
<1> HIDE DEF at, n
<1>3. CASE ~(n >= 2)
  BY <1>2, <1>3, WrittenWhole DEF Notations
<1>4. CASE n >= 2
  <2>1. at \in 1..8 /\ last \in 1..8 /\ at <= last /\ Zeros(a, at, last)
    BY <1>1, <1>4 DEF IsBlock
  <2>2. <<at, last>> \in ZeroBlocks(a)
    BY <2>1 DEF ZeroBlocks, Zeros, NumGroups
  <2>3. (n >= 2) = TRUE
    BY <1>4
  <2> HIDE DEF last
  <2>4. ToIPv6string(a) = Collapsed(a, <<at, last>>)
    BY <1>2, <2>1, <2>3, WrittenAround
  <2> QED
    BY <2>2, <2>4 DEF Notations
<1> QED
  BY <1>3, <1>4

(* What is read from a text depends on its tokens and on whether it has a   *)
(* zone.                                                                    *)
LEMMA ReadingTakes ==
    ASSUME NEW t
    PROVE  ReadAddress(t) = ReadAddress([tokens |-> t.tokens, zone |-> t.zone])
<1> DEFINE u == [tokens |-> t.tokens, zone |-> t.zone]
<1>1. u.tokens = t.tokens /\ u.zone = t.zone
  OBVIOUS
<1> HIDE DEF u
<1>2. ZeroBlock(u) = ZeroBlock(t)
  BY <1>1, Zenon DEF ZeroBlock
<1>3. \A k : NumberRead(u, k) = NumberRead(t, k)
  <2> DEFINE N(tokens, zone, k) == LET places == Places(tokens)
                                       n == Cardinality(places)
                                   IN  CASE k <= n -> tokens[PlaceOf(places, k)]
                                         [] k > n /\ zone -> 0
                                         [] k > n /\ ~zone -> tokens[PlaceOf(places, n)]
  <2>1. \A r, k : NumberRead(r, k) = N(r.tokens, r.zone, k)
    BY DEF NumberRead
  <2> HIDE DEF N
  <2> TAKE k
  <2>2. NumberRead(u, k) = N(u.tokens, u.zone, k)
    BY <2>1
  <2>3. NumberRead(t, k) = N(t.tokens, t.zone, k)
    BY <2>1
  <2> QED
    BY <1>1, <2>2, <2>3
<1>4. ReadAddress(u) = ReadAddress(t)
  <2> DEFINE V(r, g) == CASE g <= ZeroBlock(r).before -> NumberRead(r, g)
                          [] /\ g > ZeroBlock(r).before
                             /\ g <= ZeroBlock(r).before + ZeroBlock(r).size -> 0
                          [] OTHER -> NumberRead(r, g - ZeroBlock(r).size)
  <2>1. /\ ReadAddress(u) = [g \in 1..NumGroups |-> V(u, g)]
        /\ ReadAddress(t) = [g \in 1..NumGroups |-> V(t, g)]
    BY DEF ReadAddress
  <2>2. ASSUME NEW g
        PROVE  V(u, g) = V(t, g)
    <3>1. /\ NumberRead(u, g) = NumberRead(t, g)
          /\ NumberRead(u, g - ZeroBlock(u).size) = NumberRead(t, g - ZeroBlock(u).size)
      BY <1>3
    <3> QED
      BY <1>2, <3>1
  <2> HIDE DEF V
  <2> QED
    BY <2>1, <2>2
<1> QED
  BY <1>4 DEF u

(* An accepted text with "::" is a notation of the address read from it.    *)
LEMMA AcceptedIsMeant ==
    ASSUME NEW tokens \in Seq(Token), NEW zone \in BOOLEAN, Spaced(tokens),
           IPv6isCorrect(tokens), DoubleColons(tokens) # {}
    PROVE  tokens \in Notations(ReadAddress([tokens |-> tokens, zone |-> zone]))
<1>1. PICK p, q, v : IsShaped(tokens, p, q, v)
  BY AcceptedIsShaped
<1>2. /\ p \in Nat /\ q \in Nat /\ p + q <= 7
      /\ \A k \in 1..p + q : v[k] \in 0..MaxGroup
      /\ Around(tokens, p, q, v)
  BY <1>1 DEF IsShaped
<1> DEFINE a == [g \in 1..8 |-> IF g <= p THEN v[g]
                                ELSE IF g <= 8 - q THEN 0 ELSE v[p + (g - (8 - q))]]
<1>3. a \in Address
  <2>1. ASSUME NEW g \in 1..8
        PROVE  a[g] \in 0..MaxGroup
    <3>1. CASE g <= p
      <4>1. g \in 1..p + q
        BY <1>2, <3>1
      <4> QED
        BY <1>2, <3>1, <4>1
    <3>2. CASE ~(g <= p) /\ g <= 8 - q
      BY <3>2, MaxGroupIsNat
    <3>3. CASE ~(g <= p) /\ ~(g <= 8 - q)
      <4>1. p + (g - (8 - q)) \in 1..p + q
        BY <1>2, <3>3
      <4> QED
        BY <1>2, <3>3, <4>1
    <3> QED
      BY <3>1, <3>2, <3>3
  <2> QED
    BY <2>1, Zenon DEF Address, NumGroups
<1>4. Describes(a, p, q, v)
  <2>1. ASSUME NEW k \in 1..p
        PROVE  v[k] = a[k]
    <3>1. k \in 1..8 /\ k <= p
      BY <1>2
    <3> QED
      BY <3>1
  <2>2. ASSUME NEW k \in 1..q
        PROVE  v[p + k] = a[8 - q + k]
    <3>1. /\ 8 - q + k \in 1..8 /\ ~(8 - q + k <= p) /\ ~(8 - q + k <= 8 - q)
          /\ (8 - q + k) - (8 - q) = k
      BY <1>2
    <3> QED
      BY <3>1
  <2> QED
    BY <2>1, <2>2 DEF Describes
<1>5. \A g \in 1..8 : p < g /\ g <= 8 - q => a[g] = 0
  BY <1>2
<1> HIDE DEF a
<1>6. ReadAddress([tokens |-> tokens, zone |-> zone]) = a
  <2>1. (\A k \in 1..p : v[k] = a[k]) /\ (\A k \in 1..q : v[p + k] = a[8 - q + k])
    BY <1>4 DEF Describes
  <2> QED
    BY <1>2, <1>3, <1>5, <2>1, AroundIsRead
<1>7. tokens \in Notations(a)
  BY <1>2, <1>3, <1>4, <1>5, AroundIsNotation
<1> QED
  BY <1>6, <1>7

(* The text of the last call never has two quartets side by side: the       *)
(* application gives none that has, and toIPv6string prints notations.      *)
LEMMA StepKeepsSpaced ==
    ASSUME TypeOK, Spaced(text.tokens), [Next]_vars
    PROVE  Spaced(text'.tokens)
<1>1. \A t \in Texts \cup {text} : Spaced(t.tokens)
  BY TextsAssumption DEF Spaced
<1>2. Spaced(NoText.tokens)
  BY DEF NoText, Plain, Spaced
<1>3. ASSUME NEW t \in Texts \cup {text}, text' = t
      PROVE  Spaced(text'.tokens)
  BY <1>1, <1>3
<1>4. CASE \E t \in Texts \cup {text} : ReadText(t) \/ \E kind \in Kinds : CreateLocator(kind, t)
  BY <1>3, <1>4 DEF ReadText, CreateLocator
<1>5. CASE \E a \in Addresses : SetGroups(a)
  BY <1>2, <1>5 DEF SetGroups
<1>6. CASE WriteText
  <2>1. locator.address \in Address
    BY DEF TypeOK
  <2>2. text'.tokens = ToIPv6string(locator.address)
    BY <1>6 DEF WriteText, Plain
  <2> QED
    BY <2>1, <2>2, PrintedIsNotation, NotationsAreSpaced
<1>7. CASE UNCHANGED vars
  BY <1>7 DEF vars
<1> QED
  BY <1>4, <1>5, <1>6, <1>7 DEF Next

(* A text with "::" that IPv6isCorrect accepts, with a zone or without, is  *)
(* a notation of the very address setIPv6 reads from it, whatever calls     *)
(* came before: no such text could mean no address, or another.             *)
THEOREM AcceptedTextsAreMeant == Spec => []CompressedTextsAreMeant
<1>1. Init => Spaced(text.tokens)
  BY DEF Init, NoText, Plain, Spaced
<1>2. TypeOK /\ Spaced(text.tokens) /\ [Next]_vars => Spaced(text.tokens)'
  BY StepKeepsSpaced
<1>3. TypeOK /\ Spaced(text.tokens) => CompressedTextsAreMeant
  <2> SUFFICES ASSUME TypeOK, Spaced(text.tokens),
                      IPv6isCorrect(text.tokens), DoubleColons(text.tokens) # {}
               PROVE  text.tokens \in Notations(ReadAddress(text))
    BY DEF CompressedTextsAreMeant
  <2>1. text.tokens \in Seq(Token) /\ text.zone \in BOOLEAN
    BY DEF TypeOK, Token
  <2>2. text.tokens \in Notations(ReadAddress([tokens |-> text.tokens, zone |-> text.zone]))
    BY <2>1, AcceptedIsMeant
  <2> QED
    BY <2>2, ReadingTakes
<1> QED
  BY <1>1, <1>2, <1>3, AddressTypeCorrect, PTL DEF Spec

=============================================================================
