------------------------------ MODULE Ipv6Text ------------------------------
(***************************************************************************)
(* IPv6 addresses in text (IPLocator.cpp): how a locator's address is read *)
(* from a text and written to one.                                         *)
(*                                                                         *)
(* An address is eight groups of two octets.  A text is the sequence of    *)
(* its colons and quartets, of which the code sees the value, or only that *)
(* IPv6_QUARTET_REGEX refuses it; and it may end in a zone (the %wlp2s0 of *)
(* a link-local address) that does not begin with a hexadecimal digit.     *)
(***************************************************************************)
EXTENDS Integers, Sequences, FiniteSets, SequencesExt, SeqFolds

CONSTANTS
    Kinds,          \* the kinds of locator the application creates
    Addresses,      \* the addresses it sets as octets or groups
    Texts           \* the texts it has addresses read from

UDPv6 == 2
TCPv6 == 8
V6Kinds == {UDPv6, TCPv6}

NumGroups == 8
MaxGroup == 65535
Address == [1..NumGroups -> 0..MaxGroup]
ZeroAddress == [g \in 1..NumGroups |-> 0]

(* The tokens that are not the value of a quartet. *)
Colon == -1
Malformed == -2

ASSUME KindsAssumption == Kinds \in SUBSET Int
ASSUME AddressesAssumption == Addresses \subseteq Address

(* No text has two quartets side by side: what is between two colons is one.*)
ASSUME TextsAssumption ==
    \A t \in Texts :
        /\ t.zone \in BOOLEAN
        /\ t.tokens \in Seq(-2..MaxGroup)
        /\ \A i \in 1..Len(t.tokens) - 1 : Colon \in {t.tokens[i], t.tokens[i + 1]}

VARIABLES
    locator,        \* a Locator of the application, its kind and address
    text            \* the text of the last call, NoText if it took none

vars == <<locator, text>>

-----------------------------------------------------------------------------
Plain(tokens) == [tokens |-> tokens, zone |-> FALSE]
NoText == Plain(<<>>)

Colons(tokens) == Cardinality({i \in DOMAIN tokens : tokens[i] = Colon})

(* Where the quartets are, and where the k-th of them is.                   *)
Places(tokens) == {i \in DOMAIN tokens : tokens[i] # Colon}

PlaceOf(places, k) == CHOOSE i \in places : Cardinality({j \in places : j <= i}) = k

(* Where a "::" begins. *)
DoubleColons(tokens) ==
    {i \in 1..Len(tokens) - 1 : tokens[i] = Colon /\ tokens[i + 1] = Colon}

(* The conditions on the zone-less text, in the order of the code.          *)
MutIPv6isCorrect(tokens) ==
    LET count == Colons(tokens) IN
    /\ count \in 2..8
    /\ Cardinality(DoubleColons(tokens)) <= 1
    /\ Head(tokens) = Colon => tokens[2] = Colon
    /\ Last(tokens) = Colon => tokens[Len(tokens) - 1] = Colon
    /\ \A i \in DOMAIN tokens : tokens[i] # Malformed

MutAnyQuartet(tokens) ==
    LET count == Colons(tokens) IN
    /\ count \in 2..8
    /\ count = 8 => Colon \in {Head(tokens), Last(tokens)}
    /\ Cardinality(DoubleColons(tokens)) <= 1
    /\ Head(tokens) = Colon => tokens[2] = Colon
    /\ Last(tokens) = Colon => tokens[Len(tokens) - 1] = Colon

IPv6isCorrect(tokens) ==
    LET count == Colons(tokens) IN
    /\ count \in 2..8
    /\ count = 8 => Colon \in {Head(tokens), Last(tokens)}
    /\ Cardinality(DoubleColons(tokens)) <= 1
    /\ Head(tokens) = Colon => tokens[2] = Colon
    /\ Last(tokens) = Colon => tokens[Len(tokens) - 1] = Colon
    /\ \A i \in DOMAIN tokens : tokens[i] # Malformed

(* The block of zeros setIPv6 works out from the number of colons: the      *)
(* groups before it, and its own.  It looks for the last colon in the whole *)
(* text, so a zone hides that the address ends in "::".                     *)
MutZeroBlock(t) ==
    LET count == Colons(t.tokens)
        ends == Last(t.tokens) = Colon /\ ~t.zone
    IN
    CASE Head(t.tokens) = Colon /\ ends -> [before |-> 0, size |-> 8]
      [] Head(t.tokens) = Colon /\ ~ends -> [before |-> 0, size |-> 8 - count]
      [] Head(t.tokens) # Colon /\ ends -> [before |-> count - 1, size |-> 9 - count]
      [] OTHER -> LET double == DoubleColons(t.tokens) IN
                  IF double = {} THEN [before |-> 8, size |-> 0]
                  ELSE [before |-> Colons(SubSeq(t.tokens, 1, CHOOSE i \in double : TRUE)),
                        size |-> 8 - count]

ZeroBlock(t) ==
    LET count == Colons(t.tokens)
        ends == Last(t.tokens) = Colon /\ ~t.zone
    IN
    CASE Head(t.tokens) = Colon /\ ends -> [before |-> 0, size |-> 8]
      [] Head(t.tokens) = Colon /\ ~ends -> [before |-> 0, size |-> 9 - count]
      [] Head(t.tokens) # Colon /\ ends -> [before |-> count - 1, size |-> 9 - count]
      [] OTHER -> LET double == DoubleColons(t.tokens) IN
                  IF double = {} THEN [before |-> 8, size |-> 0]
                  ELSE [before |-> Colons(SubSeq(t.tokens, 1, CHOOSE i \in double : TRUE)),
                        size |-> 8 - count]

(* The k-th number the stream yields.  Past the end of the text a read does *)
(* not touch input_aux, which keeps the number before; at a zone it fails   *)
(* and stores 0, and nothing is stored after that.                          *)
NumberRead(t, k) ==
    LET places == Places(t.tokens)
        n == Cardinality(places)
    IN  CASE k <= n -> t.tokens[PlaceOf(places, k)]
          [] k > n /\ t.zone -> 0
          [] k > n /\ ~t.zone -> t.tokens[PlaceOf(places, n)]

ReadAddress(t) ==
    LET block == ZeroBlock(t) IN
    [g \in 1..NumGroups |->
        CASE g <= block.before -> NumberRead(t, g)
          [] g > block.before /\ g <= block.before + block.size -> 0
          [] OTHER -> NumberRead(t, g - block.size)]

(* setIPv6 from a text: the locator it leaves.  What it returns is read by  *)
(* no caller (false when the text is refused, or has a zone, which is left  *)
(* unread although the address is set).                                     *)
SetIPv6(l, t) ==
    IF l.kind \in V6Kinds /\ IPv6isCorrect(t.tokens)
      THEN [l EXCEPT !.address = ReadAddress(t)] ELSE l

-----------------------------------------------------------------------------
(***************************************************************************)
(* toIPv6string.  The first loop scans the groups for the block of zeros   *)
(* to collapse; `open' is its variable compress.                           *)
(***************************************************************************)
MutLargest(scan) ==
    IF scan.size >= scan.maxSize
      THEN [scan EXCEPT !.maxAt = scan.at, !.maxSize = scan.size] ELSE scan

Largest(scan) ==
    IF scan.size > scan.maxSize
      THEN [scan EXCEPT !.maxAt = scan.at, !.maxSize = scan.size] ELSE scan

ScanGroup(a, scan, g) ==
    IF a[g] = 0
      THEN IF scan.open THEN [scan EXCEPT !.size = @ + 1]
                        ELSE [scan EXCEPT !.open = TRUE, !.at = g, !.size = 1]
      ELSE IF scan.open THEN [Largest(scan) EXCEPT !.open = FALSE] ELSE scan

Scanned(a) ==
    LET start == [open |-> FALSE, at |-> 1, size |-> 0, maxAt |-> 1, maxSize |-> 0]
        end == FoldLeft(LAMBDA scan, g : ScanGroup(a, scan, g), start,
                        [g \in 1..NumGroups |-> g])
    IN  IF end.open THEN Largest(end) ELSE end

(* The second loop: a group of the collapsed block writes nothing, but the  *)
(* last of them its second colon.                                           *)
ToIPv6string(a) ==
    LET block == Scanned(a)
        compress == block.maxSize >= 2
        last == block.maxAt + block.maxSize - 1
        Piece(g) ==
            IF compress /\ g \in block.maxAt..last
              THEN IF g = last THEN <<Colon>> ELSE <<>>
              ELSE IF g # NumGroups THEN <<a[g], Colon>> ELSE <<a[g]>>
    IN  (IF compress /\ block.maxAt = 1 THEN <<Colon>> ELSE <<>>)
        \o Chained([g \in 1..NumGroups |-> Piece(g)])

-----------------------------------------------------------------------------
Init ==
    /\ locator \in [kind : {UDPv6}, address : {ZeroAddress}]
    /\ text = NoText

(* createLocator: the address is zeroed and, of a v6 kind, read; whether    *)
(* that succeeds is not told.                                               *)
CreateLocator(kind, t) ==
    /\ locator' = SetIPv6([kind |-> kind, address |-> ZeroAddress], t)
    /\ text' = t

(* setIPv6 on the locator as it is. *)
ReadText(t) ==
    /\ locator' = SetIPv6(locator, t)
    /\ text' = t

(* setIPv6 from sixteen octets, eight groups or another locator.            *)
SetGroups(a) ==
    /\ locator' = IF locator.kind \in V6Kinds THEN [locator EXCEPT !.address = a]
                                              ELSE locator
    /\ text' = NoText

WriteText ==
    /\ text' = Plain(ToIPv6string(locator.address))
    /\ UNCHANGED locator

Next ==
    \/ \E t \in Texts \cup {text} : ReadText(t) \/ \E kind \in Kinds : CreateLocator(kind, t)
    \/ \E a \in Addresses : SetGroups(a)
    \/ WriteText

Spec == Init /\ [][Next]_vars

-----------------------------------------------------------------------------
(***************************************************************************)
(* Correctness.                                                            *)
(***************************************************************************)
(* The locator has a kind and an address of eight groups that fit 16 bits.  *)
TypeOK ==
    /\ locator \in [kind : Kinds \cup {UDPv6}, address : Address]
    /\ text.tokens \in Seq(-2..MaxGroup) /\ text.zone \in BOOLEAN

(* The notations of an address: all eight numbers, or those around a block  *)
(* of zeros.                                                                *)
Separated(numbers) ==
    [i \in 1..2 * Len(numbers) - 1 |->
        IF i % 2 = 1 THEN numbers[(i + 1) \div 2] ELSE Colon]

ZeroBlocks(a) ==
    {b \in (1..NumGroups) \X (1..NumGroups) :
        b[1] <= b[2] /\ \A g \in b[1]..b[2] : a[g] = 0}

Collapsed(a, b) ==
    Separated(SubSeq(a, 1, b[1] - 1)) \o <<Colon, Colon>>
    \o Separated(SubSeq(a, b[2] + 1, NumGroups))

Notations(a) == {Separated(a)} \cup {Collapsed(a, b) : b \in ZeroBlocks(a)}

(* setIPv6 reads every notation of an address, with or without a zone, as   *)
(* that address: it counts neither a colon nor a zero too many.             *)
EveryNotationReads ==
    \A tokens \in Notations(locator.address), zone \in BOOLEAN :
        LET t == [tokens |-> tokens, zone |-> zone] IN
        IPv6isCorrect(tokens) /\ ReadAddress(t) = locator.address

(* A text with "::" that is accepted is a notation of the address read from *)
(* it: nothing that could mean no address, or another, gets through.        *)
CompressedTextsAreMeant ==
    IPv6isCorrect(text.tokens) /\ DoubleColons(text.tokens) # {}
    => text.tokens \in Notations(ReadAddress(text))

(* toIPv6string follows RFC 5952: it collapses two or more zeros, as many   *)
(* as it can in one block, and the first of the blocks that are as large.   *)
PrintedIsCanonical ==
    LET a == locator.address
        size(b) == b[2] - b[1] + 1
        blocks == {b \in ZeroBlocks(a) : size(b) >= 2}
        best == {b \in blocks : \A c \in blocks :
                    size(c) < size(b) \/ (size(c) = size(b) /\ b[1] <= c[1])}
    IN  IF blocks = {} THEN ToIPv6string(a) = Separated(a)
        ELSE \A b \in best : ToIPv6string(a) = Collapsed(a, b)
=============================================================================
