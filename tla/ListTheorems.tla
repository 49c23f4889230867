----------------------------- MODULE ListTheorems -----------------------------
(***************************************************************************)
(* What the operations of LocatorLists return, for lists of any length.    *)
(*                                                                         *)
(* push_back of a whole list and the loops that filter or join lists are   *)
(* folds.  A fold is reasoned about through the values it has after each   *)
(* element: they exist (FoldExists, FoldSteps), and what holds at first    *)
(* and is kept by each element holds at the end (IndexInduction).          *)
(***************************************************************************)
EXTENDS LocatorLists, FiniteSetTheorems, WellFoundedInduction, TLAPS

-----------------------------------------------------------------------------
(***************************************************************************)
(* Induction over numbers, on a set instead of a predicate: of the numbers *)
(* missing from the set there would be a smallest.                         *)
(***************************************************************************)
LEMMA NatSetInduction ==
    ASSUME NEW S, 0 \in S, \A n \in Nat : n \in S => n + 1 \in S
    PROVE  Nat \subseteq S
<1> DEFINE R == OpToRel(<, Nat)
<1> DEFINE T == Nat \ S
<1> SUFFICES ASSUME T # {} PROVE FALSE
  OBVIOUS
<1>1. IsWellFoundedOn(R, Nat)
  BY NatLessThanWellFounded
<1>3. \A x, y \in Nat : x < y => <<x, y>> \in R
  BY DEF OpToRel
<1> HIDE DEF R
<1>2. PICK x \in T : \A y \in T : ~ (<<y, x>> \in R)
  <2>1. T \subseteq Nat
    OBVIOUS
  <2> HIDE DEF T
  <2> QED BY <1>1, <2>1, WFMin
<1>4. x # 0 /\ x \in Nat
  OBVIOUS
<1>5. x - 1 \in Nat /\ x - 1 < x /\ (x - 1) + 1 = x
  BY <1>4
<1>6. x - 1 \in T
  BY <1>5
<1> QED
  BY <1>2, <1>3, <1>5, <1>6

(* The same up to a bound. *)
LEMMA IndexInduction ==
    ASSUME NEW S, NEW n \in Nat, 0 \in S, \A m \in 1..n : m - 1 \in S => m \in S
    PROVE  0..n \subseteq S
<1> DEFINE T == {m \in Nat : m <= n => m \in S}
<1>1. \A m : m \in T <=> m \in Nat /\ (m <= n => m \in S)
  OBVIOUS
<1> HIDE DEF T
<1>2. ASSUME NEW m \in Nat, m \in T
      PROVE  m + 1 \in T
  <2> SUFFICES ASSUME m + 1 <= n
               PROVE  m + 1 \in S
    BY <1>1
  <2>1. m + 1 \in 1..n /\ (m + 1) - 1 = m /\ m <= n
    OBVIOUS
  <2> QED
    BY <1>1, <1>2, <2>1
<1>3. Nat \subseteq T
  BY <1>1, <1>2, NatSetInduction
<1> QED
  BY <1>1, <1>3

-----------------------------------------------------------------------------
(***************************************************************************)
(* Folds.  FoldLeft goes down the sets of indices by their largest.        *)
(***************************************************************************)
LEMMA MaxOfTop ==
    ASSUME NEW n \in Nat, NEW s \in SUBSET (1..n + 1), n + 1 \in s
    PROVE  Max(s) = n + 1
<1>1. \A y \in s : n + 1 >= y
  OBVIOUS
<1>2. \A x \in s : (\A y \in s : x >= y) => x = n + 1
  OBVIOUS
<1>3. Max(s) \in s /\ \A y \in s : Max(s) >= y
  BY <1>1 DEF Max
<1> QED
  BY <1>2, <1>3

(* g folds the elements with indices in each set of them.                   *)
FoldValue(step, base, seq, g, s) ==
    IF s = {} THEN base ELSE step[<<g[s \ {Max(s)}], seq[Max(s)]>>]

Unfolds(A, step, base, seq, g, n) ==
    /\ g = [s \in SUBSET (1..n) |-> FoldValue(step, base, seq, g, s)]
    /\ \A s \in SUBSET (1..n) : g[s] \in A

LEMMA FoldNext ==
    ASSUME NEW A, NEW B, NEW step \in [A \X B -> A], NEW base \in A, NEW seq,
           NEW n \in Nat, seq[n + 1] \in B, NEW f, Unfolds(A, step, base, seq, f, n)
    PROVE  \E g : Unfolds(A, step, base, seq, g, n + 1)
<1> DEFINE g == [s \in SUBSET (1..n + 1) |->
                   IF n + 1 \in s THEN step[<<f[s \ {n + 1}], seq[n + 1]>>] ELSE f[s]]
<1>1. \A s \in SUBSET (1..n) : n + 1 \notin s /\ s \in SUBSET (1..n + 1)
  OBVIOUS
<1>2. \A s \in SUBSET (1..n) : g[s] = f[s]
  BY <1>1
<1>3. \A s \in SUBSET (1..n) : f[s] = FoldValue(step, base, seq, f, s) /\ f[s] \in A
  BY DEF Unfolds
<1>4. ASSUME NEW s \in SUBSET (1..n + 1)
      PROVE  g[s] = FoldValue(step, base, seq, g, s) /\ g[s] \in A
  <2>1. CASE n + 1 \in s
    <3>1. Max(s) = n + 1 /\ s # {}
      BY <2>1, MaxOfTop
    <3>2. s \ {n + 1} \in SUBSET (1..n)
      OBVIOUS
    <3>3. g[s] = step[<<f[s \ {n + 1}], seq[n + 1]>>]
      BY <2>1
    <3> HIDE DEF g
    <3>4. g[s] = FoldValue(step, base, seq, g, s)
      BY <1>2, <3>1, <3>2, <3>3 DEF FoldValue
    <3> QED
      BY <1>3, <3>2, <3>3, <3>4
  <2>2. CASE n + 1 \notin s
    <3>1. s \in SUBSET (1..n)
      BY <2>2
    <3>2. s \ {Max(s)} \in SUBSET (1..n)
      BY <3>1
    <3> HIDE DEF g
    <3> QED
      BY <1>2, <1>3, <3>1, <3>2 DEF FoldValue
  <2> QED
    BY <2>1, <2>2
<1>5. g = [s \in SUBSET (1..n + 1) |-> g[s]]
  OBVIOUS
<1> HIDE DEF g
<1>6. g = [s \in SUBSET (1..n + 1) |-> FoldValue(step, base, seq, g, s)]
  BY <1>4, <1>5
<1> QED
  BY <1>4, <1>6 DEF Unfolds

LEMMA FoldExists ==
    ASSUME NEW A, NEW B, NEW step \in [A \X B -> A], NEW base \in A, NEW seq \in Seq(B)
    PROVE  \E g : Unfolds(A, step, base, seq, g, Len(seq))
<1> DEFINE Goal(m) == m <= Len(seq) => \E g : Unfolds(A, step, base, seq, g, m)
           S == {m \in Nat : Goal(m)}
<1>1. \A m : m \in S <=> m \in Nat /\ Goal(m)
  OBVIOUS
<1>2. Goal(0)
  <2> DEFINE g == [s \in SUBSET (1..0) |-> base]
  <2>1. \A s \in SUBSET (1..0) : s = {}
    OBVIOUS
  <2>2. g = [s \in SUBSET (1..0) |-> FoldValue(step, base, seq, g, s)]
    BY <2>1 DEF FoldValue
  <2>3. \A s \in SUBSET (1..0) : g[s] \in A
    OBVIOUS
  <2>4. Unfolds(A, step, base, seq, g, 0)
    BY <2>2, <2>3 DEF Unfolds
  <2> HIDE DEF g
  <2> QED
    BY <2>4
<1>3. ASSUME NEW m \in Nat, Goal(m)
      PROVE  Goal(m + 1)
  <2> SUFFICES ASSUME m + 1 <= Len(seq)
               PROVE  \E g : Unfolds(A, step, base, seq, g, m + 1)
    OBVIOUS
  <2>1. m <= Len(seq) /\ seq[m + 1] \in B
    OBVIOUS
  <2>2. PICK f : Unfolds(A, step, base, seq, f, m)
    BY <1>3, <2>1
  <2> QED
    BY <2>1, <2>2, FoldNext
<1> HIDE DEF S, Goal
<1>4. \A m \in Nat : m \in S => m + 1 \in S
  BY <1>1, <1>3
<1>5. Nat \subseteq S
  BY <1>1, <1>2, <1>4, NatSetInduction
<1>6. Goal(Len(seq))
  BY <1>1, <1>5
<1> QED
  BY <1>6 DEF Goal

LEMMA MaxBelongs ==
    ASSUME NEW n \in Nat, NEW s \in SUBSET (1..n), s # {}
    PROVE  Max(s) \in s
<1> DEFINE S == {m \in Nat : \A r \in SUBSET (1..m) :
                               r # {} => \E x \in r : \A y \in r : x >= y}
<1>1. \A m : m \in S <=> m \in Nat /\ \A r \in SUBSET (1..m) :
                               r # {} => \E x \in r : \A y \in r : x >= y
  OBVIOUS
<1> HIDE DEF S
<1>2. 0 \in S
  <2>1. \A r \in SUBSET (1..0) : r = {}
    OBVIOUS
  <2> QED
    BY <1>1, <2>1
<1>3. ASSUME NEW m \in Nat, m \in S
      PROVE  m + 1 \in S
  <2> SUFFICES ASSUME NEW r \in SUBSET (1..m + 1), r # {}
               PROVE  \E x \in r : \A y \in r : x >= y
    BY <1>1
  <2>1. CASE m + 1 \in r
    BY <2>1
  <2>2. CASE m + 1 \notin r
    <3>1. r \in SUBSET (1..m)
      BY <2>2
    <3> QED
      BY <1>1, <1>3, <3>1
  <2> QED
    BY <2>1, <2>2
<1>4. Nat \subseteq S
  BY <1>2, <1>3, NatSetInduction
<1> QED
  BY <1>1, <1>4 DEF Max

LEMMA MaxOfInterval ==
    ASSUME NEW n \in Nat, NEW m \in 1..n
    PROVE  /\ Max(1..m) = m /\ 1..m # {} /\ 1..m \in SUBSET (1..n)
           /\ (1..m) \ {m} = 1..m - 1 /\ 1..m - 1 \in SUBSET (1..n)
<1>1. \A k \in Nat : Max(1..k + 1) = k + 1
  BY MaxOfTop
<1>2. Max(1..m) = m
  BY <1>1
<1> QED
  BY <1>2

(* g folds the elements with indices in each set by `step'.                 *)
FoldsBy(A, B, step, base, n, seq, g) ==
    /\ step \in [A \X B -> A] /\ base \in A
    /\ n \in Nat /\ \A i \in 1..n : seq[i] \in B
    /\ g[{}] = base
    /\ \A s \in SUBSET (1..n) :
          s # {} /\ g[s \ {Max(s)}] \in A => g[s] = step[<<g[s \ {Max(s)}], seq[Max(s)]>>]

(* `value' is what n steps make of `base', one for each element.            *)
GoesBy(A, step, base, n, seq, value) ==
    \E after \in [0..n -> A] :
       /\ after[0] = base /\ after[n] = value
       /\ \A m \in 1..n : after[m] = step[<<after[m - 1], seq[m]>>]

(* A fold goes by its steps. *)
LEMMA FoldSteps ==
    ASSUME NEW A, NEW B, NEW step, NEW base, NEW n, NEW seq, NEW g,
           FoldsBy(A, B, step, base, n, seq, g)
    PROVE  GoesBy(A, step, base, n, seq, g[1..n])
<1>0. /\ step \in [A \X B -> A] /\ base \in A
      /\ n \in Nat /\ \A i \in 1..n : seq[i] \in B
      /\ g[{}] = base
      /\ \A s \in SUBSET (1..n) :
            s # {} /\ g[s \ {Max(s)}] \in A => g[s] = step[<<g[s \ {Max(s)}], seq[Max(s)]>>]
  BY DEF FoldsBy
<1> n \in Nat
  BY <1>0
<1> DEFINE after == [m \in 0..n |-> g[1..m]]
           S == {m \in 0..n : after[m] \in A}
<1>1. /\ \A m \in 0..n : after[m] = g[1..m]
      /\ after[0] = base /\ after[n] = g[1..n]
  <2>1. 1..0 = {} /\ 0 \in 0..n /\ n \in 0..n
    OBVIOUS
  <2> QED
    BY <1>0, <2>1
<1>2. after = [m \in 0..n |-> after[m]]
  OBVIOUS
<1>3. \A m : m \in S <=> m \in 0..n /\ after[m] \in A
  OBVIOUS
<1> HIDE DEF after, S
<1>4. ASSUME NEW m \in 1..n, after[m - 1] \in A
      PROVE  after[m] = step[<<after[m - 1], seq[m]>>] /\ after[m] \in A
  <2>1. m \in 0..n /\ m - 1 \in 0..n
    OBVIOUS
  <2>2. g[1..m] = step[<<g[1..m - 1], seq[m]>>]
    <3> DEFINE s == 1..m
    <3>1. s \in SUBSET (1..n) /\ s # {} /\ s \ {Max(s)} = 1..m - 1 /\ Max(s) = m
      BY MaxOfInterval
    <3>2. g[1..m - 1] \in A
      BY <1>1, <1>4, <2>1
    <3>3. g[s] = step[<<g[s \ {Max(s)}], seq[Max(s)]>>]
      <4> HIDE DEF s
      <4> QED
        BY <1>0, <3>1, <3>2
    <3> QED
      BY <3>1, <3>3
  <2>3. after[m] = step[<<after[m - 1], seq[m]>>]
    BY <1>1, <2>1, <2>2
  <2>4. m \in 1..n /\ seq[m] \in B
    BY <1>0
  <2> QED
    BY <1>0, <1>4, <2>3, <2>4
<1>5. 0 \in S
  BY <1>0, <1>1, <1>3
<1>50. \A m \in 1..n : m - 1 \in S => m \in S
  <2> TAKE m \in 1..n
  <2>1. m \in 0..n
    OBVIOUS
  <2> QED
    BY <1>3, <1>4, <2>1
<1>6. 0..n \subseteq S
  BY <1>5, <1>50, IndexInduction
<1>7. after \in [0..n -> A]
  BY <1>2, <1>3, <1>6
<1>8. \A m \in 1..n : after[m] = step[<<after[m - 1], seq[m]>>]
  BY <1>3, <1>4, <1>6
<1> QED
  BY <1>1, <1>7, <1>8 DEF GoesBy

-----------------------------------------------------------------------------
(* push_back of a list pushes its locators one after the other.             *)
LEMMA PushedAllSteps ==
    ASSUME NEW S, NEW list \in Seq(S), NEW other \in Seq(S)
    PROVE  \E after \in [0..Len(other) -> Seq(S)] :
              /\ after[0] = list /\ after[Len(other)] = PushedAll(list, other)
              /\ \A m \in 1..Len(other) : after[m] = Pushed(after[m - 1], other[m])
<1> DEFINE step == [p \in Seq(S) \X S |-> Pushed(p[1], p[2])]
           n == Len(other)
           Recurs(g) == g = [s \in SUBSET (DOMAIN other) |->
                               IF s = {} THEN list
                               ELSE Pushed(g[s \ {Max(s)}], other[Max(s)])]
<1>1. \A a \in Seq(S), e \in S : Pushed(a, e) \in Seq(S)
  BY DEF Pushed
<1>2. step \in [Seq(S) \X S -> Seq(S)] /\ list \in Seq(S)
  BY <1>1
<1>3. \A a \in Seq(S), e \in S : step[<<a, e>>] = Pushed(a, e)
  OBVIOUS
<1>4. DOMAIN other = 1..n /\ n \in Nat /\ \A i \in 1..n : other[i] \in S
  OBVIOUS
<1> HIDE DEF step
<1>5. PICK f : Unfolds(Seq(S), step, list, other, f, n)
  BY <1>2, FoldExists
<1> HIDE DEF n
<1>6. Recurs(f)
  <2>1. ASSUME NEW s \in SUBSET (1..n)
        PROVE  f[s] = IF s = {} THEN list ELSE Pushed(f[s \ {Max(s)}], other[Max(s)])
    <3>1. CASE s = {}
      BY <1>5, <3>1 DEF Unfolds, FoldValue
    <3>2. CASE s # {}
      <4>1. other[Max(s)] \in S /\ f[s \ {Max(s)}] \in Seq(S)
        BY <1>4, <1>5, <3>2, MaxBelongs DEF Unfolds
      <4> QED
        BY <1>3, <1>5, <3>2, <4>1 DEF Unfolds, FoldValue
    <3> QED
      BY <3>1, <3>2
  <2>2. f = [s \in SUBSET (1..n) |-> f[s]]
    BY <1>5 DEF Unfolds
  <2> QED
    BY <1>4, <2>1, <2>2
<1>7. PICK g : Recurs(g) /\ PushedAll(list, other) = g[DOMAIN other]
  BY <1>6 DEF PushedAll, FoldLeft, MapThenFoldSet
<1>8. FoldsBy(Seq(S), S, step, list, n, other, g)
  <2>1. ASSUME NEW s \in SUBSET (1..n), s # {}, g[s \ {Max(s)}] \in Seq(S)
        PROVE  g[s] = step[<<g[s \ {Max(s)}], other[Max(s)]>>]
    <3>1. other[Max(s)] \in S
      BY <1>4, <2>1, MaxBelongs
    <3> QED
      BY <1>3, <1>4, <1>7, <2>1, <3>1
  <2>2. g[{}] = list
    BY <1>7
  <2> HIDE DEF Recurs
  <2> QED
    BY <1>2, <1>4, <2>1, <2>2 DEF FoldsBy
<1>9. GoesBy(Seq(S), step, list, n, other, g[1..n])
  <2> HIDE DEF Recurs
  <2> QED
    BY <1>8, FoldSteps
<1>10. PICK after \in [0..n -> Seq(S)] :
          /\ after[0] = list /\ after[n] = g[1..n]
          /\ \A m \in 1..n : after[m] = step[<<after[m - 1], other[m]>>]
  BY <1>9 DEF GoesBy
<1>11. \A m \in 1..n : after[m] = Pushed(after[m - 1], other[m])
  <2> TAKE m \in 1..n
  <2>1. m - 1 \in 0..n
    BY <1>4
  <2> QED
    BY <1>3, <1>4, <1>10, <2>1
<1> QED
  BY <1>4, <1>7, <1>10, <1>11 DEF n

Tested(kept, e, T) == IF e \in T THEN Append(kept, e) ELSE kept

(* The loop that tests each element of a list.                              *)
LEMMA KeptSteps ==
    ASSUME NEW S, NEW T, NEW seq \in Seq(S)
    PROVE  \E after \in [0..Len(seq) -> Seq(S)] :
              /\ after[0] = <<>> /\ after[Len(seq)] = Kept(seq, T)
              /\ \A m \in 1..Len(seq) : after[m] = Tested(after[m - 1], seq[m], T)
<1> DEFINE step == [p \in Seq(S) \X S |-> Tested(p[1], p[2], T)]
           n == Len(seq)
           Recurs(g) == g = [s \in SUBSET (DOMAIN seq) |->
                               IF s = {} THEN <<>>
                               ELSE Tested(g[s \ {Max(s)}], seq[Max(s)], T)]
<1>1. \A a \in Seq(S), e \in S : Tested(a, e, T) \in Seq(S)
  BY DEF Tested
<1>2. step \in [Seq(S) \X S -> Seq(S)] /\ <<>> \in Seq(S)
  BY <1>1
<1>3. \A a \in Seq(S), e \in S : step[<<a, e>>] = Tested(a, e, T)
  OBVIOUS
<1>4. DOMAIN seq = 1..n /\ n \in Nat /\ \A i \in 1..n : seq[i] \in S
  OBVIOUS
<1> HIDE DEF step
<1>5. PICK f : Unfolds(Seq(S), step, <<>>, seq, f, n)
  BY <1>2, FoldExists
<1> HIDE DEF n
<1>6. Recurs(f)
  <2>1. ASSUME NEW s \in SUBSET (1..n)
        PROVE  f[s] = IF s = {} THEN <<>> ELSE Tested(f[s \ {Max(s)}], seq[Max(s)], T)
    <3>1. CASE s = {}
      BY <1>5, <3>1 DEF Unfolds, FoldValue
    <3>2. CASE s # {}
      <4>1. seq[Max(s)] \in S /\ f[s \ {Max(s)}] \in Seq(S)
        BY <1>4, <1>5, <3>2, MaxBelongs DEF Unfolds
      <4> QED
        BY <1>3, <1>5, <3>2, <4>1 DEF Unfolds, FoldValue
    <3> QED
      BY <3>1, <3>2
  <2>2. f = [s \in SUBSET (1..n) |-> f[s]]
    BY <1>5 DEF Unfolds
  <2> QED
    BY <1>4, <2>1, <2>2
<1>7. PICK g : Recurs(g) /\ Kept(seq, T) = g[DOMAIN seq]
  BY <1>6 DEF Kept, Tested, FoldLeft, MapThenFoldSet
<1>8. FoldsBy(Seq(S), S, step, <<>>, n, seq, g)
  <2>1. ASSUME NEW s \in SUBSET (1..n), s # {}, g[s \ {Max(s)}] \in Seq(S)
        PROVE  g[s] = step[<<g[s \ {Max(s)}], seq[Max(s)]>>]
    <3>1. seq[Max(s)] \in S
      BY <1>4, <2>1, MaxBelongs
    <3> QED
      BY <1>3, <1>4, <1>7, <2>1, <3>1
  <2>2. g[{}] = <<>>
    BY <1>7
  <2> HIDE DEF Recurs
  <2> QED
    BY <1>2, <1>4, <2>1, <2>2 DEF FoldsBy
<1>9. GoesBy(Seq(S), step, <<>>, n, seq, g[1..n])
  <2> HIDE DEF Recurs
  <2> QED
    BY <1>8, FoldSteps
<1>10. PICK after \in [0..n -> Seq(S)] :
          /\ after[0] = <<>> /\ after[n] = g[1..n]
          /\ \A m \in 1..n : after[m] = step[<<after[m - 1], seq[m]>>]
  BY <1>9 DEF GoesBy
<1>11. \A m \in 1..n : after[m] = Tested(after[m - 1], seq[m], T)
  <2> TAKE m \in 1..n
  <2>1. m - 1 \in 0..n
    BY <1>4
  <2> QED
    BY <1>3, <1>4, <1>10, <2>1
<1> QED
  BY <1>4, <1>7, <1>10, <1>11 DEF n

-----------------------------------------------------------------------------
(***************************************************************************)
(* LocatorList.                                                            *)
(***************************************************************************)
(* A list that holds no locator twice has as many locators as elements.     *)
LEMMA DistinctCardinality ==
    ASSUME NEW S, NEW list \in Seq(S), NoDuplicates(list)
    PROVE  /\ IsFiniteSet(ToSet(list))
           /\ Cardinality(ToSet(list)) = Len(list)
<1>1. /\ IsFiniteSet(1..Len(list)) /\ Cardinality(1..Len(list)) = Len(list)
  <2>1. Len(list) \in Nat
    OBVIOUS
  <2>2. IsFiniteSet(1..Len(list))
        /\ Cardinality(1..Len(list)) = IF 1 > Len(list) THEN 0 ELSE Len(list) - 1 + 1
    BY <2>1, FS_Interval, SMTT(30)
  <2> QED
    BY <2>1, <2>2
<1>2. DOMAIN list = 1..Len(list)
  OBVIOUS
<1>3. list \in [1..Len(list) -> ToSet(list)]
  BY <1>2 DEF ToSet
<1>4. \A t \in ToSet(list) : \E s \in 1..Len(list) : list[s] = t
  BY <1>2 DEF ToSet
<1>5. list \in Surjection(1..Len(list), ToSet(list))
  BY <1>3, <1>4 DEF Surjection
<1>6. list \in Injection(1..Len(list), ToSet(list))
  BY <1>3 DEF Injection, NoDuplicates, IsInjective
<1> QED
  BY <1>1, <1>5, <1>6, FS_Surjection

(* operator== compares only one way, whether each locator of the other list *)
(* is in this one; of lists that hold no locator twice it still means that  *)
(* both hold the same locators.                                             *)
THEOREM EqualListsHoldTheSame ==
    ASSUME NEW S, NEW list \in Seq(S), NEW other \in Seq(S),
           NoDuplicates(list), NoDuplicates(other), SameList(list, other)
    PROVE  ToSet(list) = ToSet(other)
<1>1. ToSet(other) \subseteq ToSet(list)
  BY DEF SameList, ToSet
<1>2. Cardinality(ToSet(list)) = Cardinality(ToSet(other))
  BY DistinctCardinality DEF SameList
<1> QED
  BY <1>1, <1>2, DistinctCardinality, FS_Subset

(* assign, which keeps a list that compares equal, gives a list without     *)
(* duplicates the locators of the other, if that has none either, and       *)
(* leaves it without duplicates.                                            *)
THEOREM AssignGivesTheOthers ==
    ASSUME NEW S, NEW list \in Seq(S), NEW other \in Seq(S),
           NoDuplicates(list), NoDuplicates(other)
    PROVE  /\ ToSet(Assigned(list, other)) = ToSet(other)
           /\ NoDuplicates(Assigned(list, other))
<1>1. CASE SameList(list, other)
  BY <1>1, EqualListsHoldTheSame DEF Assigned
<1>2. CASE ~SameList(list, other)
  BY <1>2 DEF Assigned
<1> QED
  BY <1>1, <1>2

(* An empty list is one without elements.                                   *)
LEMMA EmptyHasNothing ==
    ASSUME NEW S, NEW list \in Seq(S)
    PROVE  list = <<>> <=> ToSet(list) = {}
<1>1. list = <<>> <=> Len(list) = 0
  OBVIOUS
<1>2. Len(list) = 0 <=> DOMAIN list = {}
  OBVIOUS
<1> QED
  BY <1>1, <1>2 DEF ToSet

(* A listing of a finite set has all its elements, each once.               *)
LEMMA ListingHasAll ==
    ASSUME NEW S, IsFiniteSet(S), NEW list \in SetToSeqs(S)
    PROVE  list \in Seq(S) /\ ToSet(list) = S /\ NoDuplicates(list)
<1> DEFINE D == 1..Cardinality(S)
<1>1. Cardinality(S) \in Nat
  BY FS_CardinalityType
<1>2. list \in [D -> S] /\ \A i, j \in D : i # j => list[i] # list[j]
  BY DEF SetToSeqs
<1>3. IsFiniteSet(D) /\ Cardinality(D) = Cardinality(S)
  <2>1. IsFiniteSet(D) /\ Cardinality(D) = IF 1 > Cardinality(S) THEN 0 ELSE Cardinality(S) - 1 + 1
    BY <1>1, FS_Interval
  <2> QED
    BY <1>1, <2>1
<1>4. list \in Injection(D, S)
  BY <1>2 DEF Injection, IsInjective
<1>5. list \in Surjection(D, S)
  BY <1>3, <1>4, FS_Injection
<1>6. ToSet(list) = S
  BY <1>2, <1>5 DEF Surjection, ToSet
<1>7. list \in Seq(S)
  BY <1>1, <1>2
<1> QED
  BY <1>2, <1>6, <1>7 DEF NoDuplicates, IsInjective

(* push_back adds the locator and keeps the list free of duplicates.        *)
THEOREM PushKeepsDistinct ==
    ASSUME NEW S, NEW list \in Seq(S), NEW l \in S
    PROVE  /\ Pushed(list, l) \in Seq(S)
           /\ NoDuplicates(list) => NoDuplicates(Pushed(list, l))
           /\ ToSet(Pushed(list, l)) = ToSet(list) \cup {l}
<1>1. CASE \E i \in DOMAIN list : l = list[i]
  BY <1>1 DEF Pushed, ToSet
<1>2. CASE ~ \E i \in DOMAIN list : l = list[i]
  <2>1. Pushed(list, l) = Append(list, l)
    BY <1>2 DEF Pushed
  <2>2. NoDuplicates(list) => NoDuplicates(Append(list, l))
    BY <1>2 DEF NoDuplicates, IsInjective
  <2>3. ToSet(Append(list, l)) = ToSet(list) \cup {l}
    <3>1. /\ DOMAIN Append(list, l) = DOMAIN list \cup {Len(list) + 1}
          /\ \A i \in DOMAIN list : Append(list, l)[i] = list[i]
          /\ Append(list, l)[Len(list) + 1] = l
      OBVIOUS
    <3> QED
      BY <3>1 DEF ToSet
  <2> QED
    BY <2>1, <2>2, <2>3
<1> QED
  BY <1>1, <1>2

(* push_back of a list adds its locators and no other, and keeps the list   *)
(* free of duplicates.                                                      *)
THEOREM PushedAllHolds ==
    ASSUME NEW S, NEW list \in Seq(S), NEW other \in Seq(S)
    PROVE  /\ PushedAll(list, other) \in Seq(S)
           /\ ToSet(PushedAll(list, other)) = ToSet(list) \cup ToSet(other)
           /\ NoDuplicates(list) => NoDuplicates(PushedAll(list, other))
<1> DEFINE n == Len(other)
<1>1. PICK after \in [0..n -> Seq(S)] :
         /\ after[0] = list /\ after[n] = PushedAll(list, other)
         /\ \A m \in 1..n : after[m] = Pushed(after[m - 1], other[m])
  BY PushedAllSteps, SMTT(30)
<1>2. n \in Nat /\ \A m \in 1..n : other[m] \in S
  OBVIOUS
<1> DEFINE Good(m) ==
        /\ ToSet(after[m]) = ToSet(list) \cup {other[i] : i \in 1..m}
        /\ NoDuplicates(list) => NoDuplicates(after[m])
    M == {m \in 0..n : Good(m)}
<1>3. Good(0)
  BY <1>1
<1>4. ASSUME NEW m \in 1..n, Good(m - 1)
      PROVE  Good(m)
  <2>1. /\ after[m - 1] \in Seq(S) /\ other[m] \in S
        /\ after[m] = Pushed(after[m - 1], other[m])
    <3>1. m - 1 \in 0..n
      BY <1>2
    <3> QED
      BY <1>1, <1>2, <3>1
  <2>2. /\ ToSet(after[m]) = ToSet(after[m - 1]) \cup {other[m]}
        /\ NoDuplicates(after[m - 1]) => NoDuplicates(after[m])
    <3> DEFINE a == after[m - 1]
               e == other[m]
    <3>1. a \in Seq(S) /\ e \in S /\ after[m] = Pushed(a, e)
      BY <2>1
    <3> HIDE DEF a, e, Good, M
    <3>2. ToSet(Pushed(a, e)) = ToSet(a) \cup {e}
      BY <3>1, PushKeepsDistinct
    <3>3. NoDuplicates(a) => NoDuplicates(Pushed(a, e))
      BY <3>1, PushKeepsDistinct
    <3> QED
      BY <3>1, <3>2, <3>3, Zenon DEF a, e
  <2>3. {other[i] : i \in 1..m} = {other[i] : i \in 1..m - 1} \cup {other[m]}
    <3>1. 1..m = (1..m - 1) \cup {m}
      BY <1>2
    <3> QED
      BY <3>1
  <2> QED
    BY <1>4, <2>2, <2>3
<1> HIDE DEF Good
<1>5. 0 \in M /\ \A m \in 1..n : m - 1 \in M => m \in M
  BY <1>2, <1>3, <1>4
<1>6. n \in M
  <2> HIDE DEF M
  <2>1. 0..n \subseteq M
    BY <1>2, <1>5, IndexInduction
  <2> QED
    BY <1>2, <2>1
<1>7. {other[i] : i \in 1..n} = ToSet(other)
  BY <1>2 DEF ToSet
<1> QED
  BY <1>1, <1>2, <1>6, <1>7 DEF Good

(* Pushed onto an empty list they are all there is. *)
LEMMA PushedOntoNothing ==
    ASSUME NEW S, NEW other \in Seq(S)
    PROVE  /\ PushedAll(<<>>, other) \in Seq(S)
           /\ ToSet(PushedAll(<<>>, other)) = ToSet(other)
           /\ NoDuplicates(PushedAll(<<>>, other))
<1>1. <<>> \in Seq(S)
  OBVIOUS
<1>2. NoDuplicates(<<>>) /\ ToSet(<<>>) = {}
  BY DEF NoDuplicates, IsInjective, ToSet
<1>3. PushedAll(<<>>, other) \in Seq(S)
  BY <1>1, PushedAllHolds
<1>4. ToSet(PushedAll(<<>>, other)) = ToSet(<<>>) \cup ToSet(other)
  BY <1>1, PushedAllHolds, ZenonT(30)
<1>5. NoDuplicates(PushedAll(<<>>, other))
  BY <1>1, <1>2, PushedAllHolds
<1> QED
  BY <1>2, <1>3, <1>4, <1>5

(* erase takes one element out, and leaves a list without duplicates so.    *)
LEMMA EraseKeepsDistinct ==
    ASSUME NEW S, NEW list \in Seq(S), NEW i \in DOMAIN list
    PROVE  /\ Erased(list, i) \in Seq(S) /\ Len(Erased(list, i)) <= Len(list)
           /\ NoDuplicates(list) => NoDuplicates(Erased(list, i))
<1>1. Erased(list, i) = SubSeq(list, 1, i - 1) \o SubSeq(list, i + 1, Len(list))
  BY DEF Erased, RemoveAt
<1>2. /\ Erased(list, i) \in Seq(S) /\ Len(Erased(list, i)) = Len(list) - 1
      /\ \A j \in 1..Len(list) - 1 : Erased(list, i)[j] = IF j < i THEN list[j] ELSE list[j + 1]
  BY <1>1, SMTT(30)
<1>3. DOMAIN Erased(list, i) = 1..Len(list) - 1 /\ DOMAIN list = 1..Len(list) /\ Len(list) \in Nat
  BY <1>2
<1>4. NoDuplicates(list) => NoDuplicates(Erased(list, i))
  BY <1>2, <1>3, SMTT(30) DEF NoDuplicates, IsInjective
<1> QED
  BY <1>2, <1>4

(* The loop keeps the elements of T and no other, and none twice that was   *)
(* there once.                                                              *)
THEOREM KeptHolds ==
    ASSUME NEW S, NEW T, NEW seq \in Seq(S)
    PROVE  /\ Kept(seq, T) \in Seq(S \cap T)
           /\ ToSet(Kept(seq, T)) = ToSet(seq) \cap T
<1> DEFINE n == Len(seq)
<1>1. PICK after \in [0..n -> Seq(S)] :
         /\ after[0] = <<>> /\ after[n] = Kept(seq, T)
         /\ \A m \in 1..n :
               after[m] = Tested(after[m - 1], seq[m], T)
  BY KeptSteps
<1>2. n \in Nat /\ \A m \in 1..n : seq[m] \in S
  OBVIOUS
<1> DEFINE Good(m) ==
        /\ after[m] \in Seq(S \cap T)
        /\ ToSet(after[m]) = {seq[i] : i \in 1..m} \cap T
    M == {m \in 0..n : Good(m)}
<1>3. Good(0)
  BY <1>1 DEF ToSet
<1>4. ASSUME NEW m \in 1..n, Good(m - 1)
      PROVE  Good(m)
  <2>1. {seq[i] : i \in 1..m} = {seq[i] : i \in 1..m - 1} \cup {seq[m]}
    <3>1. 1..m = (1..m - 1) \cup {m}
      BY <1>2
    <3> QED
      BY <3>1
  <2>2. CASE seq[m] \notin T
    BY <1>1, <1>4, <2>1, <2>2 DEF Tested
  <2>3. CASE seq[m] \in T
    <3>1. after[m] = Append(after[m - 1], seq[m]) /\ seq[m] \in S \cap T
      BY <1>1, <1>2, <2>3 DEF Tested
    <3>2. after[m] \in Seq(S \cap T)
      BY <1>4, <3>1
    <3>3. /\ DOMAIN after[m] = DOMAIN after[m - 1] \cup {Len(after[m - 1]) + 1}
          /\ \A i \in DOMAIN after[m - 1] : after[m][i] = after[m - 1][i]
          /\ after[m][Len(after[m - 1]) + 1] = seq[m]
      BY <1>4, <3>1
    <3>4. ToSet(after[m]) = ToSet(after[m - 1]) \cup {seq[m]}
      BY <3>3 DEF ToSet
    <3> QED
      BY <1>4, <2>1, <2>3, <3>2, <3>4
  <2> QED
    BY <2>2, <2>3
<1> HIDE DEF Good
<1>5. 0 \in M /\ \A m \in 1..n : m - 1 \in M => m \in M
  BY <1>2, <1>3, <1>4
<1>6. n \in M
  <2> HIDE DEF M
  <2>1. 0..n \subseteq M
    BY <1>2, <1>5, IndexInduction
  <2> QED
    BY <1>2, <2>1
<1>7. {seq[i] : i \in 1..n} = ToSet(seq)
  BY <1>2 DEF ToSet
<1> QED
  BY <1>1, <1>6, <1>7 DEF Good

(* The loop that pushes list after list.                                    *)
LEMMA JoinedSteps ==
    ASSUME NEW S, NEW parts \in Seq(Seq(S))
    PROVE  \E after \in [0..Len(parts) -> Seq(S)] :
              /\ after[0] = <<>> /\ after[Len(parts)] = Joined(parts)
              /\ \A m \in 1..Len(parts) : after[m] = PushedAll(after[m - 1], parts[m])
<1> DEFINE step == [p \in Seq(S) \X Seq(S) |-> PushedAll(p[1], p[2])]
           n == Len(parts)
           Recurs(g) == g = [s \in SUBSET (DOMAIN parts) |->
                               IF s = {} THEN <<>>
                               ELSE PushedAll(g[s \ {Max(s)}], parts[Max(s)])]
<1>1. \A a \in Seq(S), e \in Seq(S) : PushedAll(a, e) \in Seq(S)
  BY PushedAllHolds
<1>2. step \in [Seq(S) \X Seq(S) -> Seq(S)] /\ <<>> \in Seq(S)
  BY <1>1
<1>3. \A a \in Seq(S), e \in Seq(S) : step[<<a, e>>] = PushedAll(a, e)
  OBVIOUS
<1>4. DOMAIN parts = 1..n /\ n \in Nat /\ \A i \in 1..n : parts[i] \in Seq(S)
  OBVIOUS
<1> HIDE DEF step
<1>5. PICK f : Unfolds(Seq(S), step, <<>>, parts, f, n)
  BY <1>2, FoldExists
<1> HIDE DEF n
<1>6. Recurs(f)
  <2>1. ASSUME NEW s \in SUBSET (1..n)
        PROVE  f[s] = IF s = {} THEN <<>> ELSE PushedAll(f[s \ {Max(s)}], parts[Max(s)])
    <3>1. CASE s = {}
      BY <1>5, <3>1 DEF Unfolds, FoldValue
    <3>2. CASE s # {}
      <4>1. parts[Max(s)] \in Seq(S) /\ f[s \ {Max(s)}] \in Seq(S)
        BY <1>4, <1>5, <3>2, MaxBelongs DEF Unfolds
      <4> QED
        BY <1>3, <1>5, <3>2, <4>1 DEF Unfolds, FoldValue
    <3> QED
      BY <3>1, <3>2
  <2>2. f = [s \in SUBSET (1..n) |-> f[s]]
    BY <1>5 DEF Unfolds
  <2> QED
    BY <1>4, <2>1, <2>2
<1>7. PICK g : Recurs(g) /\ Joined(parts) = g[DOMAIN parts]
  BY <1>6 DEF Joined, FoldLeft, MapThenFoldSet
<1>8. FoldsBy(Seq(S), Seq(S), step, <<>>, n, parts, g)
  <2>1. ASSUME NEW s \in SUBSET (1..n), s # {}, g[s \ {Max(s)}] \in Seq(S)
        PROVE  g[s] = step[<<g[s \ {Max(s)}], parts[Max(s)]>>]
    <3>1. parts[Max(s)] \in Seq(S)
      BY <1>4, <2>1, MaxBelongs
    <3> QED
      BY <1>3, <1>4, <1>7, <2>1, <3>1
  <2>2. g[{}] = <<>>
    BY <1>7
  <2> HIDE DEF Recurs
  <2> QED
    BY <1>2, <1>4, <2>1, <2>2 DEF FoldsBy
<1>9. GoesBy(Seq(S), step, <<>>, n, parts, g[1..n])
  <2> HIDE DEF Recurs
  <2> QED
    BY <1>8, FoldSteps
<1>10. PICK after \in [0..n -> Seq(S)] :
          /\ after[0] = <<>> /\ after[n] = g[1..n]
          /\ \A m \in 1..n : after[m] = step[<<after[m - 1], parts[m]>>]
  BY <1>9 DEF GoesBy
<1>11. \A m \in 1..n : after[m] = PushedAll(after[m - 1], parts[m])
  <2> TAKE m \in 1..n
  <2>1. m - 1 \in 0..n
    BY <1>4
  <2> QED
    BY <1>3, <1>4, <1>10, <2>1
<1>12. Joined(parts) = after[n]
  BY <1>4, <1>7, <1>10
<1>13. n = Len(parts)
  BY DEF n
<1> HIDE DEF Recurs
<1> QED
  BY <1>10, <1>11, <1>12, <1>13

(* Lists pushed onto an empty one give all their locators, each once.       *)
THEOREM JoinedHolds ==
    ASSUME NEW S, NEW parts \in Seq(Seq(S))
    PROVE  /\ Joined(parts) \in Seq(S)
           /\ NoDuplicates(Joined(parts))
           /\ ToSet(Joined(parts)) = UNION {ToSet(parts[i]) : i \in DOMAIN parts}
<1> DEFINE n == Len(parts)
<1>1. PICK after \in [0..n -> Seq(S)] :
         /\ after[0] = <<>> /\ after[n] = Joined(parts)
         /\ \A m \in 1..n : after[m] = PushedAll(after[m - 1], parts[m])
  BY JoinedSteps
<1>2. n \in Nat /\ DOMAIN parts = 1..n /\ \A m \in 1..n : parts[m] \in Seq(S)
  OBVIOUS
<1> DEFINE Good(m) ==
        /\ NoDuplicates(after[m])
        /\ ToSet(after[m]) = UNION {ToSet(parts[i]) : i \in 1..m}
    M == {m \in 0..n : Good(m)}
<1>3. Good(0)
  BY <1>1 DEF ToSet, NoDuplicates, IsInjective
<1>4. ASSUME NEW m \in 1..n, Good(m - 1)
      PROVE  Good(m)
  <2>1. /\ after[m - 1] \in Seq(S) /\ parts[m] \in Seq(S)
        /\ after[m] = PushedAll(after[m - 1], parts[m])
    <3>1. m - 1 \in 0..n
      BY <1>2
    <3> QED
      BY <1>1, <1>2, <3>1
  <2>2. /\ ToSet(after[m]) = ToSet(after[m - 1]) \cup ToSet(parts[m])
        /\ NoDuplicates(after[m - 1]) => NoDuplicates(after[m])
    BY <2>1, PushedAllHolds
  <2>3. 1..m = (1..m - 1) \cup {m}
    BY <1>2
  <2>4. UNION {ToSet(parts[i]) : i \in 1..m}
        = (UNION {ToSet(parts[i]) : i \in 1..m - 1}) \cup ToSet(parts[m])
    BY <2>3
  <2> QED
    BY <1>4, <2>2, <2>4
<1> HIDE DEF Good
<1>5. 0 \in M /\ \A m \in 1..n : m - 1 \in M => m \in M
  BY <1>2, <1>3, <1>4
<1>6. n \in M
  <2> HIDE DEF M
  <2>1. 0..n \subseteq M
    BY <1>2, <1>5, IndexInduction
  <2> QED
    BY <1>2, <2>1
<1> QED
  BY <1>1, <1>2, <1>6 DEF Good

(* Pushing the elements of a list without duplicates one by one gives it.   *)
LEMMA PushedAllOne ==
    ASSUME NEW S, NEW list \in Seq(S), NEW l \in S
    PROVE  PushedAll(list, <<l>>) = Pushed(list, l)
<1>1. <<l>> \in Seq(S) /\ Len(<<l>>) = 1 /\ <<l>>[1] = l
  OBVIOUS
<1>2. PICK after \in [0..1 -> Seq(S)] :
         /\ after[0] = list /\ after[1] = PushedAll(list, <<l>>)
         /\ \A m \in 1..1 : after[m] = Pushed(after[m - 1], <<l>>[m])
  BY <1>1, PushedAllSteps
<1>3. after[1] = Pushed(after[0], <<l>>[1])
  <2>1. 1 \in 1..1 /\ 1 - 1 = 0
    OBVIOUS
  <2> QED
    BY <1>2, <2>1
<1> QED
  BY <1>1, <1>2, <1>3

LEMMA FunctionIsSeq ==
    ASSUME NEW S, NEW n \in Nat, NEW f \in [1..n -> S]
    PROVE  f \in Seq(S) /\ Len(f) = n
OBVIOUS

LEMMA JoinedSingletons ==
    ASSUME NEW S, NEW list \in Seq(S), NoDuplicates(list)
    PROVE  Joined([i \in DOMAIN list |-> <<list[i]>>]) = list
<1> DEFINE n == Len(list)
           parts == [i \in DOMAIN list |-> <<list[i]>>]
<1>1. n \in Nat /\ DOMAIN list = 1..n /\ \A m \in 1..n : list[m] \in S
  OBVIOUS
<1>2. parts \in Seq(Seq(S)) /\ Len(parts) = n
  <2>1. \A m \in 1..n : <<list[m]>> \in Seq(S)
    BY <1>1
  <2>2. parts \in [1..n -> Seq(S)]
    BY <1>1, <2>1
  <2> HIDE DEF parts
  <2> QED
    BY <1>1, <2>2, FunctionIsSeq
<1>3. \A m \in 1..n : parts[m] = <<list[m]>>
  OBVIOUS
<1> HIDE DEF parts
<1>4. PICK after \in [0..n -> Seq(S)] :
         /\ after[0] = <<>> /\ after[n] = Joined(parts)
         /\ \A m \in 1..n : after[m] = PushedAll(after[m - 1], parts[m])
  BY <1>2, JoinedSteps
<1> DEFINE M == {m \in 0..n : after[m] = SubSeq(list, 1, m)}
<1>5. 0 \in M
  BY <1>1, <1>4
<1>6. ASSUME NEW m \in 1..n, after[m - 1] = SubSeq(list, 1, m - 1)
      PROVE  after[m] = SubSeq(list, 1, m)
  <2> DEFINE a == SubSeq(list, 1, m - 1)
  <2>1. a \in Seq(S) /\ Len(a) = m - 1 /\ \A i \in 1..m - 1 : a[i] = list[i]
    BY <1>1
  <2>2. after[m] = PushedAll(a, <<list[m]>>)
    BY <1>3, <1>4, <1>6
  <2>3. \A i \in 1..m - 1 : list[m] # list[i]
    BY <1>1 DEF NoDuplicates, IsInjective
  <2>4. Append(a, list[m]) = SubSeq(list, 1, m)
    BY <1>1
  <2> HIDE DEF a
  <2>5. after[m] = Pushed(a, list[m])
    BY <1>1, <2>1, <2>2, PushedAllOne
  <2>6. DOMAIN a = 1..m - 1
    BY <2>1
  <2> QED
    BY <2>1, <2>3, <2>4, <2>5, <2>6 DEF Pushed
<1>7. n \in M
  <2>1. ASSUME NEW m \in 1..n, m - 1 \in M
        PROVE  m \in M
    <3>1. m \in 0..n
      BY <1>1
    <3> QED
      BY <1>6, <2>1, <3>1
  <2> HIDE DEF M
  <2>2. 0..n \subseteq M
    BY <1>1, <1>5, <2>1, IndexInduction
  <2> QED
    BY <1>1, <2>2
<1> QED
  BY <1>1, <1>4, <1>7 DEF parts

-----------------------------------------------------------------------------
(***************************************************************************)
(* Sequences put behind each other.                                        *)
(***************************************************************************)
LEMMA Concatenation ==
    ASSUME NEW S, NEW a \in Seq(S), NEW b \in Seq(S)
    PROVE  /\ a \o b \in Seq(S) /\ Len(a \o b) = Len(a) + Len(b)
           /\ \A i \in 1..Len(a) : (a \o b)[i] = a[i]
           /\ \A i \in 1..Len(b) : (a \o b)[i + Len(a)] = b[i]
OBVIOUS

Associate(a, b, c) == (a \o b) \o c = a \o (b \o c)

LEMMA Associates ==
    ASSUME NEW S, NEW a \in Seq(S), NEW b \in Seq(S), NEW c \in Seq(S)
    PROVE  Associate(a, b, c)
BY DEF Associate

LEMMA Extensional ==
    ASSUME NEW S, NEW a \in Seq(S), NEW b \in Seq(S), Len(a) = Len(b),
           \A i \in 1..Len(a) : a[i] = b[i]
    PROVE  a = b
OBVIOUS

LEMMA SplitAt ==
    ASSUME NEW S, NEW a \in Seq(S), NEW n \in 0..Len(a)
    PROVE  /\ SubSeq(a, 1, n) \in Seq(S) /\ SubSeq(a, n + 1, Len(a)) \in Seq(S)
           /\ SubSeq(a, 1, n) \o SubSeq(a, n + 1, Len(a)) = a
<1> DEFINE x == SubSeq(a, 1, n)
           y == SubSeq(a, n + 1, Len(a))
<1>1. x \in Seq(S) /\ Len(x) = n /\ \A i \in 1..n : x[i] = a[i]
  OBVIOUS
<1>2. y \in Seq(S) /\ Len(y) = Len(a) - n /\ \A i \in 1..Len(a) - n : y[i] = a[n + i]
  OBVIOUS
<1> HIDE DEF x, y
<1>3. x \o y \in Seq(S) /\ Len(x \o y) = Len(a)
  BY <1>1, <1>2
<1>4. \A i \in 1..Len(a) : (x \o y)[i] = a[i]
  <2> TAKE i \in 1..Len(a)
  <2>1. CASE i <= n
    <3>1. i \in 1..n
      BY <2>1
    <3>2. (x \o y)[i] = x[i]
      BY <1>1, <1>2, <3>1, Concatenation
    <3> QED
      BY <1>1, <3>1, <3>2
  <2>2. CASE i > n
    <3>1. (x \o y)[i] = y[i - n] /\ i - n \in 1..Len(a) - n /\ n + (i - n) = i
      BY <1>1, <1>2, <2>2
    <3> QED
      BY <1>2, <3>1
  <2>3. i <= n \/ i > n
    OBVIOUS
  <2> QED
    BY <2>1, <2>2, <2>3, Zenon
<1>5. x \o y = a
  BY <1>3, <1>4, Extensional
<1> QED
  BY <1>1, <1>2, <1>5 DEF x, y

LEMMA BeginningIsPrefix ==
    ASSUME NEW S, NEW a \in Seq(S), NEW b \in Seq(S)
    PROVE  IsPrefix(a, a \o b)
BY DEF IsPrefix

LEMMA LargerSeq ==
    ASSUME NEW S, NEW T, S \subseteq T, NEW a \in Seq(S)
    PROVE  a \in Seq(T)
OBVIOUS

(* A sequence of elements of any set is one of its own elements.            *)
LEMMA OfItsElements ==
    ASSUME NEW S, NEW a \in Seq(S)
    PROVE  a \in Seq(ToSet(a))
<1>1. Len(a) \in Nat /\ DOMAIN a = 1..Len(a) /\ a = [i \in 1..Len(a) |-> a[i]]
  OBVIOUS
<1>2. a \in [1..Len(a) -> ToSet(a)]
  BY <1>1 DEF ToSet
<1> QED
  BY <1>1, <1>2, FunctionIsSeq

(* The parts are put one behind the other.                                  *)
LEMMA ChainedSteps ==
    ASSUME NEW S, NEW parts \in Seq(Seq(S))
    PROVE  \E after \in [0..Len(parts) -> Seq(S)] :
              /\ after[0] = <<>> /\ after[Len(parts)] = Chained(parts)
              /\ \A m \in 1..Len(parts) : after[m] = after[m - 1] \o parts[m]
<1> DEFINE step == [p \in Seq(S) \X Seq(S) |-> p[1] \o p[2]]
           n == Len(parts)
           Recurs(g) == g = [s \in SUBSET (DOMAIN parts) |->
                               IF s = {} THEN <<>>
                               ELSE g[s \ {Max(s)}] \o parts[Max(s)]]
<1>1. \A a \in Seq(S), e \in Seq(S) : a \o e \in Seq(S)
  OBVIOUS
<1>2. step \in [Seq(S) \X Seq(S) -> Seq(S)] /\ <<>> \in Seq(S)
  BY <1>1
<1>3. \A a \in Seq(S), e \in Seq(S) : step[<<a, e>>] = a \o e
  OBVIOUS
<1>4. DOMAIN parts = 1..n /\ n \in Nat /\ \A i \in 1..n : parts[i] \in Seq(S)
  OBVIOUS
<1> HIDE DEF step
<1>5. PICK f : Unfolds(Seq(S), step, <<>>, parts, f, n)
  BY <1>2, FoldExists
<1> HIDE DEF n
<1>6. Recurs(f)
  <2>1. ASSUME NEW s \in SUBSET (1..n)
        PROVE  f[s] = IF s = {} THEN <<>> ELSE f[s \ {Max(s)}] \o parts[Max(s)]
    <3>1. CASE s = {}
      BY <1>5, <3>1 DEF Unfolds, FoldValue
    <3>2. CASE s # {}
      <4>1. parts[Max(s)] \in Seq(S) /\ f[s \ {Max(s)}] \in Seq(S)
        BY <1>4, <1>5, <3>2, MaxBelongs DEF Unfolds
      <4> QED
        BY <1>3, <1>5, <3>2, <4>1 DEF Unfolds, FoldValue
    <3> QED
      BY <3>1, <3>2
  <2>2. f = [s \in SUBSET (1..n) |-> f[s]]
    BY <1>5 DEF Unfolds
  <2> QED
    BY <1>4, <2>1, <2>2
<1>7. PICK g : Recurs(g) /\ Chained(parts) = g[DOMAIN parts]
  BY <1>6 DEF Chained, FoldLeft, MapThenFoldSet
<1>8. FoldsBy(Seq(S), Seq(S), step, <<>>, n, parts, g)
  <2>1. ASSUME NEW s \in SUBSET (1..n), s # {}, g[s \ {Max(s)}] \in Seq(S)
        PROVE  g[s] = step[<<g[s \ {Max(s)}], parts[Max(s)]>>]
    <3>1. parts[Max(s)] \in Seq(S)
      BY <1>4, <2>1, MaxBelongs
    <3> QED
      BY <1>3, <1>4, <1>7, <2>1, <3>1
  <2>2. g[{}] = <<>>
    BY <1>7
  <2> HIDE DEF Recurs
  <2> QED
    BY <1>2, <1>4, <2>1, <2>2 DEF FoldsBy
<1>9. GoesBy(Seq(S), step, <<>>, n, parts, g[1..n])
  <2> HIDE DEF Recurs
  <2> QED
    BY <1>8, FoldSteps
<1>10. PICK after \in [0..n -> Seq(S)] :
          /\ after[0] = <<>> /\ after[n] = g[1..n]
          /\ \A m \in 1..n : after[m] = step[<<after[m - 1], parts[m]>>]
  BY <1>9 DEF GoesBy
<1>11. \A m \in 1..n : after[m] = after[m - 1] \o parts[m]
  <2> TAKE m \in 1..n
  <2>1. m - 1 \in 0..n
    BY <1>4
  <2> QED
    BY <1>3, <1>4, <1>10, <2>1
<1>12. Chained(parts) = after[n]
  BY <1>4, <1>7, <1>10
<1>13. n = Len(parts)
  BY DEF n
<1> HIDE DEF Recurs
<1> QED
  BY <1>10, <1>11, <1>12, <1>13

(* Another part is put behind all.                                          *)
LEMMA ChainedAppend ==
    ASSUME NEW S, NEW parts \in Seq(Seq(S)), NEW part \in Seq(S)
    PROVE  /\ Chained(parts) \in Seq(S)
           /\ Chained(Append(parts, part)) = Chained(parts) \o part
<1> DEFINE n == Len(parts)
           longer == Append(parts, part)
<1>1. /\ n \in Nat /\ longer \in Seq(Seq(S)) /\ Len(longer) = n + 1
      /\ \A m \in 1..n : longer[m] = parts[m]
      /\ longer[n + 1] = part
  OBVIOUS
<1>2. PICK after \in [0..n -> Seq(S)] :
         /\ after[0] = <<>> /\ after[n] = Chained(parts)
         /\ \A m \in 1..n : after[m] = after[m - 1] \o parts[m]
  BY ChainedSteps
<1> HIDE DEF longer
<1>3. PICK later \in [0..n + 1 -> Seq(S)] :
         /\ later[0] = <<>> /\ later[n + 1] = Chained(longer)
         /\ \A m \in 1..n + 1 : later[m] = later[m - 1] \o longer[m]
  <2>1. \E later \in [0..Len(longer) -> Seq(S)] :
           /\ later[0] = <<>> /\ later[Len(longer)] = Chained(longer)
           /\ \A m \in 1..Len(longer) : later[m] = later[m - 1] \o longer[m]
    BY <1>1, ChainedSteps
  <2>2. Len(longer) = n + 1
    BY <1>1
  <2> QED
    BY <2>1, <2>2
<1> DEFINE M == {m \in 0..n : later[m] = after[m]}
<1>4. 0 \in M
  BY <1>1, <1>2, <1>3
<1>5. ASSUME NEW m \in 1..n, m - 1 \in M
      PROVE  m \in M
  <2>1. m \in 1..n + 1 /\ m \in 0..n
    BY <1>1
  <2>2. later[m - 1] = after[m - 1]
    BY <1>5
  <2> QED
    BY <1>1, <1>2, <1>3, <2>1, <2>2
<1>6. later[n] = after[n]
  <2> HIDE DEF M
  <2>1. n \in Nat /\ \A m \in 1..n : m - 1 \in M => m \in M
    BY <1>1, <1>5
  <2> HIDE DEF n
  <2>2. 0..n \subseteq M
    BY <1>4, <2>1, IndexInduction
  <2>3. n \in M
    BY <2>1, <2>2
  <2> QED
    BY <2>3 DEF M
<1>7. later[n + 1] = later[n] \o part
  <2>1. n + 1 \in 1..n + 1 /\ (n + 1) - 1 = n
    BY <1>1
  <2> QED
    BY <1>1, <1>3, <2>1
<1>8. after[n] \in Seq(S)
  <2>1. n \in 0..n
    BY <1>1
  <2> QED
    BY <1>2, <2>1
<1> QED
  BY <1>2, <1>3, <1>6, <1>7, <1>8 DEF longer

LEMMA ChainedNothing == Chained(<<>>) = <<>>
<1>1. <<>> \in Seq(Seq({})) /\ Len(<<>>) = 0
  OBVIOUS
<1>2. \E after \in [0..0 -> Seq({})] : after[0] = <<>> /\ after[0] = Chained(<<>>)
  BY <1>1, ChainedSteps
<1> QED
  BY <1>2
=============================================================================
