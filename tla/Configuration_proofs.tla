------------------------ MODULE Configuration_proofs ------------------------
(***************************************************************************)
(* The way of the priorities, for any keys and integers and lists of any   *)
(* length: what the loop over a list returns, that a formatted dictionary  *)
(* is parsed back, and that the passes have what the operator asked for.   *)
(*                                                                         *)
(* FoldLeft is a function chosen by its defining equation.  A function     *)
(* that satisfies the equation is given (Result), so the chosen one does   *)
(* too; that they agree on the whole list is shown by the least place at   *)
(* which they would not.                                                   *)
(***************************************************************************)
EXTENDS Dispatch, TLAPS, WellFoundedInduction, FiniteSetTheorems

\* Every non-empty set of naturals has a least element.
LEMMA Least ==
    ASSUME NEW S, S \subseteq Nat, S # {}
    PROVE  \E n \in S : \A m \in S : n <= m
<1> DEFINE R == OpToRel(<, Nat)
<1>1. \E n \in S : \A m \in S : ~(<< m, n >> \in R)
  <2>1. IsWellFoundedOn(R, Nat)
    BY NatLessThanWellFounded
  <2> HIDE DEF R
  <2> QED
    BY <2>1, WFMin
<1>2. \A m, n \in S : << m, n >> \in R <=> m < n
  BY DEF OpToRel
<1> HIDE DEF R
<1>3. PICK n \in S : \A m \in S : ~(m < n)
  BY <1>1, <1>2
<1> QED
  BY <1>3

\* A non-empty set of positions has a greatest one, and Max is it.
LEMMA Greatest ==
    ASSUME NEW n \in Nat, NEW s \in SUBSET (1 .. n), s # {}
    PROVE  Max(s) \in s /\ \A i \in s : i <= Max(s)
<1> DEFINE T == { n - i : i \in s }
<1>1. T \subseteq Nat /\ T # {}
  <2>1. \A i \in s : n - i \in Nat
    OBVIOUS
  <2> QED
    BY <2>1
<1>2. PICK t \in T : \A u \in T : t <= u
  <2> HIDE DEF T
  <2> QED
    BY <1>1, Least
<1>3. PICK m \in s : t = n - m
  BY <1>2
<1>4. \A i \in s : m >= i
  <2> TAKE i \in s
  <2>1. n - i \in T
    OBVIOUS
  <2>2. n - m <= n - i
    BY <1>2, <1>3, <2>1
  <2>3. i \in Int /\ m \in Int
    BY <1>3
  <2> QED
    BY <2>2, <2>3
<1> QED
  BY <1>4 DEF Max
-----------------------------------------------------------------------------
\* An entry that parse_node_priorities raises for.
BadEntry(e) == e.kind # "blank" /\ (e.kind # "pair" \/ e.value < 0)

\* The pairs for k among the places s, and the last of them.
PairsFor(k, list, s) == { i \in s : list[i].kind = "pair" /\ list[i].key = k }
IsLast(i, k, list, s) == i \in PairsFor(k, list, s) /\ \A j \in PairsFor(k, list, s) : j <= i
LastPair(k, list, s)  == CHOOSE i \in s : IsLast(i, k, list, s)
Named(list, s) == { list[i].key : i \in { j \in s : list[j].kind = "pair" } }

\* What a parsing of the entries at the places s returns.
Result(list, s) ==
    IF \E i \in s : BadEntry(list[i]) THEN Bad
    ELSE Parsed([k \in Named(list, s) |-> list[LastPair(k, list, s)].value])

LEMMA BadOrParsed ==
    /\ Bad.error = TRUE
    /\ \A d : Parsed(d).error = FALSE /\ Parsed(d).priorities = d
BY DEF Bad, Parsed

LEMMA EmptyList == << >> = [k \in {} |-> 0]
OBVIOUS

\* A named key has a last pair.
LEMMA HasLast ==
    ASSUME NEW list, NEW n \in Nat, NEW s \in SUBSET (1 .. n), NEW k \in Named(list, s)
    PROVE  /\ LastPair(k, list, s) \in s
           /\ IsLast(LastPair(k, list, s), k, list, s)
<1>1. PairsFor(k, list, s) \in SUBSET (1 .. n) /\ PairsFor(k, list, s) # {}
  BY DEF PairsFor, Named
<1>2. PICK i \in PairsFor(k, list, s) : \A j \in PairsFor(k, list, s) : j <= i
  BY <1>1, Greatest
<1>3. i \in s /\ IsLast(i, k, list, s)
  BY <1>2 DEF IsLast, PairsFor
<1> QED
  BY <1>3 DEF LastPair

\* Only one place is the last.
LEMMA OneLast ==
    ASSUME NEW list, NEW n \in Nat, NEW s \in SUBSET (1 .. n), NEW k
    PROVE  \A i, j \in s : IsLast(i, k, list, s) /\ IsLast(j, k, list, s) => i = j
<1> SUFFICES ASSUME NEW i \in s, NEW j \in s, IsLast(i, k, list, s), IsLast(j, k, list, s)
             PROVE  i = j
  OBVIOUS
<1>1. i <= j /\ j <= i
  BY DEF IsLast
<1>2. i \in 1 .. n /\ j \in 1 .. n
  OBVIOUS
<1> QED
  BY <1>1, <1>2

\* The turn of the loop for the greatest place extends the result to it.
LEMMA OneTurn ==
    ASSUME NEW list, NEW n \in Nat, NEW s \in SUBSET (1 .. n), NEW m \in s,
           \A i \in s : i <= m
    PROVE  Taken(Result(list, s \ {m}), list[m]) = Result(list, s)
<1> DEFINE r == s \ {m}
           e == list[m]
<1>1. r \in SUBSET (1 .. n)
  OBVIOUS
<1>2. CASE \E i \in r : BadEntry(list[i])
  <2>1. Result(list, r) = Bad /\ Result(list, s) = Bad
    BY <1>2 DEF Result
  <2> QED
    BY <2>1, BadOrParsed DEF Taken
<1>3. CASE ~(\E i \in r : BadEntry(list[i])) /\ BadEntry(e)
  <2>1. Result(list, s) = Bad
    BY <1>3 DEF Result
  <2>2. Result(list, r).error = FALSE
    BY <1>3, BadOrParsed DEF Result
  <2> QED
    BY <1>3, <2>1, <2>2 DEF Taken, BadEntry
<1>4. CASE ~(\E i \in r : BadEntry(list[i])) /\ ~BadEntry(e)
  <2> DEFINE d == [k \in Named(list, r) |-> list[LastPair(k, list, r)].value]
             f == [k \in Named(list, s) |-> list[LastPair(k, list, s)].value]
  <2>1. Result(list, r) = Parsed(d) /\ Result(list, s) = Parsed(f)
    BY <1>4 DEF Result
  <2>2. \A k \in Named(list, r) : ~(e.kind = "pair" /\ e.key = k) =>
                /\ PairsFor(k, list, s) = PairsFor(k, list, r)
                /\ LastPair(k, list, s) = LastPair(k, list, r)
    <3> TAKE k \in Named(list, r)
    <3> HAVE ~(e.kind = "pair" /\ e.key = k)
    <3>1. PairsFor(k, list, s) = PairsFor(k, list, r)
      BY DEF PairsFor
    <3>2. k \in Named(list, s)
      BY DEF Named
    <3>3. LastPair(k, list, s) \in s /\ IsLast(LastPair(k, list, s), k, list, s)
      BY <3>2, HasLast
    <3>4. LastPair(k, list, r) \in r /\ IsLast(LastPair(k, list, r), k, list, r)
      BY <1>1, HasLast
    <3>5. IsLast(LastPair(k, list, r), k, list, s)
      BY <3>1, <3>4 DEF IsLast
    <3>6. \A i, j \in s : IsLast(i, k, list, s) /\ IsLast(j, k, list, s) => i = j
      BY OneLast
    <3>7. LastPair(k, list, r) = LastPair(k, list, s)
      BY <3>3, <3>4, <3>5, <3>6
    <3> QED
      BY <3>1, <3>7
  <2>3. CASE e.kind = "blank"
    <3>1. Named(list, s) = Named(list, r)
      BY <2>3 DEF Named
    <3>2. d = f
      BY <2>2, <2>3, <3>1
    <3> QED
      BY <2>1, <2>3, <3>2, BadOrParsed DEF Taken
  <2>4. CASE e.kind = "pair" /\ ~(e.value < 0)
    <3>1. Named(list, s) = {e.key} \cup Named(list, r)
      BY <2>4 DEF Named
    <3>2. e.key \in Named(list, s) /\ IsLast(m, e.key, list, s)
      BY <2>4, <3>1 DEF IsLast, PairsFor
    <3>3. LastPair(e.key, list, s) = m
      <4>1. \A i, j \in s : IsLast(i, e.key, list, s) /\ IsLast(j, e.key, list, s) => i = j
        BY OneLast
      <4>2. LastPair(e.key, list, s) \in s /\ IsLast(LastPair(e.key, list, s), e.key, list, s)
        BY <3>2, HasLast
      <4> QED
        BY <3>2, <4>1, <4>2
    <3>4. SetItem(d, e.key, e.value) = f
      <4>1. DOMAIN SetItem(d, e.key, e.value) = Named(list, s)
        BY <3>1 DEF SetItem
      <4>2. ASSUME NEW k \in Named(list, s)
            PROVE  SetItem(d, e.key, e.value)[k] = f[k]
        <5>1. CASE k = e.key
          BY <3>3, <5>1 DEF SetItem
        <5>2. CASE k # e.key
          <6>1. k \in Named(list, r) /\ ~(e.kind = "pair" /\ e.key = k)
            BY <3>1, <5>2
          <6>2. LastPair(k, list, s) = LastPair(k, list, r)
            BY <2>2, <6>1
          <6> QED
            BY <3>1, <5>2, <6>1, <6>2 DEF SetItem
        <5> QED
          BY <5>1, <5>2
      <4>3. SetItem(d, e.key, e.value) = [k \in Named(list, s) |-> SetItem(d, e.key, e.value)[k]]
        BY <4>1 DEF SetItem
      <4> QED
        BY <4>2, <4>3
    <3>5. Taken(Parsed(d), e) = Parsed(SetItem(d, e.key, e.value))
      BY <2>4, BadOrParsed DEF Taken
    <3> QED
      BY <2>1, <3>4, <3>5
  <2> QED
    BY <1>4, <2>3, <2>4 DEF BadEntry
<1> QED
  BY <1>2, <1>3, <1>4

\* Before the first turn there is nothing.
LEMMA NoTurn ==
    ASSUME NEW list
    PROVE  Result(list, {}) = Parsed(<< >>)
<1>1. Named(list, {}) = {}
  BY DEF Named
<1>2. [k \in Named(list, {}) |-> list[LastPair(k, list, {})].value] = << >>
  BY <1>1, EmptyList
<1> QED
  BY <1>2 DEF Result
-----------------------------------------------------------------------------
\* FoldLeft is the application, to all places, of a function on sets of places
\* that is chosen by its defining equation.
LEMMA Unfold ==
    ASSUME NEW list
    PROVE  \E iter :
             /\ iter = CHOOSE f : f = [s \in SUBSET DOMAIN list |->
                    IF s = {} THEN Parsed(<< >>) ELSE Taken(f[s \ {Max(s)}], list[Max(s)])]
             /\ Parse(list) = iter[DOMAIN list]
BY DEF Parse, FoldLeft, MapThenFoldSet

\* The loop of parse_node_priorities returns Result of all its entries, however
\* many there are.
LEMMA ParseIs ==
    ASSUME NEW list, NEW n \in Nat, DOMAIN list = 1 .. n
    PROVE  Parse(list) = Result(list, 1 .. n)
<1> DEFINE h == [s \in SUBSET (1 .. n) |-> Result(list, s)]
<1>1. h = [s \in SUBSET (1 .. n) |->
             IF s = {} THEN Parsed(<< >>) ELSE Taken(h[s \ {Max(s)}], list[Max(s)])]
  <2>1. ASSUME NEW s \in SUBSET (1 .. n)
        PROVE  h[s] = IF s = {} THEN Parsed(<< >>) ELSE Taken(h[s \ {Max(s)}], list[Max(s)])
    <3>1. CASE s = {}
      BY <3>1, NoTurn
    <3>2. CASE s # {}
      <4>1. Max(s) \in s /\ \A i \in s : i <= Max(s)
        BY <3>2, Greatest
      <4>2. Taken(Result(list, s \ {Max(s)}), list[Max(s)]) = Result(list, s)
        BY <4>1, OneTurn
      <4>3. s \ {Max(s)} \in SUBSET (1 .. n)
        OBVIOUS
      <4> QED
        BY <3>2, <4>2, <4>3
    <3> QED
      BY <3>1, <3>2
  <2> QED
    BY <2>1
<1>2. PICK iter :
         /\ iter = CHOOSE f : f = [s \in SUBSET (1 .. n) |->
                IF s = {} THEN Parsed(<< >>) ELSE Taken(f[s \ {Max(s)}], list[Max(s)])]
         /\ Parse(list) = iter[1 .. n]
  BY Unfold
<1> HIDE DEF h
<1>3. iter = [s \in SUBSET (1 .. n) |->
                IF s = {} THEN Parsed(<< >>) ELSE Taken(iter[s \ {Max(s)}], list[Max(s)])]
  BY <1>1, <1>2
<1>4. iter[1 .. n] = h[1 .. n]
  <2> DEFINE D == { i \in 0 .. n : iter[1 .. i] # h[1 .. i] }
  <2>1. SUFFICES ASSUME D # {} PROVE FALSE
    <3>1. n \in 0 .. n
      OBVIOUS
    <3> QED
      BY <3>1
  <2>2. D \subseteq Nat
    OBVIOUS
  <2>3. PICK i \in D : \A j \in D : i <= j
    <3> HIDE DEF D
    <3> QED
      BY <2>1, <2>2, Least
  <2>4. i \in 0 .. n /\ iter[1 .. i] # h[1 .. i]
    OBVIOUS
  <2>5. CASE i = 0
    <3>1. 1 .. i = {} /\ {} \in SUBSET (1 .. n)
      BY <2>5
    <3>2. iter[{}] = Parsed(<< >>) /\ h[{}] = Parsed(<< >>)
      BY <1>1, <1>3, <3>1
    <3> QED
      BY <2>4, <3>1, <3>2
  <2>6. CASE i # 0
    <3>1. i - 1 \in 0 .. n /\ ~(i <= i - 1) /\ i - 1 \notin D
      <4>1. i - 1 \in 0 .. n /\ ~(i <= i - 1)
        BY <2>4, <2>6
      <4> QED
        BY <2>3, <4>1
    <3>2. iter[1 .. i - 1] = h[1 .. i - 1]
      BY <3>1
    <3>3. 1 .. i \in SUBSET (1 .. n) /\ 1 .. i # {}
      BY <2>4, <2>6
    <3>4. Max(1 .. i) = i
      <4>1. Max(1 .. i) \in 1 .. i /\ \A j \in 1 .. i : j <= Max(1 .. i)
        BY <3>3, Greatest
      <4>2. i \in 1 .. i
        BY <2>4, <2>6
      <4> QED
        BY <4>1, <4>2
    <3>5. (1 .. i) \ {i} = 1 .. i - 1
      BY <2>4, <2>6
    <3>6. iter[1 .. i] = Taken(iter[1 .. i - 1], list[i])
      BY <1>3, <3>3, <3>4, <3>5
    <3>7. h[1 .. i] = Taken(h[1 .. i - 1], list[i])
      BY <1>1, <3>3, <3>4, <3>5
    <3> QED
      BY <2>4, <3>2, <3>6, <3>7
  <2> QED
    BY <2>5, <2>6
<1>5. h[1 .. n] = Result(list, 1 .. n)
  BY DEF h
<1> QED
  BY <1>2, <1>4, <1>5

\* SetToSeq lists every member of a finite set once.
LEMMA KeysOnce ==
    ASSUME NEW S, IsFiniteSet(S)
    PROVE  /\ Cardinality(S) \in Nat
           /\ SetToSeq(S) \in [1 .. Cardinality(S) -> S]
           /\ \A i, j \in 1 .. Cardinality(S) : SetToSeq(S)[i] = SetToSeq(S)[j] => i = j
           /\ \A k \in S : \E i \in 1 .. Cardinality(S) : SetToSeq(S)[i] = k
<1> DEFINE n == Cardinality(S)
           q == SetToSeq(S)
<1>1. n \in Nat /\ ExistsBijection(1 .. n, S)
  BY FS_CardinalityType
<1>2. PICK f \in [1 .. n -> S] : IsInjective(f)
  BY <1>1 DEF ExistsBijection, Bijection, Injection
<1>3. q \in [1 .. n -> S] /\ IsInjective(q)
  BY <1>2 DEF SetToSeq
<1>4. q \in Injection(1 .. n, S)
  BY <1>3 DEF Injection
<1>5. IsFiniteSet(1 .. n) /\ Cardinality(1 .. n) = n
  BY <1>1, FS_Interval
<1>6. q \in Surjection(1 .. n, S)
  BY <1>4, <1>5, FS_Injection
<1> HIDE DEF n, q
<1>7. \A k \in S : \E i \in 1 .. n : q[i] = k
  BY <1>6 DEF Surjection
<1>8. \A i, j \in 1 .. n : q[i] = q[j] => i = j
  BY <1>3 DEF IsInjective
<1> QED
  BY <1>1, <1>3, <1>7, <1>8 DEF n, q

\* What format_node_priorities writes, parse_node_priorities reads back.
LEMMA ParseFormat ==
    ASSUME NEW d, d = [k \in DOMAIN d |-> d[k]], IsFiniteSet(DOMAIN d),
           \A k \in DOMAIN d : d[k] \in Nat
    PROVE  Parse(Format(d)) = Parsed(d)
<1> DEFINE n == Cardinality(DOMAIN d)
           keys == SetToSeq(DOMAIN d)
           list == Format(d)
           all == 1 .. n
<1>1. /\ n \in Nat
      /\ keys \in [1 .. n -> DOMAIN d]
      /\ \A i, j \in 1 .. n : keys[i] = keys[j] => i = j
      /\ \A k \in DOMAIN d : \E i \in 1 .. n : keys[i] = k
  BY KeysOnce
<1>2. /\ DOMAIN list = 1 .. n
      /\ \A i \in 1 .. n : list[i] = Pair(keys[i], d[keys[i]])
  BY <1>1 DEF Format
<1>3. /\ \A i \in 1 .. n : /\ list[i].kind = "pair" /\ list[i].key = keys[i]
                           /\ list[i].value = d[keys[i]] /\ keys[i] \in DOMAIN d
                           /\ d[keys[i]] \in Nat
      /\ Parse(list) = Result(list, 1 .. n)
  <2>1. Parse(list) = Result(list, 1 .. n)
    BY <1>1, <1>2, ParseIs
  <2> QED
    BY <1>1, <1>2, <2>1 DEF Pair
<1> HIDE DEF n, keys, list
<1>4. ~ \E i \in 1 .. n : BadEntry(list[i])
  BY <1>3 DEF BadEntry
<1>5. Named(list, 1 .. n) = DOMAIN d
  <2>1. { j \in 1 .. n : list[j].kind = "pair" } = 1 .. n
    BY <1>3
  <2>2. Named(list, 1 .. n) = { list[i].key : i \in 1 .. n }
    BY <2>1 DEF Named
  <2>3. \A k \in DOMAIN d : \E i \in 1 .. n : list[i].key = k
    BY <1>1, <1>3
  <2>4. \A i \in 1 .. n : list[i].key \in DOMAIN d
    BY <1>3
  <2> QED
    BY <2>2, <2>3, <2>4
<1>6. \A k \in DOMAIN d : list[LastPair(k, list, 1 .. n)].value = d[k]
  <2> TAKE k \in DOMAIN d
  <2>1. LastPair(k, list, 1 .. n) \in 1 .. n /\ IsLast(LastPair(k, list, 1 .. n), k, list, 1 .. n)
    BY <1>1, <1>5, HasLast
  <2>2. list[LastPair(k, list, 1 .. n)].key = k
    BY <2>1 DEF IsLast, PairsFor
  <2> QED
    BY <1>3, <2>1, <2>2
<1>7. [k \in Named(list, 1 .. n) |-> list[LastPair(k, list, 1 .. n)].value] = d
  BY <1>5, <1>6
<1> QED
  BY <1>3, <1>4, <1>7 DEF Result, list
-----------------------------------------------------------------------------
\* What the lists of Configuration are.
LEMMA ListsAre ==
    ASSUME NEW list \in Lists
    PROVE  /\ \E n \in Nat : DOMAIN list = 1 .. n
           /\ \A i \in DOMAIN list : list[i].kind = "pair" =>
                 list[i].key \in Keys /\ list[i].value \in Int
<1>1. PICK n \in 0 .. MaxLength : list \in [1 .. n -> Entry]
  BY DEF Lists
<1>2. n \in Nat
  BY <1>1, ConfigurationAssumption
<1>3. \A e \in Entry : e.kind = "pair" => e.key \in Keys /\ e.value \in Int
  <2> TAKE e \in Entry
  <2> HAVE e.kind = "pair"
  <2>1. e \notin [ kind : {"blank", "no separator", "no integer"} ]
    OBVIOUS
  <2>2. e \in Pairs
    BY <2>1 DEF Entry
  <2>3. PICK k \in Keys, v \in Values : e = Pair(k, v)
    BY <2>2 DEF Pairs
  <2>4. e.key = k /\ e.value = v
    BY <2>3 DEF Pair
  <2> QED
    BY <2>3, <2>4, ConfigurationAssumption
<1> QED
  BY <1>1, <1>2, <1>3

\* StartsAsAsked, for any keys and lists of any length: every `controller start`
\* serves with the last value of each key of the list in force, or refuses it.
THEOREM Starts == StartsAsAsked
<1> SUFFICES ASSUME NEW options \in Lists, NEW shell \in Lists
             PROVE  LET list  == InForce(options, shell)
                        start == ControllerStart(options, shell)
                        named == { k \in Keys : LastFor(k, list) # {} }
                    IN  IF WellFormed(list)
                        THEN /\ start.outcome = "serving"
                             /\ start.app = Parsed([ k \in named |->
                                            list[CHOOSE i \in LastFor(k, list) : TRUE].value ])
                        ELSE start.outcome = "refused"
  BY DEF StartsAsAsked
<1> DEFINE list  == InForce(options, shell)
           start == ControllerStart(options, shell)
           named == { k \in Keys : LastFor(k, list) # {} }
           asked == [ k \in named |-> list[CHOOSE i \in LastFor(k, list) : TRUE].value ]
<1>1. list \in Lists
  BY DEF InForce
<1>2. PICK n \in Nat : DOMAIN list = 1 .. n
  BY <1>1, ListsAre
<1>3. \A i \in 1 .. n : list[i].kind = "pair" => list[i].key \in Keys /\ list[i].value \in Int
  BY <1>1, <1>2, ListsAre
<1>4. ParseOptions(options, shell) = Parse(list)
  BY DEF ParseOptions, InForce
<1> HIDE DEF list
<1>5. Parse(list) = Result(list, 1 .. n)
  BY <1>2, ParseIs
<1>6. WellFormed(list) <=> ~ \E i \in 1 .. n : BadEntry(list[i])
  <2>1. \A i \in 1 .. n : BadEntry(list[i]) <=>
           ~(list[i].kind = "blank" \/ (list[i].kind = "pair" /\ list[i].value >= 0))
    BY <1>3 DEF BadEntry
  <2> QED
    BY <1>2, <2>1 DEF WellFormed
<1>7. CASE ~WellFormed(list)
  <2>1. Parse(list) = Bad
    BY <1>5, <1>6, <1>7 DEF Result
  <2>2. start = [outcome |-> "refused", app |-> Bad]
    BY <1>4, <2>1, BadOrParsed DEF ControllerStart
  <2> QED
    BY <1>7, <2>2 DEF list
<1>8. CASE WellFormed(list)
  <2> DEFINE d == [k \in Named(list, 1 .. n) |-> list[LastPair(k, list, 1 .. n)].value]
  <2>1. Parse(list) = Parsed(d)
    BY <1>5, <1>6, <1>8 DEF Result
  <2>2. \A k \in Named(list, 1 .. n) :
           /\ LastPair(k, list, 1 .. n) \in 1 .. n
           /\ LastFor(k, list) = {LastPair(k, list, 1 .. n)}
           /\ k \in Keys
           /\ d[k] \in Nat
    <3> TAKE k \in Named(list, 1 .. n)
    <3>1. LastPair(k, list, 1 .. n) \in 1 .. n /\ IsLast(LastPair(k, list, 1 .. n), k, list, 1 .. n)
      BY HasLast
    <3>2. \A i, j \in 1 .. n : IsLast(i, k, list, 1 .. n) /\ IsLast(j, k, list, 1 .. n) => i = j
      BY OneLast
    <3>3. LastFor(k, list) = { i \in 1 .. n : IsLast(i, k, list, 1 .. n) }
      BY <1>2 DEF LastFor, IsLast, PairsFor
    <3>4. LastFor(k, list) = {LastPair(k, list, 1 .. n)}
      BY <3>1, <3>2, <3>3
    <3>5. list[LastPair(k, list, 1 .. n)].kind = "pair" /\ list[LastPair(k, list, 1 .. n)].key = k
      BY <3>1 DEF IsLast, PairsFor
    <3>6. list[LastPair(k, list, 1 .. n)].value >= 0
      BY <1>2, <1>8, <3>1, <3>5 DEF WellFormed
    <3>7. d[k] \in Nat /\ k \in Keys
      BY <1>3, <3>1, <3>5, <3>6
    <3> QED
      BY <3>1, <3>4, <3>7
  <2>3. named = Named(list, 1 .. n)
    <3>1. \A k \in named : k \in Named(list, 1 .. n)
      <4> TAKE k \in named
      <4>1. PICK i \in 1 .. n : list[i].kind = "pair" /\ list[i].key = k
        BY <1>2 DEF LastFor
      <4> QED
        BY <4>1 DEF Named
    <3>2. \A k \in Named(list, 1 .. n) : k \in named
      BY <2>2
    <3> QED
      BY <3>1, <3>2
  <2>4. asked = d
    <3>1. \A k \in Named(list, 1 .. n) : (CHOOSE i \in LastFor(k, list) : TRUE) = LastPair(k, list, 1 .. n)
      BY <2>2
    <3>2. \A k \in Named(list, 1 .. n) :
             list[CHOOSE i \in LastFor(k, list) : TRUE].value = list[LastPair(k, list, 1 .. n)].value
      BY <3>1
    <3> HIDE DEF named
    <3> QED
      BY <2>3, <3>2
  <2>5. IsFiniteSet(DOMAIN d)
    <3>1. Named(list, 1 .. n) \subseteq Keys
      BY <2>2
    <3>2. IsFiniteSet(Named(list, 1 .. n))
      BY <3>1, ConfigurationAssumption, FS_Subset
    <3> QED
      BY <3>2
  <2>6. d = [k \in DOMAIN d |-> d[k]] /\ \A k \in DOMAIN d : d[k] \in Nat
    BY <2>2
  <2> HIDE DEF d
  <2>7. Parse(Format(d)) = Parsed(d)
    BY <2>5, <2>6, ParseFormat
  <2>8. d = << >> => Parse(<< >>) = Parsed(d)
    <3>1. DOMAIN << >> = 1 .. 0
      OBVIOUS
    <3>2. Parse(<< >>) = Result(<< >>, 1 .. 0)
      BY <3>1, ParseIs
    <3>3. 1 .. 0 = {}
      OBVIOUS
    <3>4. Result(<< >>, {}) = Parsed(<< >>)
      BY NoTurn
    <3> QED
      BY <3>2, <3>3, <3>4
  <2>9. Parse(RunController(d, shell)) = Parsed(d)
    BY <2>7, <2>8 DEF RunController
  <2>10. start = [outcome |-> "serving", app |-> Parsed(d)]
    BY <1>4, <2>1, <2>9, BadOrParsed DEF ControllerStart
  <2> HIDE DEF start, named
  <2>11. start.outcome = "serving" /\ start.app = Parsed(asked)
    BY <2>4, <2>10
  <2> QED
    BY <1>8, <2>11 DEF list, start, named
<1> QED
  BY <1>7, <1>8
-----------------------------------------------------------------------------
\* There is at most one last pair.
LEMMA LastForIsOne ==
    ASSUME NEW list \in Lists, NEW k, NEW i \in LastFor(k, list)
    PROVE  LastFor(k, list) = {i} /\ list[i].key \in Keys /\ list[i].key = k
<1>1. PICK n \in Nat : DOMAIN list = 1 .. n
  BY ListsAre
<1>2. i \in 1 .. n /\ list[i].kind = "pair" /\ list[i].key = k
  BY <1>1 DEF LastFor
<1>3. \A j \in LastFor(k, list) : j \in 1 .. n /\ j <= i /\ i <= j
  BY <1>1 DEF LastFor
<1>4. \A j \in LastFor(k, list) : j = i
  BY <1>2, <1>3
<1>5. list[i].key \in Keys
  BY <1>1, <1>2, ListsAre
<1> QED
  BY <1>2, <1>4, <1>5

\* The bonus of every node is the value asked for its id, else for its host.
LEMMA BonusIsAsked ==
    ASSUME NEW n \in NodeIds
    PROVE  {Priority[n]} = AskedFor(n)
<1> DEFINE list  == InForce(Options, Shell)
           start == ControllerStart(Options, Shell)
           named == { k \in Keys : LastFor(k, list) # {} }
           asked == [ k \in named |-> list[CHOOSE i \in LastFor(k, list) : TRUE].value ]
<1>1. /\ Options \in Lists /\ Shell \in Lists
      /\ start.outcome = "serving"
      /\ Priority[n] = PriorityOf(start.app.priorities, Key[n], Host[n])
  BY DispatchAssumption
<1>2. list \in Lists
  BY <1>1 DEF InForce
<1>3. IF WellFormed(list) THEN start.outcome = "serving" /\ start.app = Parsed(asked)
                          ELSE start.outcome = "refused"
  BY <1>1, Starts DEF StartsAsAsked
<1>4. start.app = Parsed(asked)
  BY <1>1, <1>3
<1> HIDE DEF list, start
<1>5. Priority[n] = PriorityOf(asked, Key[n], Host[n])
  BY <1>1, <1>4, BadOrParsed
<1>6. \A k : IF k \in named THEN Asked(k) = {asked[k]} ELSE Asked(k) = {}
  <2> TAKE k
  <2>1. CASE LastFor(k, list) = {}
    <3>1. Asked(k) = {} /\ k \notin named
      BY <2>1 DEF Asked, list
    <3> QED
      BY <3>1
  <2>2. CASE LastFor(k, list) # {}
    <3>1. PICK i \in LastFor(k, list) : TRUE
      BY <2>2
    <3>2. LastFor(k, list) = {i} /\ k \in Keys
      BY <1>2, <3>1, LastForIsOne
    <3>3. k \in named
      BY <2>2, <3>2
    <3>4. asked[k] = list[i].value
      BY <3>2, <3>3
    <3>5. Asked(k) = {list[i].value}
      BY <3>2 DEF Asked, list
    <3> QED
      BY <3>3, <3>4, <3>5
  <2> QED
    BY <2>1, <2>2
<1>7. DOMAIN asked = named
  OBVIOUS
<1> HIDE DEF named, asked
<1> QED
  BY <1>5, <1>6, <1>7 DEF PriorityOf, AskedFor

\* The passes of any Controller that was started run with the priorities that
\* its operator asked for.
THEOREM PrioritiesAlwaysArrive == Spec => []PrioritiesArrive
<1>1. PrioritiesArrive
  BY Starts, BonusIsAsked DEF PrioritiesArrive
<1> QED
  BY <1>1, PTL
=============================================================================
