---------------------------- MODULE AlgorithmsProofs ----------------------------
(***************************************************************************)
(* Proofs about the algorithms for every input: every length of key that   *)
(* fits its buffer, every payload length that four bytes hold and every    *)
(* masking key, every integer that is given on the command line, typed     *)
(* into the page or drawn by rand(), and logs of every length.             *)
(***************************************************************************)
EXTENDS Algorithms, SequenceTheorems, FiniteSetTheorems, WellFoundedInduction, TLAPS

(* Induction *)

(* A set of numbers that has 0 and with each number the next one has all.   *)
LEMMA SetInduction ==
    ASSUME NEW T, 0 \in T, \A n \in Nat : n \in T => n + 1 \in T
    PROVE  \A n \in Nat : n \in T
<1> DEFINE Bad == {n \in Nat : n \notin T}
<1>1. SUFFICES ASSUME Bad # {}
               PROVE  FALSE
  OBVIOUS
<1>2. Bad \subseteq Nat /\ \A m \in Bad : m \notin T
  OBVIOUS
<1>3. PICK n \in Bad : \A m \in Bad : ~(<<m, n>> \in OpToRel(<, Nat))
  BY <1>1, <1>2, NatLessThanWellFounded, WFMin
<1>4. ASSUME NEW e \in Nat, NEW m \in Nat, e < m
      PROVE  <<e, m>> \in OpToRel(<, Nat)
  BY <1>4 DEF OpToRel
<1>5. \A m \in Bad : ~(m < n)
  BY <1>2, <1>3, <1>4
<1>6. n # 0 /\ n \in Nat /\ n \notin T
  BY <1>2
<1>7. n - 1 \in Nat /\ n - 1 < n /\ (n - 1) + 1 = n
  BY <1>6
<1>8. n - 1 \notin T
  BY <1>6, <1>7
<1>9. QED
  BY <1>5, <1>7, <1>8

-----------------------------------------------------------------------------
(* The loop of json_find_int *)

(* One turn of the loop of json_find_int. *)
Read(v, d) == IF v > Beyond THEN v ELSE v * 10 + d

IsReading(v, digits) ==
    v = [i \in 0..Len(digits) |-> IF i = 0 THEN 0
                                  ELSE IF v[i - 1] > Beyond THEN v[i - 1]
                                  ELSE v[i - 1] * 10 + digits[i]]
Reading(digits) ==
    LET v[i \in 0..Len(digits)] ==
          IF i = 0 THEN 0
          ELSE IF v[i - 1] > Beyond THEN v[i - 1] ELSE v[i - 1] * 10 + digits[i]
    IN v

(* The loop of json_find_int ends, whatever the digits. *)
LEMMA ReadingExists ==
    ASSUME NEW digits \in Seq(Int)
    PROVE  \E v : IsReading(v, digits)
<1>1. PICK L \in Nat : L = Len(digits)
  BY LenProperties
<1> DEFINE Good == {m \in Nat : m <= L => \E g \in [0..m -> Int] :
                      g[0] = 0 /\ \A i \in 1..m : g[i] = Read(g[i - 1], digits[i])}
<1>2. 0 \in Good
  <2>1. [i \in 0..0 |-> 0] \in [0..0 -> Int] /\ [i \in 0..0 |-> 0][0] = 0
    OBVIOUS
  <2>2. \A g : \A i \in 1..0 : g[i] = Read(g[i - 1], digits[i])
    OBVIOUS
  <2>3. QED
    BY <2>1, <2>2
<1>3. ASSUME NEW m \in Nat, m \in Good
      PROVE  m + 1 \in Good
  <2>1. SUFFICES ASSUME m + 1 <= L
                 PROVE  \E g \in [0..(m + 1) -> Int] :
                          g[0] = 0 /\ \A i \in 1..(m + 1) : g[i] = Read(g[i - 1], digits[i])
    OBVIOUS
  <2>2. m <= L
    BY <2>1
  <2>3. PICK g \in [0..m -> Int] :
          g[0] = 0 /\ \A i \in 1..m : g[i] = Read(g[i - 1], digits[i])
    BY <1>3, <2>2
  <2>4. PICK next \in Int : next = Read(g[m], digits[m + 1])
    <3>1. g[m] \in Int /\ digits[m + 1] \in Int
      BY <1>1, <2>1, ElementOfSeq
    <3>2. Read(g[m], digits[m + 1]) \in Int
      BY <3>1 DEF Read
    <3>3. QED
      BY <3>2
  <2>5. PICK h : h = [i \in 0..(m + 1) |-> IF i = m + 1 THEN next ELSE g[i]]
    OBVIOUS
  <2>6. h \in [0..(m + 1) -> Int] /\ h[0] = 0
    BY <2>3, <2>4, <2>5
  <2>7. ASSUME NEW i \in 1..(m + 1)
        PROVE  h[i] = Read(h[i - 1], digits[i])
    <3>1. h[i - 1] = g[i - 1]
      BY <2>5
    <3>2. CASE i = m + 1
      <4>1. h[i] = next /\ i - 1 = m
        BY <2>5, <3>2
      <4>2. QED
        BY <2>4, <3>1, <3>2, <4>1, Zenon
    <3>3. CASE i # m + 1
      <4>1. h[i] = g[i] /\ i \in 1..m
        BY <2>5, <3>3
      <4>2. QED
        BY <2>3, <3>1, <4>1, Zenon
    <3>4. QED
      BY <3>2, <3>3
  <2>8. QED
    BY <2>6, <2>7
<1>4. \A m \in Nat : m \in Good
  <2> HIDE DEF Good
  <2>1. QED
    BY <1>2, <1>3, SetInduction
<1>5. PICK g \in [0..L -> Int] :
        g[0] = 0 /\ \A i \in 1..L : g[i] = Read(g[i - 1], digits[i])
  <2>1. L \in Good
    <3> HIDE DEF Good
    <3>1. QED
      BY <1>4
  <2>2. L <= L
    OBVIOUS
  <2>3. L \in Good => (L <= L => \E g \in [0..L -> Int] :
                      g[0] = 0 /\ \A i \in 1..L : g[i] = Read(g[i - 1], digits[i]))
    OBVIOUS
  <2>4. QED
    BY <2>1, <2>2, <2>3, Zenon
<1>6. g = [i \in 0..L |-> IF i = 0 THEN 0
                          ELSE IF g[i - 1] > Beyond THEN g[i - 1]
                          ELSE g[i - 1] * 10 + digits[i]]
  <2>1. ASSUME NEW i \in 0..L
        PROVE  g[i] = IF i = 0 THEN 0 ELSE IF g[i - 1] > Beyond THEN g[i - 1]
                                      ELSE g[i - 1] * 10 + digits[i]
    <3>1. CASE i = 0
      BY <1>5, <3>1
    <3>2. CASE i # 0
      <4>1. i \in 1..L
        BY <3>2
      <4>2. QED
        BY <1>5, <3>2, <4>1, Zenon DEF Read
    <3>3. QED
      BY <3>1, <3>2
  <2>2. QED
    BY <2>1
<1>7. QED
  BY <1>1, <1>6, Zenon DEF IsReading

(* What json_find_int has read after each digit.                            *)
LEMMA ReadingSteps ==
    ASSUME NEW digits \in Seq(Int)
    PROVE  /\ Reading(digits)[0] = 0
           /\ \A i \in 1..Len(digits) :
                Reading(digits)[i] = Read(Reading(digits)[i - 1], digits[i])
<1>1. PICK L \in Nat : L = Len(digits)
  BY LenProperties
<1>2. PICK v : v = Reading(digits)
  OBVIOUS
<1>3. IsReading(v, digits)
  BY <1>2, ReadingExists, Zenon DEF IsReading, Reading
<1>4. v = [i \in 0..L |-> IF i = 0 THEN 0
                          ELSE IF v[i - 1] > Beyond THEN v[i - 1]
                          ELSE v[i - 1] * 10 + digits[i]]
  BY <1>1, <1>3, Zenon DEF IsReading
<1>5. v[0] = 0
  <2>1. 0 \in 0..L
    OBVIOUS
  <2>2. QED
    BY <1>4, <2>1, Zenon
<1>6. ASSUME NEW i \in 1..L
      PROVE  v[i] = Read(v[i - 1], digits[i])
  <2>1. i \in 0..L /\ i # 0
    OBVIOUS
  <2>2. QED
    BY <1>4, <2>1, Zenon DEF Read
<1>7. QED
  BY <1>1, <1>2, <1>5, <1>6, Zenon

(* What json_find_int has read in the end. *)
Value(digits) == Reading(digits)[Len(digits)]

(* Every number that it reads on the way is an integer.                     *)
LEMMA ValueInt ==
    ASSUME NEW digits \in Seq(Int)
    PROVE  \A i \in 0..Len(digits) : Reading(digits)[i] \in Int
<1>0. PICK v : v = Reading(digits)
  OBVIOUS
<1>1. PICK L \in Nat : L = Len(digits)
  BY LenProperties
<1>2. v[0] = 0 /\ \A i \in 1..L : v[i] = Read(v[i - 1], digits[i])
  BY <1>0, <1>1, ReadingSteps
<1> DEFINE Good == {m \in Nat : m <= L => v[m] \in Int}
<1>3. 0 \in Good
  BY <1>2
<1>4. ASSUME NEW m \in Nat, m \in Good
      PROVE  m + 1 \in Good
  <2>1. SUFFICES ASSUME m + 1 <= L
                 PROVE  v[m + 1] \in Int
    OBVIOUS
  <2>2. v[m] \in Int
    BY <1>4, <2>1
  <2>3. PICK k \in 1..L : k = m + 1
    BY <2>1
  <2>4. k - 1 = m /\ digits[k] \in Int
    BY <1>1, <2>3, ElementOfSeq
  <2>5. v[k] = Read(v[m], digits[k])
    BY <1>2, <2>4, Zenon
  <2>6. Read(v[m], digits[k]) \in Int
    BY <2>2, <2>4 DEF Read
  <2>7. QED
    BY <2>3, <2>5, <2>6
<1>5. \A m \in Nat : m \in Good
  <2> HIDE DEF Good
  <2>1. QED
    BY <1>3, <1>4, SetInduction
<1>6. \A i \in 0..L : v[i] \in Int
  BY <1>5
<1>7. QED
  BY <1>0, <1>1, <1>6, Zenon

(* One digit is its own value.                                              *)
LEMMA ValueOfOne ==
    ASSUME NEW d \in Nat
    PROVE  Value(<<d>>) = d
<1>1. PICK s : s = <<d>>
  OBVIOUS
<1>2. s \in Seq(Int) /\ Len(s) = 1 /\ s[1] = d
  BY <1>1
<1>3. Reading(s)[0] = 0 /\ Reading(s)[1] = Read(Reading(s)[1 - 1], s[1])
  BY <1>2, ReadingSteps
<1>4. 1 - 1 = 0 /\ Read(0, d) = d
  BY DEF Read, Beyond
<1>5. QED
  BY <1>1, <1>2, <1>3, <1>4, Zenon DEF Value

(* One digit more is one turn of the loop more. *)
LEMMA ValueOfMore ==
    ASSUME NEW digits \in Seq(Int), NEW d \in Int
    PROVE  Value(Append(digits, d)) = Read(Value(digits), d)
<1>0. PICK v : v = Reading(digits)
  OBVIOUS
<1>1. PICK L \in Nat : L = Len(digits)
  BY LenProperties
<1>2. PICK more : more = Append(digits, d)
  OBVIOUS
<1>3. /\ more \in Seq(Int) /\ Len(more) = L + 1 /\ more[L + 1] = d
      /\ \A i \in 1..L : more[i] = digits[i]
  BY <1>1, <1>2, AppendProperties
<1>4. PICK w : w = Reading(more)
  OBVIOUS
<1>5. v[0] = 0 /\ \A i \in 1..L : v[i] = Read(v[i - 1], digits[i])
  BY <1>0, <1>1, ReadingSteps
<1>6. w[0] = 0 /\ \A i \in 1..(L + 1) : w[i] = Read(w[i - 1], more[i])
  BY <1>3, <1>4, ReadingSteps
<1> DEFINE Good == {m \in Nat : m <= L => w[m] = v[m]}
<1>7. 0 \in Good
  BY <1>5, <1>6
<1>8. ASSUME NEW m \in Nat, m \in Good
      PROVE  m + 1 \in Good
  <2>1. SUFFICES ASSUME m + 1 <= L
                 PROVE  w[m + 1] = v[m + 1]
    OBVIOUS
  <2>2. w[m] = v[m]
    BY <1>8, <2>1
  <2>3. PICK k \in 1..L : k = m + 1
    BY <2>1
  <2>4. k - 1 = m /\ k \in 1..(L + 1)
    BY <2>3
  <2>5. w[k] = Read(w[m], more[k]) /\ v[k] = Read(v[m], digits[k])
    BY <1>5, <1>6, <2>4, Zenon
  <2>6. QED
    BY <1>3, <2>2, <2>3, <2>5, Zenon
<1>9. \A m \in Nat : m \in Good
  <2> HIDE DEF Good
  <2>1. QED
    BY <1>7, <1>8, SetInduction
<1>10. w[L] = v[L]
  BY <1>9
<1>11. (L + 1) - 1 = L /\ L + 1 \in 1..(L + 1)
  OBVIOUS
<1>12. w[L + 1] = Read(w[L], d)
  BY <1>3, <1>6, <1>11, Zenon
<1>13. QED
  BY <1>0, <1>1, <1>2, <1>3, <1>4, <1>10, <1>12, Zenon DEF Value

(* The number that json_find_int makes of the text.                         *)
LEMMA FindIntValue ==
    ASSUME NEW digits \in Seq(Int), NEW negative
    PROVE  /\ FindInt(negative, digits) \in Int
           /\ ~negative /\ digits # <<>> /\ Value(digits) \in Int
                => FindInt(negative, digits) = Value(digits)
<1>0. CASE digits = <<>>
  <2>1. FindInt(negative, digits) = DefaultLast
    BY <1>0, Zenon DEF FindInt
  <2>2. DefaultLast \in Int
    BY DEF DefaultLast
  <2>3. QED
    BY <1>0, <2>1, <2>2, Zenon
<1>1. ASSUME digits # <<>>
      PROVE  FindInt(negative, digits) = (IF negative THEN -1 ELSE 1) * Value(digits)
  BY <1>1, Zenon DEF FindInt, Reading, Value
<1>2. PICK value \in Int : value = Value(digits)
  <2>1. Len(digits) \in 0..Len(digits)
    BY LenProperties
  <2>2. QED
    BY <2>1, ValueInt, Zenon DEF Value
<1>3. CASE negative /\ digits # <<>>
  <2>1. FindInt(negative, digits) = (-1) * value
    BY <1>1, <1>2, <1>3, Zenon
  <2>2. FindInt(negative, digits) \in Int
    BY <2>1
  <2>3. QED
    BY <1>3, <2>2, Zenon
<1>4. CASE ~negative /\ digits # <<>>
  <2>1. FindInt(negative, digits) = 1 * value
    BY <1>1, <1>2, <1>4, Zenon
  <2>2. FindInt(negative, digits) = value
    BY <2>1
  <2>3. QED
    BY <1>2, <2>2, Zenon
<1>5. QED
  BY <1>0, <1>3, <1>4, Zenon

-----------------------------------------------------------------------------
(* The digits of a number *)

(* The digits of n, from those of smaller numbers. *)
DigitsFrom(f, n) == IF n < 10 THEN <<n>> ELSE Append(f[n \div 10], n % 10)
DigitsUpTo(m, g) == /\ g \in [0..m -> Seq(Int)]
                    /\ \A i \in 0..m : g[i] = DigitsFrom(g, i)

(* The digits of n are those of the smaller number and a digit more.        *)
LEMMA SmallerNumber ==
    ASSUME NEW n \in Nat, ~(n < 10)
    PROVE  /\ n \div 10 \in Nat /\ n \div 10 < n /\ n % 10 \in 0..9
           /\ (n \div 10) * 10 + (n % 10) = n
  BY SMT

(* Digits of smaller numbers make digits.                                   *)
LEMMA DigitsMade ==
    ASSUME NEW n \in Nat, NEW f, \A i \in Nat : i < n => f[i] \in Seq(Int)
    PROVE  DigitsFrom(f, n) \in Seq(Int)
<1>1. CASE n < 10
  <2>1. <<n>> \in Seq(Int)
    OBVIOUS
  <2>2. QED
    BY <1>1, <2>1, Zenon DEF DigitsFrom
<1>2. CASE ~(n < 10)
  <2>1. PICK r \in Int : r = n % 10
    BY <1>2, SmallerNumber
  <2>2. PICK q \in Nat : q = n \div 10 /\ q < n
    BY <1>2, SmallerNumber
  <2>3. PICK s \in Seq(Int) : s = f[q]
    BY <2>2
  <2>4. Append(s, r) \in Seq(Int)
    BY AppendProperties
  <2>5. QED
    BY <1>2, <2>1, <2>2, <2>3, <2>4, Zenon DEF DigitsFrom
<1>3. QED
  BY <1>1, <1>2

(* Functions that agree below n make the same digits of n.                  *)
LEMMA DigitsSame ==
    ASSUME NEW n \in Nat, NEW f, NEW g, \A i \in Nat : i < n => f[i] = g[i]
    PROVE  DigitsFrom(f, n) = DigitsFrom(g, n)
<1>1. CASE n < 10
  BY <1>1, Zenon DEF DigitsFrom
<1>2. CASE ~(n < 10)
  <2>1. PICK q \in Nat : q = n \div 10 /\ q < n
    BY <1>2, SmallerNumber
  <2>2. f[q] = g[q]
    BY <2>1
  <2>3. QED
    BY <1>2, <2>1, <2>2, Zenon DEF DigitsFrom
<1>3. QED
  BY <1>1, <1>2

(* The digits of all numbers up to a number.                                *)
LEMMA DigitsUpToExist ==
    \A m \in Nat : \E g : DigitsUpTo(m, g)
<1> DEFINE Good == {m \in Nat : \E g : DigitsUpTo(m, g)}
<1>1. 0 \in Good
  <2>1. PICK g : g = [i \in 0..0 |-> <<i>>]
    OBVIOUS
  <2>2. ASSUME NEW i \in 0..0
        PROVE  g[i] = DigitsFrom(g, i)
    <3>1. i < 10 /\ g[i] = <<i>>
      BY <2>1
    <3>2. QED
      BY <3>1, Zenon DEF DigitsFrom
  <2>3. \A i \in 0..0 : <<i>> \in Seq(Int)
    OBVIOUS
  <2>4. DigitsUpTo(0, g)
    BY <2>1, <2>2, <2>3, Zenon DEF DigitsUpTo
  <2>5. QED
    BY <2>4
<1>2. ASSUME NEW m \in Nat, m \in Good
      PROVE  m + 1 \in Good
  <2>1. PICK g : DigitsUpTo(m, g)
    BY <1>2
  <2>2. PICK next \in Seq(Int) : next = DigitsFrom(g, m + 1)
    <3>1. \A i \in Nat : i < m + 1 => g[i] \in Seq(Int)
      BY <2>1 DEF DigitsUpTo
    <3>2. m + 1 \in Nat
      OBVIOUS
    <3>3. DigitsFrom(g, m + 1) \in Seq(Int)
      BY <3>1, <3>2, DigitsMade
    <3>4. QED
      BY <3>3
  <2>3. PICK h : h = [i \in 0..(m + 1) |-> IF i = m + 1 THEN next ELSE g[i]]
    OBVIOUS
  <2>4. h \in [0..(m + 1) -> Seq(Int)]
    BY <2>1, <2>3 DEF DigitsUpTo
  <2>5. \A i \in 0..m : h[i] = g[i]
    BY <2>3
  <2>6. ASSUME NEW i \in 0..(m + 1)
        PROVE  h[i] = DigitsFrom(h, i)
    <3>1. \A k \in Nat : k < i => g[k] = h[k]
      BY <2>5
    <3>2. i \in Nat
      OBVIOUS
    <3>3. DigitsFrom(g, i) = DigitsFrom(h, i)
      BY <3>1, <3>2, DigitsSame
    <3>4. CASE i = m + 1
      <4>1. h[i] = next
        BY <2>3, <3>4
      <4>2. QED
        BY <2>2, <3>3, <3>4, <4>1, Zenon
    <3>5. CASE i # m + 1
      <4>1. i \in 0..m
        BY <3>5
      <4>2. QED
        BY <2>1, <2>5, <3>3, <4>1, Zenon DEF DigitsUpTo
    <3>6. QED
      BY <3>4, <3>5
  <2>7. DigitsUpTo(m + 1, h)
    BY <2>4, <2>6, Zenon DEF DigitsUpTo
  <2>8. QED
    BY <2>7
<1>3. \A m \in Nat : m \in Good
  <2> HIDE DEF Good
  <2>1. QED
    BY <1>1, <1>2, SetInduction
<1>4. QED
  BY <1>3

(* They are the same, whichever number they go up to.                       *)
LEMMA DigitsUpToAgree ==
    ASSUME NEW m \in Nat, NEW g, DigitsUpTo(m, g),
           NEW k \in Nat, NEW h, DigitsUpTo(k, h)
    PROVE  \A i \in Nat : i <= m /\ i <= k => g[i] = h[i]
<1> DEFINE Good == {n \in Nat : \A i \in Nat : i <= n /\ i <= m /\ i <= k => g[i] = h[i]}
<1>1. ASSUME NEW n \in Nat, n <= m, n <= k, \A i \in Nat : i < n => g[i] = h[i]
      PROVE  g[n] = h[n]
  <2>1. DigitsFrom(g, n) = DigitsFrom(h, n)
    BY <1>1, DigitsSame
  <2>2. n \in 0..m /\ n \in 0..k
    BY <1>1
  <2>3. QED
    BY <2>1, <2>2, Zenon DEF DigitsUpTo
<1>2. 0 \in Good
  <2>1. g[0] = h[0]
    <3>1. \A i \in Nat : i < 0 => g[i] = h[i]
      OBVIOUS
    <3>2. 0 \in Nat /\ 0 <= m /\ 0 <= k
      OBVIOUS
    <3>3. QED
      BY <1>1, <3>1, <3>2
  <2>2. QED
    BY <2>1
<1>3. ASSUME NEW n \in Nat, n \in Good
      PROVE  n + 1 \in Good
  <2>1. ASSUME n + 1 <= m, n + 1 <= k
        PROVE  g[n + 1] = h[n + 1]
    <3>1. \A i \in Nat : i < n + 1 => g[i] = h[i]
      BY <1>3, <2>1
    <3>2. n + 1 \in Nat
      OBVIOUS
    <3>3. QED
      BY <1>1, <2>1, <3>1, <3>2
  <2>2. \A i \in Nat : i <= n + 1 => i <= n \/ i = n + 1
    OBVIOUS
  <2>3. QED
    BY <1>3, <2>1, <2>2
<1>4. \A n \in Nat : n \in Good
  <2> HIDE DEF Good
  <2>1. QED
    BY <1>2, <1>3, SetInduction
<1>5. QED
  BY <1>4

(* The digits that JSON.stringify writes are made of the smaller number's.  *)
LEMMA DigitsOf ==
    \A n \in Nat : Digits[n] \in Seq(Int) /\ Digits[n] = DigitsFrom(Digits, n)
<1>1. PICK f : f = [n \in Nat |-> (CHOOSE g : DigitsUpTo(n, g))[n]]
  OBVIOUS
<1>2. ASSUME NEW n \in Nat, NEW g, DigitsUpTo(n, g)
      PROVE  \A i \in Nat : i <= n => f[i] = g[i]
  <2>1. SUFFICES ASSUME NEW i \in Nat, i <= n
                 PROVE  f[i] = g[i]
    OBVIOUS
  <2>2. PICK h : h = CHOOSE e : DigitsUpTo(i, e)
    OBVIOUS
  <2>3. DigitsUpTo(i, h)
    BY <2>2, DigitsUpToExist, Zenon
  <2>4. i <= i
    OBVIOUS
  <2>5. h[i] = g[i]
    BY <1>2, <2>1, <2>3, <2>4, DigitsUpToAgree
  <2>6. QED
    BY <1>1, <2>2, <2>5, Zenon
<1>3. ASSUME NEW n \in Nat
      PROVE  f[n] \in Seq(Int) /\ f[n] = DigitsFrom(f, n)
  <2>1. PICK g : DigitsUpTo(n, g)
    BY DigitsUpToExist
  <2>2. \A i \in Nat : i <= n => f[i] = g[i]
    BY <1>2, <2>1
  <2>3. f[n] = g[n] /\ \A i \in Nat : i < n => g[i] = f[i]
    BY <2>2
  <2>4. DigitsFrom(g, n) = DigitsFrom(f, n)
    BY <2>3, DigitsSame
  <2>5. n \in 0..n
    OBVIOUS
  <2>6. QED
    BY <2>1, <2>3, <2>4, <2>5, Zenon DEF DigitsUpTo
<1>4. f = [n \in Nat |-> IF n < 10 THEN <<n>> ELSE Append(f[n \div 10], n % 10)]
  <2>1. \A n \in Nat : f[n] = IF n < 10 THEN <<n>> ELSE Append(f[n \div 10], n % 10)
    BY <1>3, Zenon DEF DigitsFrom
  <2>2. f = [n \in Nat |-> f[n]]
    <3>1. f \in [Nat -> {f[n] : n \in Nat}]
      BY <1>1
    <3>2. QED
      BY <3>1
  <2>3. QED
    BY <2>1, <2>2, Zenon
<1>5. Digits = [n \in Nat |-> IF n < 10 THEN <<n>> ELSE Append(Digits[n \div 10], n % 10)]
  BY <1>4, Zenon DEF Digits
<1>6. \A n \in Nat : Digits[n] = DigitsFrom(Digits, n)
  BY <1>5, Zenon DEF DigitsFrom
<1> DEFINE Good == {m \in Nat : \A i \in Nat : i <= m => Digits[i] \in Seq(Int)}
<1>7. ASSUME NEW n \in Nat, \A i \in Nat : i < n => Digits[i] \in Seq(Int)
      PROVE  Digits[n] \in Seq(Int)
  <2>1. DigitsFrom(Digits, n) \in Seq(Int)
    BY <1>7, DigitsMade
  <2>2. QED
    BY <1>6, <2>1, Zenon
<1>8. 0 \in Good
  <2>1. \A i \in Nat : i < 0 => Digits[i] \in Seq(Int)
    OBVIOUS
  <2>2. Digits[0] \in Seq(Int)
    BY <1>7, <2>1
  <2>3. QED
    BY <2>2
<1>9. ASSUME NEW m \in Nat, m \in Good
      PROVE  m + 1 \in Good
  <2>1. m + 1 \in Nat /\ \A i \in Nat : i < m + 1 => Digits[i] \in Seq(Int)
    BY <1>9
  <2>2. Digits[m + 1] \in Seq(Int)
    BY <1>7, <2>1
  <2>3. \A i \in Nat : i <= m + 1 => i <= m \/ i = m + 1
    OBVIOUS
  <2>4. QED
    BY <1>9, <2>2, <2>3
<1>10. \A m \in Nat : m \in Good
  <2> HIDE DEF Good
  <2>1. QED
    BY <1>8, <1>9, SetInduction
<1>11. QED
  BY <1>6, <1>10

(* Every number has a digit.                                                *)
LEMMA DigitsThere ==
    ASSUME NEW n \in Nat
    PROVE  Digits[n] # <<>>
<1>1. CASE n < 10
  <2>1. Digits[n] = <<n>>
    BY <1>1, DigitsOf, Zenon DEF DigitsFrom
  <2>2. QED
    BY <2>1
<1>2. CASE ~(n < 10)
  <2>1. PICK q \in Nat : q = n \div 10
    BY <1>2, SmallerNumber
  <2>2. PICK r \in Int : r = n % 10
    BY <1>2, SmallerNumber
  <2>3. PICK s \in Seq(Int) : s = Digits[q]
    BY DigitsOf
  <2>4. Digits[n] = Append(s, r)
    BY <1>2, <2>1, <2>2, <2>3, DigitsOf, Zenon DEF DigitsFrom
  <2>5. QED
    BY <2>4
<1>3. QED
  BY <1>1, <1>2

(* A number up to Beyond comes back from its digits.                        *)
LEMMA DigitsRead ==
    \A n \in Nat : n <= Beyond => Value(Digits[n]) = n
<1> DEFINE Good == {m \in Nat : \A i \in Nat : i <= m /\ i <= Beyond => Value(Digits[i]) = i}
<1>1. ASSUME NEW n \in Nat, n <= Beyond,
             \A i \in Nat : i < n /\ i <= Beyond => Value(Digits[i]) = i
      PROVE  Value(Digits[n]) = n
  <2>1. CASE n < 10
    <3>1. Digits[n] = <<n>>
      BY <2>1, DigitsOf, Zenon DEF DigitsFrom
    <3>2. QED
      BY <3>1, ValueOfOne, Zenon
  <2>2. CASE ~(n < 10)
    <3>1. PICK q \in Nat : q = n \div 10 /\ q < n
      BY <2>2, SmallerNumber
    <3>2. PICK r \in Int : r = n % 10 /\ q * 10 + r = n
      BY <2>2, <3>1, SmallerNumber
    <3>3. q <= Beyond
      BY <1>1, <3>1, SMT DEF Beyond
    <3>4. PICK s \in Seq(Int) : s = Digits[q]
      BY DigitsOf
    <3>5. Digits[n] = Append(s, r)
      BY <2>2, <3>1, <3>2, <3>4, DigitsOf, Zenon DEF DigitsFrom
    <3>6. Value(s) = q
      BY <1>1, <3>1, <3>3, <3>4
    <3>7. Value(Append(s, r)) = Read(Value(s), r)
      BY ValueOfMore
    <3>8. Read(q, r) = n
      BY <3>2, <3>3, SMT DEF Read, Beyond
    <3>9. QED
      BY <3>5, <3>6, <3>7, <3>8, Zenon
  <2>3. QED
    BY <2>1, <2>2
<1>2. 0 \in Good
  <2>1. 0 \in Nat /\ 0 <= Beyond /\ \A i \in Nat : i < 0 /\ i <= Beyond => Value(Digits[i]) = i
    BY SMT DEF Beyond
  <2>2. Value(Digits[0]) = 0
    BY <1>1, <2>1, Zenon
  <2>3. \A i \in Nat : i <= 0 => i = 0
    OBVIOUS
  <2>4. QED
    BY <2>2, <2>3
<1>3. ASSUME NEW m \in Nat, m \in Good
      PROVE  m + 1 \in Good
  <2>1. m + 1 \in Nat /\ \A i \in Nat : i < m + 1 => i <= m
    OBVIOUS
  <2>2. \A i \in Nat : i < m + 1 /\ i <= Beyond => Value(Digits[i]) = i
    BY <1>3, <2>1
  <2>3. m + 1 <= Beyond => Value(Digits[m + 1]) = m + 1
    BY <1>1, <2>1, <2>2, Zenon
  <2>4. \A i \in Nat : i <= m + 1 => i <= m \/ i = m + 1
    OBVIOUS
  <2>5. QED
    BY <1>3, <2>1, <2>3, <2>4, Zenon
<1>4. \A m \in Nat : m \in Good
  <2> HIDE DEF Good
  <2>1. QED
    BY <1>2, <1>3, SetInduction
<1>5. \A m \in Nat : m <= m
  OBVIOUS
<1>6. QED
  BY <1>4, <1>5

-----------------------------------------------------------------------------
(* Options, delays and the LIMIT *)

(* A number is moved into a range, and left alone if it is in it.           *)
LEMMA Clamped ==
    ASSUME NEW v \in Int, NEW range, NEW lo \in Int, NEW hi \in Int, lo <= hi,
           range = <<lo, hi>>
    PROVE  EnvInt(v, range) \in lo..hi /\ (v \in lo..hi => EnvInt(v, range) = v)
<1>1. range[1] = lo /\ range[2] = hi
  OBVIOUS
<1>2. EnvInt(v, range) = Least(Most(v, lo), hi)
  BY <1>1 DEF EnvInt
<1>3. QED
  BY <1>2 DEF Least, Most

(* main's own defaults and clamps agree with the ranges that env_int and    *)
(* env_int_local enforce: whatever number an option is given, the thread    *)
(* that uses it gets one that is allowed, and the very one if it is.        *)
THEOREM OptionsRespected ==
    \A option \in Options, v \in Int :
      /\ Used(option, v) \in Allowed[option][1]..Allowed[option][2]
      /\ v \in Allowed[option][1]..Allowed[option][2] => Used(option, v) = v
<1>1. ASSUME NEW option \in Options, NEW v \in Int
      PROVE  \E e \in Int, lo \in Int, hi \in Int :
               /\ e = Exported(option, v) /\ Allowed[option] = <<lo, hi>> /\ lo <= hi
               /\ v \in lo..hi => e = v
  <2>1. CASE option = "batch"
    BY <2>1 DEF Allowed, Exported, Default, Most
  <2>2. CASE option = "statsMs"
    BY <2>2 DEF Allowed, Exported, Default, Most
  <2>3. CASE option = "dropPct"
    BY <2>3 DEF Allowed, Exported, Default, Least, Most
  <2>4. CASE option \in {"delayMs", "jitterMs"}
    BY <2>4 DEF Allowed, Exported, Default, Most
  <2>5. CASE option \in {"cutStartS", "cutDurationS"}
    BY <2>5 DEF Allowed, Exported, Default, Most
  <2>6. option \in {"batch", "statsMs", "delayMs", "jitterMs", "dropPct",
                    "cutStartS", "cutDurationS"}
    BY DEF Options, Allowed
  <2>7. QED
    BY <2>1, <2>2, <2>3, <2>4, <2>5, <2>6
<1>2. ASSUME NEW option \in Options, NEW v \in Int
      PROVE  /\ Used(option, v) \in Allowed[option][1]..Allowed[option][2]
             /\ v \in Allowed[option][1]..Allowed[option][2] => Used(option, v) = v
  <2>1. PICK e \in Int, lo \in Int, hi \in Int :
               /\ e = Exported(option, v) /\ Allowed[option] = <<lo, hi>> /\ lo <= hi
               /\ v \in lo..hi => e = v
    BY <1>1
  <2>2. PICK range : range = Allowed[option] /\ range = <<lo, hi>>
    BY <2>1
  <2>3. EnvInt(e, range) \in lo..hi /\ (e \in lo..hi => EnvInt(e, range) = e)
    BY <2>1, <2>2, Clamped
  <2>4. range[1] = lo /\ range[2] = hi
    BY <2>2
  <2>5. QED
    BY <2>1, <2>2, <2>3, <2>4 DEF Used
<1>3. QED
  BY <1>2

(* The delay of a message is never negative and lies within the jitter of   *)
(* the delay that was asked for, whatever rand() returns                    *)
(* (impairment_delay_for_msg_ms).                                           *)
THEOREM DelayWithinJitter ==
    \A delayMs, jitterMs, r \in Nat :
      /\ Delay(delayMs, jitterMs, r) >= 0
      /\ Delay(delayMs, jitterMs, r) \in (delayMs - jitterMs)..(delayMs + jitterMs)
<1> SUFFICES ASSUME NEW delayMs \in Nat, NEW jitterMs \in Nat, NEW r \in Nat
             PROVE  /\ Delay(delayMs, jitterMs, r) >= 0
                    /\ Delay(delayMs, jitterMs, r)
                         \in (delayMs - jitterMs)..(delayMs + jitterMs)
  OBVIOUS
<1>1. PICK width \in Nat \ {0} : width = jitterMs * 2 + 1
  OBVIOUS
<1>2. PICK drawn \in Int : drawn = r % width /\ drawn \in 0..(width - 1)
  OBVIOUS
<1>3. CASE jitterMs > 0
  <2>1. Delay(delayMs, jitterMs, r) = Most(delayMs + drawn - jitterMs, 0)
    BY <1>1, <1>2, <1>3 DEF Delay
  <2>2. drawn \in 0..(2 * jitterMs)
    BY <1>1, <1>2
  <2>3. QED
    BY <2>1, <2>2 DEF Most
<1>4. CASE ~(jitterMs > 0)
  BY <1>4 DEF Delay
<1>5. QED
  BY <1>3, <1>4

(* The seconds and nanoseconds that the thread sleeps are the delay, and    *)
(* nanosleep accepts them (sleep_ms_interruptible).                         *)
THEOREM SleepsTheDelay ==
    \A ms \in Nat : Milliseconds(SleepTime(ms)) = ms /\ Accepted(SleepTime(ms))
<1>1. ASSUME NEW ms \in Nat
      PROVE  Milliseconds(SleepTime(ms)) = ms /\ Accepted(SleepTime(ms))
  <2>1. PICK s \in Nat, m \in 0..999 : s = ms \div 1000 /\ m = ms % 1000 /\ ms = s * 1000 + m
    BY SMT
  <2>2. PICK ns \in Nat : ns = m * 1000000
    BY SMT
  <2>3. ns < 1000000000
    BY <2>2, SMT
  <2>4. PICK d : d = ns \div 1000000 /\ d = m
    BY <2>2, SMT
  <2>5. PICK time : time = SleepTime(ms)
    OBVIOUS
  <2>6. time[1] = s /\ time[2] = ns
    BY <2>1, <2>2, <2>5, SMT DEF SleepTime
  <2>7. Milliseconds(time) = ms
    <3>1. Milliseconds(time) = s * 1000 + d
      BY <2>4, <2>6, SMT DEF Milliseconds
    <3>2. QED
      BY <2>1, <2>4, <3>1, SMT
  <2>8. Accepted(time)
    BY <2>3, <2>6, SMT DEF Accepted
  <2>9. QED
    BY <2>5, <2>7, <2>8
<1>2. QED
  BY <1>1

(* No number that a client sends makes the query unlimited or empty, and the *)
(* number the page asks for is the number the query is limited to            *)
(* (getRequestedHistoryCount, db_reader_history_last_json).                  *)
THEOREM LastRespected ==
    /\ \A last \in Int : Limit(last) \in 1..Longest
    /\ \A tenths \in Int, finite \in BOOLEAN :
          LET n == RequestedCount(finite, tenths) IN
          /\ n \in 0..Longest /\ (n > 0 <=> finite /\ tenths >= 10)
          /\ n > 0 => Limit(n) = Least(tenths \div 10, Longest)
<1>1. ASSUME NEW last \in Int
      PROVE  Limit(last) \in 1..Longest
  BY DEF Limit, Least, Longest
<1>2. ASSUME NEW tenths \in Int, NEW finite \in BOOLEAN, NEW n,
             n = RequestedCount(finite, tenths)
      PROVE  /\ n \in 0..Longest /\ (n > 0 <=> finite /\ tenths >= 10)
             /\ n > 0 => Limit(n) = Least(tenths \div 10, Longest)
  <2>1. CASE finite /\ tenths > 0
    <3>1. PICK w : w = tenths \div 10
      OBVIOUS
    <3>2. w \in Nat /\ (w > 0 <=> tenths >= 10)
      BY <2>1, <3>1, SMT
    <3>3. n = Least(Longest, w)
      BY <1>2, <2>1, <3>1 DEF RequestedCount
    <3>4. /\ n \in 0..Longest /\ (n > 0 <=> w > 0)
          /\ n > 0 => Limit(n) = Least(w, Longest)
      BY <3>2, <3>3 DEF Limit, Least, Longest
    <3>5. QED
      BY <2>1, <3>1, <3>2, <3>4
  <2>2. CASE ~(finite /\ tenths > 0)
    <3>1. n = 0
      BY <1>2, <2>2 DEF RequestedCount
    <3>2. QED
      BY <2>2, <3>1 DEF Longest
  <2>3. QED
    BY <2>1, <2>2
<1>3. QED
  BY <1>1, <1>2

-----------------------------------------------------------------------------
(* The exclusive or of bytes *)

ByteBits == [0..7 -> 0..1]

(* The number with the bits b, the lowest first.                            *)
Byte(b) == b[0] + 2 * b[1] + 4 * b[2] + 8 * b[3] + 16 * b[4] + 32 * b[5] + 64 * b[6] + 128 * b[7]

(* Four bits make every number below 16. *)
LEMMA BitsOfNibble ==
    \A n \in 0..15 : \E b0, b1, b2, b3 \in 0..1 : n = b0 + 2 * b1 + 4 * b2 + 8 * b3
<1>1. ASSUME NEW n \in 0..15
      PROVE  \E b0, b1, b2, b3 \in 0..1 : n = b0 + 2 * b1 + 4 * b2 + 8 * b3
  <2>1. PICK b0 \in 0..1, n1 \in 0..7 : n = b0 + 2 * n1
    <3>1. n % 2 \in 0..1 /\ n \div 2 \in 0..7 /\ n = (n % 2) + 2 * (n \div 2)
      BY SMT
    <3>2. QED
      BY <3>1
  <2>2. PICK b1 \in 0..1, n2 \in 0..3 : n1 = b1 + 2 * n2
    <3>1. n1 % 2 \in 0..1 /\ n1 \div 2 \in 0..3 /\ n1 = (n1 % 2) + 2 * (n1 \div 2)
      BY SMT
    <3>2. QED
      BY <3>1
  <2>3. PICK b2, b3 \in 0..1 : n2 = b2 + 2 * b3
    <3>1. n2 % 2 \in 0..1 /\ n2 \div 2 \in 0..1 /\ n2 = (n2 % 2) + 2 * (n2 \div 2)
      BY SMT
    <3>2. QED
      BY <3>1
  <2>4. n = b0 + 2 * b1 + 4 * b2 + 8 * b3
    BY <2>1, <2>2, <2>3
  <2>5. QED
    BY <2>4
<1>2. QED
  BY <1>1

(* Eight bits make every byte. *)
LEMMA BitsOfByte ==
    ASSUME NEW a \in 0..255
    PROVE  \E b \in ByteBits : a = Byte(b)
<1>1. PICK h \in 0..15, l \in 0..15 : a = 16 * h + l
  <2>1. a = 16 * (a \div 16) + (a % 16) /\ a \div 16 \in 0..15 /\ a % 16 \in 0..15
    BY SMT
  <2>2. QED
    BY <2>1
<1>2. PICK a0, a1, a2, a3 \in 0..1 : l = a0 + 2 * a1 + 4 * a2 + 8 * a3
  BY BitsOfNibble
<1>3. PICK a4, a5, a6, a7 \in 0..1 : h = a4 + 2 * a5 + 4 * a6 + 8 * a7
  BY BitsOfNibble
<1>4. PICK b \in ByteBits : /\ b[0] = a0 /\ b[1] = a1 /\ b[2] = a2 /\ b[3] = a3
                       /\ b[4] = a4 /\ b[5] = a5 /\ b[6] = a6 /\ b[7] = a7
  <2>1. [k \in 0..7 |-> IF k = 0 THEN a0 ELSE IF k = 1 THEN a1 ELSE IF k = 2 THEN a2
                        ELSE IF k = 3 THEN a3 ELSE IF k = 4 THEN a4
                        ELSE IF k = 5 THEN a5 ELSE IF k = 6 THEN a6 ELSE a7] \in ByteBits
    BY DEF ByteBits
  <2>2. QED
    BY <2>1
<1>5. a = Byte(b)
  BY <1>1, <1>2, <1>3, <1>4 DEF Byte
<1>6. QED
  BY <1>5

(* A byte's bits are what its quotients by powers of two end with. *)
LEMMA BitsShifted ==
    ASSUME NEW b \in ByteBits
    PROVE  /\ Byte(b) \in 0..255
           /\ (Byte(b) \div 1) % 2 = b[0]
           /\ (Byte(b) \div 2) % 2 = b[1]
           /\ (Byte(b) \div 4) % 2 = b[2]
           /\ (Byte(b) \div 8) % 2 = b[3]
           /\ (Byte(b) \div 16) % 2 = b[4]
           /\ (Byte(b) \div 32) % 2 = b[5]
           /\ (Byte(b) \div 64) % 2 = b[6]
           /\ (Byte(b) \div 128) % 2 = b[7]
<1>0. b[0] \in 0..1 /\ b[1] \in 0..1 /\ b[2] \in 0..1 /\ b[3] \in 0..1 /\ b[4] \in 0..1 /\ b[5] \in 0..1 /\ b[6] \in 0..1 /\ b[7] \in 0..1
  BY DEF ByteBits
<1>1. (Byte(b) \div 1) % 2 = b[0]
  BY <1>0, SMT DEF Byte
<1>2. (Byte(b) \div 2) % 2 = b[1]
  BY <1>0, SMT DEF Byte
<1>3. (Byte(b) \div 4) % 2 = b[2]
  BY <1>0, SMT DEF Byte
<1>4. (Byte(b) \div 8) % 2 = b[3]
  BY <1>0, SMT DEF Byte
<1>5. (Byte(b) \div 16) % 2 = b[4]
  BY <1>0, SMT DEF Byte
<1>6. (Byte(b) \div 32) % 2 = b[5]
  BY <1>0, SMT DEF Byte
<1>7. (Byte(b) \div 64) % 2 = b[6]
  BY <1>0, SMT DEF Byte
<1>8. (Byte(b) \div 128) % 2 = b[7]
  BY <1>0, SMT DEF Byte
<1>9. Byte(b) \in 0..255
  BY <1>0, SMT DEF Byte
<1>10. QED
  BY <1>1, <1>2, <1>3, <1>4, <1>5, <1>6, <1>7, <1>8, <1>9

(* The bits of an exclusive or. *)
LEMMA XorBits ==
    ASSUME NEW a \in ByteBits, NEW m \in ByteBits
    PROVE  Xor(Byte(a), Byte(m)) = Byte([k \in 0..7 |-> (a[k] + m[k]) % 2])
<1>0. /\ a[0] \in 0..1 /\ a[1] \in 0..1 /\ a[2] \in 0..1 /\ a[3] \in 0..1 /\ a[4] \in 0..1 /\ a[5] \in 0..1 /\ a[6] \in 0..1 /\ a[7] \in 0..1
      /\ m[0] \in 0..1 /\ m[1] \in 0..1 /\ m[2] \in 0..1 /\ m[3] \in 0..1 /\ m[4] \in 0..1 /\ m[5] \in 0..1 /\ m[6] \in 0..1 /\ m[7] \in 0..1
  BY DEF ByteBits
<1>1. (Byte(a) \div 1) % 2 = a[0] /\ (Byte(m) \div 1) % 2 = m[0]
  BY BitsShifted
<1>2. (Byte(a) \div 2) % 2 = a[1] /\ (Byte(m) \div 2) % 2 = m[1]
  BY BitsShifted
<1>3. (Byte(a) \div 4) % 2 = a[2] /\ (Byte(m) \div 4) % 2 = m[2]
  BY BitsShifted
<1>4. (Byte(a) \div 8) % 2 = a[3] /\ (Byte(m) \div 8) % 2 = m[3]
  BY BitsShifted
<1>5. (Byte(a) \div 16) % 2 = a[4] /\ (Byte(m) \div 16) % 2 = m[4]
  BY BitsShifted
<1>6. (Byte(a) \div 32) % 2 = a[5] /\ (Byte(m) \div 32) % 2 = m[5]
  BY BitsShifted
<1>7. (Byte(a) \div 64) % 2 = a[6] /\ (Byte(m) \div 64) % 2 = m[6]
  BY BitsShifted
<1>8. (Byte(a) \div 128) % 2 = a[7] /\ (Byte(m) \div 128) % 2 = m[7]
  BY BitsShifted
<1>9. Xor(Byte(a), Byte(m)) =
         1 * ((a[0] + m[0]) % 2)
         + 2 * ((a[1] + m[1]) % 2)
         + 4 * ((a[2] + m[2]) % 2)
         + 8 * ((a[3] + m[3]) % 2)
         + 16 * ((a[4] + m[4]) % 2)
         + 32 * ((a[5] + m[5]) % 2)
         + 64 * ((a[6] + m[6]) % 2)
         + 128 * ((a[7] + m[7]) % 2)
  BY <1>1, <1>2, <1>3, <1>4, <1>5, <1>6, <1>7, <1>8 DEF Xor
<1>10. PICK c : c = [k \in 0..7 |-> (a[k] + m[k]) % 2]
  OBVIOUS
<1>11. c[0] = (a[0] + m[0]) % 2 /\ c[1] = (a[1] + m[1]) % 2 /\ c[2] = (a[2] + m[2]) % 2 /\ c[3] = (a[3] + m[3]) % 2 /\ c[4] = (a[4] + m[4]) % 2 /\ c[5] = (a[5] + m[5]) % 2 /\ c[6] = (a[6] + m[6]) % 2 /\ c[7] = (a[7] + m[7]) % 2
  BY <1>10
<1>12. QED
  BY <1>0, <1>9, <1>10, <1>11 DEF Byte

(* A mask that is applied twice leaves every byte as it was.                *)
LEMMA XorTwice ==
    ASSUME NEW a \in 0..255, NEW m \in 0..255
    PROVE  Xor(a, m) \in 0..255 /\ Xor(Xor(a, m), m) = a
<1>1. PICK b \in ByteBits : a = Byte(b)
  BY BitsOfByte
<1>2. PICK k \in ByteBits : m = Byte(k)
  BY BitsOfByte
<1>3. \A x, y \in 0..1 : (x + y) % 2 \in 0..1 /\ (((x + y) % 2) + y) % 2 = x
  BY SMT
<1>4. PICK c : c = [i \in 0..7 |-> (b[i] + k[i]) % 2]
  OBVIOUS
<1>5. c \in ByteBits
  BY <1>3, <1>4 DEF ByteBits
<1>6. Xor(a, m) = Byte(c)
  BY <1>1, <1>2, <1>4, XorBits
<1>7. [i \in 0..7 |-> (c[i] + k[i]) % 2] = b
  BY <1>3, <1>4 DEF ByteBits
<1>8. Xor(Byte(c), m) = Byte(b)
  BY <1>2, <1>5, <1>7, XorBits
<1>9. QED
  BY <1>1, <1>5, <1>6, <1>8, BitsShifted

-----------------------------------------------------------------------------
(* Frames *)

(* A function on 1..n is a sequence of n elements.                          *)
LEMMA FunctionIsSeq ==
    ASSUME NEW S, NEW n \in Nat, NEW f \in [1..n -> S]
    PROVE  f \in Seq(S) /\ Len(f) = n
OBVIOUS

(* A header, a mask and a payload one after another. *)
Frame(head, mask, payload) == head \o mask \o payload
Parts(frame, head, mask, payload) ==
    /\ Len(frame) = Len(head) + Len(mask) + Len(payload)
    /\ \A i \in 1..Len(head) : frame[i] = head[i]
    /\ \A i \in 1..Len(mask) : frame[Len(head) + i] = mask[i]
    /\ \A i \in 1..Len(payload) : frame[Len(head) + Len(mask) + i] = payload[i]

(* Where a frame has its parts. *)
LEMMA FrameParts ==
    ASSUME NEW head \in Seq(Int), NEW mask \in Seq(Int), NEW payload \in Seq(Int)
    PROVE  /\ Parts(Frame(head, mask, payload), head, mask, payload)
           /\ Frame(head, mask, payload) \in Seq(Int)
<1>1. PICK front : front = head \o mask
  OBVIOUS
<1>2. /\ front \in Seq(Int) /\ Len(front) = Len(head) + Len(mask)
      /\ \A i \in 1..(Len(head) + Len(mask)) : front[i] =
           IF i <= Len(head) THEN head[i] ELSE mask[i - Len(head)]
  BY <1>1, ConcatProperties
<1>3. PICK frame : frame = front \o payload
  OBVIOUS
<1>4. /\ frame \in Seq(Int) /\ Len(frame) = Len(front) + Len(payload)
      /\ \A i \in 1..(Len(front) + Len(payload)) : frame[i] =
           IF i <= Len(front) THEN front[i] ELSE payload[i - Len(front)]
  <2>1. front \in Seq(Int)
    BY <1>2
  <2>2. QED
    BY <1>3, <2>1, ConcatProperties
<1>5. PICK a \in Nat, b \in Nat, c \in Nat : a = Len(head) /\ b = Len(mask) /\ c = Len(payload)
  BY LenProperties
<1>6. ASSUME NEW i \in 1..a PROVE frame[i] = head[i]
  <2>1. i \in 1..(a + b) /\ i \in 1..((a + b) + c) /\ i <= a + b /\ i <= a
    OBVIOUS
  <2>2. QED
    BY <1>2, <1>4, <1>5, <2>1
<1>7. ASSUME NEW i \in 1..b PROVE frame[a + i] = mask[i]
  <2>1. PICK k \in Int : k = a + i
    OBVIOUS
  <2>2. k \in 1..(a + b) /\ k \in 1..((a + b) + c) /\ k <= a + b /\ ~(k <= a) /\ k - a = i
    BY <2>1
  <2>3. frame[k] = front[k] /\ front[k] = mask[k - a]
    BY <1>2, <1>4, <1>5, <2>2
  <2>4. QED
    BY <2>1, <2>2, <2>3, Zenon
<1>8. ASSUME NEW i \in 1..c
      PROVE  frame[a + b + i] = payload[i]
  <2>1. PICK k \in Int : k = a + b + i
    OBVIOUS
  <2>2. k \in 1..((a + b) + c) /\ ~(k <= a + b) /\ k - (a + b) = i
    BY <2>1
  <2>3. frame[k] = payload[k - (a + b)]
    BY <1>2, <1>4, <1>5, <2>2
  <2>4. QED
    BY <2>1, <2>2, <2>3, Zenon
<1>9. Frame(head, mask, payload) = frame
  BY <1>1, <1>3 DEF Frame
<1>10. Len(frame) = Len(head) + Len(mask) + Len(payload)
  BY <1>2, <1>4
<1>11. QED
  BY <1>4, <1>5, <1>6, <1>7, <1>8, <1>9, <1>10, Zenon DEF Parts

(* The bytes of a number below 2^31.                                        *)
LEMMA FourBytes ==
    ASSUME NEW len \in Nat, len <= MaxLength,
           NEW bytes, bytes = BigEndian(len)
    PROVE  /\ bytes \in Seq(Int) /\ Len(bytes) = 8
           /\ bytes[5] \in Nat /\ bytes[6] \in Nat /\ bytes[7] \in Nat /\ bytes[8] \in Nat
           /\ \A i \in 1..4 : bytes[i] = 0
           /\ len = 256 * (256 * (256 * bytes[5] + bytes[6]) + bytes[7]) + bytes[8]
<1>1. PICK n1, d : n1 = len \div 256 /\ d = len % 256
  OBVIOUS
<1>2. n1 \in Nat /\ d \in 0..255 /\ len = 256 * n1 + d
  BY <1>1, SMT
<1>3. PICK n2, c : n2 = n1 \div 256 /\ c = n1 % 256
  OBVIOUS
<1>4. n2 \in Nat /\ c \in 0..255 /\ n1 = 256 * n2 + c
  BY <1>2, <1>3, SMT
<1>5. PICK a, b : a = n2 \div 256 /\ b = n2 % 256
  OBVIOUS
<1>6. a \in Nat /\ b \in 0..255 /\ n2 = 256 * a + b
  BY <1>4, <1>5, SMT
<1>7. a <= 255
  BY <1>2, <1>4, <1>6, SMT DEF MaxLength
<1>8. len \div 65536 = n2
  BY <1>2, <1>4, SMT
<1>9. len \div 16777216 = a
  BY <1>2, <1>4, <1>6, SMT
<1>10. a % 256 = a
  BY <1>6, <1>7, SMT
<1>11. bytes = <<0, 0, 0, 0, a, b, c, d>>
  BY <1>1, <1>3, <1>5, <1>8, <1>9, <1>10, SMT DEF BigEndian
<1>12. a \in Nat /\ b \in Nat /\ c \in Nat /\ d \in Nat
  BY <1>2, <1>4, <1>6
<1>13. /\ bytes[5] = a /\ bytes[6] = b /\ bytes[7] = c /\ bytes[8] = d
       /\ bytes[1] = 0 /\ bytes[2] = 0 /\ bytes[3] = 0 /\ bytes[4] = 0
  BY <1>11
<1>14. bytes \in Seq(Int) /\ Len(bytes) = 8
  BY <1>11, <1>12
<1>15. len = 256 * (256 * (256 * a + b) + c) + d
  BY <1>2, <1>4, <1>6, SMT
<1>16. QED
  BY <1>12, <1>13, <1>14, <1>15

(* The three forms of a header h for a payload of length len. *)
ShortForm(h, len) == len <= 125 /\ Len(h) = 2 /\ h[2] = len
MiddleForm(h, len) == /\ 125 < len /\ len <= 65535
                      /\ Len(h) = 4 /\ h[2] = 126
                      /\ h[3] \in Nat /\ h[4] \in Nat /\ len = 256 * h[3] + h[4]
LongForm(h, len) ==
    /\ 65535 < len
    /\ Len(h) = 10 /\ h[2] = 127
    /\ h[3] = 0 /\ h[4] = 0 /\ h[5] = 0 /\ h[6] = 0
    /\ h[7] \in Nat /\ h[8] \in Nat /\ h[9] \in Nat /\ h[10] \in Nat
    /\ len = 256 * (256 * (256 * h[7] + h[8]) + h[9]) + h[10]

(* The header of a text frame has one of them.                              *)
LEMMA HeaderForms ==
    ASSUME NEW len \in Nat, len <= MaxLength
    PROVE  /\ TextHeader(len) \in Seq(Int) /\ TextHeader(len)[1] = 129
           /\ \/ ShortForm(TextHeader(len), len)
              \/ MiddleForm(TextHeader(len), len)
              \/ LongForm(TextHeader(len), len)
<1>1. CASE len <= 125
  BY <1>1 DEF TextHeader, ShortForm
<1>2. CASE 125 < len /\ len <= 65535
  <2>1. PICK a, b : a = len \div 256 /\ b = len % 256
    OBVIOUS
  <2>2. a \in Nat /\ b \in 0..255 /\ len = 256 * a + b
    BY <2>1, SMT
  <2>3. PICK h : h = <<129, 126, a, b>>
    OBVIOUS
  <2>4. TextHeader(len) = h
    BY <1>2, <2>1, <2>3 DEF TextHeader
  <2>5. h \in Seq(Int) /\ h[1] = 129 /\ MiddleForm(h, len)
    BY <1>2, <2>2, <2>3 DEF MiddleForm
  <2>6. QED
    BY <2>4, <2>5
<1>3. CASE 65535 < len
  <2>1. PICK front, back : front = <<129, 127>> /\ back = BigEndian(len)
    OBVIOUS
  <2>2. /\ back \in Seq(Int) /\ Len(back) = 8
        /\ back[5] \in Nat /\ back[6] \in Nat /\ back[7] \in Nat /\ back[8] \in Nat
        /\ back[1] = 0 /\ back[2] = 0 /\ back[3] = 0 /\ back[4] = 0
        /\ len = 256 * (256 * (256 * back[5] + back[6]) + back[7]) + back[8]
    BY <2>1, FourBytes
  <2>3. front \in Seq(Int) /\ Len(front) = 2 /\ front[1] = 129 /\ front[2] = 127
    BY <2>1
  <2>4. PICK h : h = front \o back
    OBVIOUS
  <2>5. /\ h \in Seq(Int) /\ Len(h) = 10 /\ h[1] = 129 /\ h[2] = 127
        /\ h[3] = back[1] /\ h[4] = back[2] /\ h[5] = back[3] /\ h[6] = back[4]
        /\ h[7] = back[5] /\ h[8] = back[6] /\ h[9] = back[7] /\ h[10] = back[8]
    <3>1. /\ h \in Seq(Int) /\ Len(h) = Len(front) + Len(back)
          /\ \A i \in 1..(Len(front) + Len(back)) :
                h[i] = IF i <= Len(front) THEN front[i] ELSE back[i - Len(front)]
      <4>1. front \in Seq(Int) /\ back \in Seq(Int)
        BY <2>2, <2>3
      <4>2. QED
        BY <2>4, <4>1, ConcatProperties
    <3>2. Len(front) = 2 /\ Len(h) = 10 /\ Len(front) + Len(back) = 10
      BY <2>2, <2>3, <3>1
    <3>3. \A i \in 1..10 : h[i] = IF i <= 2 THEN front[i] ELSE back[i - 2]
      BY <3>1, <3>2
    <3>4. h[1] = front[1] /\ h[2] = front[2]
      BY <3>3
    <3>5. /\ h[3] = back[1] /\ h[4] = back[2] /\ h[5] = back[3] /\ h[6] = back[4]
          /\ h[7] = back[5] /\ h[8] = back[6] /\ h[9] = back[7] /\ h[10] = back[8]
      BY <3>3
    <3>6. QED
      BY <2>3, <3>1, <3>2, <3>4, <3>5
  <2>6. TextHeader(len) = h
    BY <1>3, <2>1, <2>4 DEF TextHeader
  <2>7. LongForm(h, len)
    BY <1>3, <2>2, <2>5 DEF LongForm
  <2>8. QED
    BY <2>5, <2>6, <2>7
<1>4. QED
  BY <1>1, <1>2, <1>3

(* A browser reads the length of a text frame, in its shortest form.        *)
LEMMA BrowserReadsLength ==
    ASSUME NEW len \in Nat, len <= MaxLength
    PROVE  LengthRead(TextHeader(len)) = len /\ Len(TextHeader(len)) = Fewest(len)
<1>1. PICK h : h = TextHeader(len)
  OBVIOUS
<1>2. CASE ShortForm(h, len)
  BY <1>1, <1>2, SMT DEF ShortForm, LengthRead, Fewest, Eight
<1>3. CASE MiddleForm(h, len)
  BY <1>1, <1>3, SMT DEF MiddleForm, LengthRead, Fewest, Eight
<1>4. CASE LongForm(h, len)
  BY <1>1, <1>4, SMT DEF LongForm, LengthRead, Fewest, Eight
<1>5. QED
  BY <1>1, <1>2, <1>3, <1>4, HeaderForms

(* The header of a text frame as a browser sends it.                        *)
LEMMA HeaderMasked ==
    ASSUME NEW h \in Seq(Int), Len(h) >= 2, h[2] \in Int, NEW opcode \in Int,
           NEW masked, masked = [h EXCEPT ![1] = 128 + opcode, ![2] = @ + 128]
    PROVE  /\ masked \in Seq(Int) /\ Len(masked) = Len(h)
           /\ masked[1] = 128 + opcode /\ masked[2] = h[2] + 128
           /\ \A i \in 3..Len(h) : masked[i] = h[i]
<1>1. PICK n \in Nat : n = Len(h)
  OBVIOUS
<1>2. h \in [1..n -> Int] /\ 1 \in 1..n /\ 2 \in 1..n
  BY <1>1
<1>3. /\ masked \in [1..n -> Int]
      /\ masked[1] = 128 + opcode /\ masked[2] = h[2] + 128
      /\ \A i \in 3..n : masked[i] = h[i]
  BY <1>2
<1>4. masked \in Seq(Int) /\ Len(masked) = n
  BY <1>3, FunctionIsSeq
<1>5. QED
  BY <1>1, <1>3, <1>4

(* What the server reads in a frame. *)
ShortRead(bytes) == bytes[2] % 128
HeadRead(bytes) == IF ShortRead(bytes) = 126 THEN 4
                   ELSE IF ShortRead(bytes) = 127 THEN 10 ELSE 2
LenRead(bytes) ==
    IF ShortRead(bytes) = 126 THEN bytes[3] * 256 + bytes[4]
    ELSE IF ShortRead(bytes) = 127
         THEN ((bytes[7] * 256 + bytes[8]) * 256 + bytes[9]) * 256 + bytes[10]
    ELSE ShortRead(bytes)
HugeRead(bytes) == ShortRead(bytes) = 127 /\ \E i \in 3..6 : bytes[i] # 0
FromRead(bytes) == IF bytes[2] >= 128 THEN HeadRead(bytes) + 4 ELSE HeadRead(bytes)
PayloadRead(bytes) ==
    [i \in 1..(Len(bytes) - FromRead(bytes)) |->
       IF bytes[2] >= 128
       THEN Unmask(SubSeq(bytes, HeadRead(bytes) + 1, HeadRead(bytes) + 4), i - 1,
                   bytes[FromRead(bytes) + i])
       ELSE bytes[FromRead(bytes) + i]]

(* What the server makes of a frame.                                        *)
LEMMA FrameReceived ==
    ASSUME NEW bytes
    PROVE  /\ HugeRead(bytes) \/ LenRead(bytes) > MaxPayload
                => RecvFrame(bytes) = [ok |-> FALSE]
           /\ ~HugeRead(bytes) /\ ~(LenRead(bytes) > MaxPayload) =>
                RecvFrame(bytes) = [ok |-> TRUE, opcode |-> bytes[1] % 16,
                                    len |-> LenRead(bytes), payload |-> PayloadRead(bytes)]
<1>1. ASSUME HugeRead(bytes) \/ LenRead(bytes) > MaxPayload
      PROVE  RecvFrame(bytes) = [ok |-> FALSE]
  BY <1>1, Zenon DEF RecvFrame, LenRead, ShortRead, HugeRead
<1>2. ASSUME ~HugeRead(bytes), ~(LenRead(bytes) > MaxPayload)
      PROVE  RecvFrame(bytes) = [ok |-> TRUE, opcode |-> bytes[1] % 16,
                                 len |-> LenRead(bytes), payload |-> PayloadRead(bytes)]
  <2>1. ~(HugeRead(bytes) \/ LenRead(bytes) > MaxPayload)
    BY <1>2
  <2>2. QED
    BY <2>1, Zenon DEF RecvFrame, LenRead, ShortRead, HugeRead, HeadRead, FromRead, PayloadRead
<1>3. QED
  BY <1>1, <1>2

(* A frame whose eight bytes of length reach beyond the last four is refused. *)
LEMMA FarLengthRefused ==
    ASSUME NEW f \in Seq(Int), Len(f) >= 10, f[2] = 255, NEW i \in 3..6
    PROVE  ~RecvFrame([f EXCEPT ![i] = 1]).ok
<1>1. PICK g : g = [f EXCEPT ![i] = 1]
  OBVIOUS
<1>2. PICK n \in Nat : n = Len(f) /\ n >= 10
  OBVIOUS
<1>3. f \in [1..n -> Int] /\ 2 \in 1..n /\ i \in 1..n /\ i # 2
  BY <1>2
<1>4. g[2] = 255 /\ g[i] = 1
  BY <1>1, <1>3
<1>5. ShortRead(g) = 127 /\ 1 # 0
  BY <1>4, SMT DEF ShortRead
<1>6. HugeRead(g)
  BY <1>4, <1>5, Zenon DEF HugeRead
<1>7. RecvFrame(g) = [ok |-> FALSE]
  BY <1>6, FrameReceived, Zenon
<1>8. ~RecvFrame(g).ok
  BY <1>7
<1>9. QED
  BY <1>1, <1>8, Zenon

(* The server reads the length that the browser wrote, in any of its forms. *)
LEMMA HeaderRead ==
    ASSUME NEW len \in Nat, NEW h, NEW f,
           ShortForm(h, len) \/ MiddleForm(h, len) \/ LongForm(h, len),
           f[2] = h[2] + 128, \A i \in 3..Len(h) : f[i] = h[i]
    PROVE  f[2] >= 128 /\ HeadRead(f) = Len(h) /\ LenRead(f) = len /\ ~HugeRead(f)
<1>1. CASE ShortForm(h, len)
  <2>1. ShortRead(f) = len /\ len <= 125
    BY <1>1, SMT DEF ShortForm, ShortRead
  <2>2. QED
    BY <1>1, <2>1, SMT DEF ShortForm, HeadRead, LenRead, HugeRead
<1>2. CASE MiddleForm(h, len)
  <2>1. ShortRead(f) = 126
    BY <1>2, SMT DEF MiddleForm, ShortRead
  <2>2. f[3] = h[3] /\ f[4] = h[4]
    BY <1>2, SMT DEF MiddleForm
  <2>3. QED
    BY <1>2, <2>1, <2>2, SMT DEF MiddleForm, HeadRead, LenRead, HugeRead
<1>3. CASE LongForm(h, len)
  <2>1. ShortRead(f) = 127
    BY <1>3, SMT DEF LongForm, ShortRead
  <2>2. f[7] = h[7] /\ f[8] = h[8] /\ f[9] = h[9] /\ f[10] = h[10]
    BY <1>3, SMT DEF LongForm
  <2>3. \A i \in 3..6 : f[i] = 0
    BY <1>3, SMT DEF LongForm
  <2>4. ~HugeRead(f)
    BY <2>3, Zenon DEF HugeRead
  <2>5. QED
    BY <1>3, <2>1, <2>2, <2>4, SMT DEF LongForm, HeadRead, LenRead
<1>4. QED
  BY <1>1, <1>2, <1>3

(* A masking key is a sequence of four bytes. *)
LEMMA MaskIsSeq ==
    ASSUME NEW mask \in [1..4 -> 0..255]
    PROVE  mask \in Seq(0..255) /\ mask \in Seq(Int) /\ Len(mask) = 4
<1>1. PICK four \in Nat : four = 4
  OBVIOUS
<1>2. mask \in [1..four -> 0..255] /\ mask \in [1..four -> Int]
  BY <1>1
<1>3. mask \in Seq(0..255) /\ Len(mask) = four
  BY <1>2, FunctionIsSeq
<1>4. mask \in Seq(Int)
  BY <1>2, FunctionIsSeq
<1>5. QED
  BY <1>1, <1>3, <1>4

(* A frame f with a masked payload of n bytes after a header of at bytes. *)
Holds(f, at, n, mask, payload) ==
    /\ n \in Nat /\ at \in Nat
    /\ mask \in [1..4 -> 0..255] /\ payload \in [1..n -> 0..255]
    /\ Len(f) = at + 4 + n /\ HeadRead(f) = at /\ f[2] >= 128
    /\ \A i \in 1..4 : f[at + i] = mask[i]
    /\ \A i \in 1..n : f[at + 4 + i] = Xor(payload[i], mask[((i - 1) % 4) + 1])

(* Unmasking gives back the payload that was masked.                        *)
LEMMA PayloadUnmasked ==
    ASSUME NEW f, NEW at, NEW n, NEW mask, NEW payload, Holds(f, at, n, mask, payload)
    PROVE  PayloadRead(f) = payload
<1> USE DEF Holds
<1>1. SubSeq(f, at + 1, at + 4) = mask
  <2>1. \A i \in (at + 1)..(at + 4) : f[i] \in 0..255
    <3>1. ASSUME NEW i \in (at + 1)..(at + 4) PROVE f[i] \in 0..255
      <4>1. PICK k \in 1..4 : i = at + k
        OBVIOUS
      <4>2. f[at + k] = mask[k] /\ mask[k] \in 0..255
        OBVIOUS
      <4>3. QED
        BY <4>1, <4>2, Zenon
    <3>2. QED
      BY <3>1
  <2>2. PICK sub : sub = SubSeq(f, at + 1, at + 4)
    OBVIOUS
  <2>3. /\ sub \in Seq(0..255)
        /\ Len(sub) = (IF at + 1 <= at + 4 THEN ((at + 4) - (at + 1)) + 1 ELSE 0)
        /\ \A i \in 1..(((at + 4) - (at + 1)) + 1) : sub[i] = f[((at + 1) + i) - 1]
    BY <2>1, <2>2, SubSeqProperties
  <2>4. Len(sub) = 4 /\ \A i \in 1..4 : sub[i] = f[at + i]
    BY <2>3
  <2>5. mask \in Seq(0..255) /\ Len(mask) = 4
    BY MaskIsSeq
  <2>6. \A i \in 1..4 : sub[i] = mask[i]
    BY <2>4
  <2>7. QED
    BY <2>2, <2>3, <2>4, <2>5, <2>6, SeqEqual
<1>2. ASSUME NEW i \in 1..n
      PROVE  Unmask(mask, i - 1, f[at + 4 + i]) = payload[i]
  <2>1. PICK k : k = ((i - 1) % 4) + 1
    OBVIOUS
  <2>2. k \in 1..4
    BY <2>1, SMT
  <2>3. mask[k] \in 0..255 /\ payload[i] \in 0..255
    BY <2>2
  <2>4. f[at + 4 + i] = Xor(payload[i], mask[k])
    BY <2>1
  <2>5. Unmask(mask, i - 1, f[at + 4 + i]) = Xor(f[at + 4 + i], mask[k])
    BY <2>1, Zenon DEF Unmask
  <2>6. Xor(Xor(payload[i], mask[k]), mask[k]) = payload[i]
    BY <2>3, XorTwice, ZenonT(30)
  <2>7. QED
    BY <2>4, <2>5, <2>6, Zenon
<1>3. FromRead(f) = at + 4 /\ Len(f) - (at + 4) = n
  BY DEF FromRead
<1>4. PayloadRead(f) = [i \in 1..n |-> Unmask(mask, i - 1, f[at + 4 + i])]
  BY <1>1, <1>3, Zenon DEF PayloadRead
<1>5. QED
  BY <1>2, <1>4

(* The exclusive or of bytes is a byte. *)
LEMMA PayloadMasked ==
    ASSUME NEW n \in Nat, NEW payload \in [1..n -> 0..255], NEW mask \in [1..4 -> 0..255]
    PROVE  /\ Masked(payload, mask) \in Seq(Int) /\ Len(Masked(payload, mask)) = n
           /\ \A i \in 1..n : Masked(payload, mask)[i]
                               = Xor(payload[i], mask[((i - 1) % 4) + 1])
<1>0. PICK masked : masked = Masked(payload, mask)
  OBVIOUS
<1>1. ASSUME NEW i \in 1..n
      PROVE  Xor(payload[i], mask[((i - 1) % 4) + 1]) \in Int
  <2>1. PICK k : k = ((i - 1) % 4) + 1
    OBVIOUS
  <2>2. k \in 1..4
    BY <2>1, SMT
  <2>3. mask[k] \in 0..255 /\ payload[i] \in 0..255
    BY <2>2
  <2>4. PICK x : x = Xor(payload[i], mask[k])
    OBVIOUS
  <2>5. x \in 0..255
    BY <2>3, <2>4, XorTwice
  <2>6. x \in Int
    BY <2>5
  <2>7. QED
    BY <2>1, <2>4, <2>6, Zenon
<1>2. DOMAIN payload = 1..n
  OBVIOUS
<1>3. masked = [i \in 1..n |-> Xor(payload[i], mask[((i - 1) % 4) + 1])]
  BY <1>0, <1>2, Zenon DEF Masked
<1>4. masked \in [1..n -> Int]
  BY <1>1, <1>3
<1>5. masked \in Seq(Int) /\ Len(masked) = n
  BY <1>4, FunctionIsSeq
<1>6. QED
  BY <1>0, <1>3, <1>5

(* The payload of a test frame: bytes, and of a short one all of them. *)
LEMMA PayloadBytes ==
    ASSUME NEW len \in Nat
    PROVE  \E n \in Nat : /\ Payload(len) \in [1..n -> 0..255]
                          /\ len <= 125 => n = len
<1>1. PICK n : n = Least(len, 200)
  OBVIOUS
<1>2. n \in Nat /\ (len <= 125 => n = len)
  BY <1>1 DEF Least
<1>3. \A i \in 1..n : (7 * i) % 256 \in 0..255
  BY <1>2, SMT
<1>4. Payload(len) \in [1..n -> 0..255]
  BY <1>1, <1>3, ZenonT(30) DEF Payload
<1>5. QED
  BY <1>2, <1>4

(* The server reads the frame that a browser sends, unmasked, or refuses it *)
(* because of its length.                                                   *)
LEMMA ServerReadsFrame ==
    ASSUME NEW len \in Nat, len <= MaxLength, NEW mask \in [1..4 -> 0..255],
           NEW opcode \in 0..15, NEW f, f = BrowserFrame(opcode, len, mask)
    PROVE  /\ len > MaxPayload => RecvFrame(f) = [ok |-> FALSE]
           /\ ~(len > MaxPayload) =>
                RecvFrame(f) = [ok |-> TRUE, opcode |-> opcode, len |-> len,
                                payload |-> Payload(len)]
           /\ FarRefused(f, len)
<1>1. PICK h : h = TextHeader(len)
  OBVIOUS
<1>2. /\ h \in Seq(Int) /\ h[1] = 129
      /\ ShortForm(h, len) \/ MiddleForm(h, len) \/ LongForm(h, len)
  BY <1>1, HeaderForms
<1>3. Len(h) \in Nat /\ Len(h) >= 2 /\ h[2] \in Int
  <2>1. CASE ShortForm(h, len)
    BY <2>1 DEF ShortForm
  <2>2. CASE MiddleForm(h, len)
    BY <2>2 DEF MiddleForm
  <2>3. CASE LongForm(h, len)
    BY <2>3 DEF LongForm
  <2>4. QED
    BY <1>2, <2>1, <2>2, <2>3
<1>4. PICK n \in Nat : Payload(len) \in [1..n -> 0..255]
  BY PayloadBytes
<1>5. PICK head : head = [h EXCEPT ![1] = 128 + opcode, ![2] = @ + 128]
  OBVIOUS
<1>6. /\ head \in Seq(Int) /\ Len(head) = Len(h)
      /\ head[1] = 128 + opcode /\ head[2] = h[2] + 128
      /\ \A i \in 3..Len(h) : head[i] = h[i]
  BY <1>2, <1>3, <1>5, HeaderMasked
<1>7. PICK masked : masked = Masked(Payload(len), mask)
  OBVIOUS
<1>8. /\ masked \in Seq(Int) /\ Len(masked) = n
      /\ \A i \in 1..n : masked[i] = Xor(Payload(len)[i], mask[((i - 1) % 4) + 1])
  BY <1>4, <1>7, PayloadMasked, ZenonT(30)
<1>9. f = Frame(head, mask, masked)
  BY <1>1, <1>5, <1>7, Zenon DEF BrowserFrame, Frame
<1>10. mask \in Seq(Int) /\ Len(mask) = 4
  BY MaskIsSeq
<1>11. /\ Len(f) = Len(h) + 4 + n
       /\ \A i \in 1..Len(h) : f[i] = head[i]
       /\ \A i \in 1..4 : f[Len(h) + i] = mask[i]
       /\ \A i \in 1..n : f[Len(h) + 4 + i] = masked[i]
  <2>1. Parts(f, head, mask, masked)
    BY <1>6, <1>8, <1>9, <1>10, FrameParts
  <2>2. QED
    BY <1>6, <1>8, <1>10, <2>1, ZenonT(30) DEF Parts
<1>12. f[1] = 128 + opcode /\ f[2] = h[2] + 128 /\ \A i \in 3..Len(h) : f[i] = h[i]
  <2>1. 1 \in 1..Len(h) /\ 2 \in 1..Len(h) /\ \A i \in 3..Len(h) : i \in 1..Len(h)
    BY <1>3
  <2>2. QED
    BY <1>6, <1>11, <2>1, Zenon
<1>13. f[2] >= 128 /\ HeadRead(f) = Len(h) /\ LenRead(f) = len /\ ~HugeRead(f)
  BY <1>2, <1>12, HeaderRead
<1>14. PayloadRead(f) = Payload(len)
  <2>1. \A i \in 1..n : f[Len(h) + 4 + i] = Xor(Payload(len)[i], mask[((i - 1) % 4) + 1])
    BY <1>8, <1>11, Zenon
  <2>2. Len(h) \in Nat /\ Len(f) = Len(h) + 4 + n
    BY <1>3, <1>11, Zenon
  <2>3. \A i \in 1..4 : f[Len(h) + i] = mask[i]
    BY <1>11, Zenon
  <2>4. Holds(f, Len(h), n, mask, Payload(len))
    BY <1>4, <1>13, <2>1, <2>2, <2>3, Zenon DEF Holds
  <2>5. QED
    BY <2>4, PayloadUnmasked
<1>15. f[1] % 16 = opcode
  BY <1>12, SMT
<1>16. FarRefused(f, len)
  <2>1. Eight(len) => h[2] = 127 /\ Len(h) = 10
    BY <1>2 DEF ShortForm, MiddleForm, LongForm, Eight
  <2>2. f \in Seq(Int)
    <3>1. head \in Seq(Int) /\ mask \in Seq(Int) /\ masked \in Seq(Int)
      BY <1>6, <1>8, <1>10
    <3>2. QED
      BY <1>9, <3>1, FrameParts
  <2>3. Eight(len) => Len(f) >= 10 /\ f[2] = 255
    <3>1. ASSUME h[2] = 127, Len(h) = 10
          PROVE  Len(f) >= 10 /\ f[2] = 255
      <4>1. Len(f) = Len(h) + 4 + n /\ f[2] = h[2] + 128
        BY <1>11, <1>12
      <4>2. QED
        BY <3>1, <4>1
    <3>2. QED
      BY <2>1, <3>1, Zenon
  <2>4. QED
    BY <2>2, <2>3, FarLengthRefused, Zenon DEF FarRefused
<1>17. len > MaxPayload => RecvFrame(f) = [ok |-> FALSE]
  <2>1. len > MaxPayload => LenRead(f) > MaxPayload
    BY <1>13
  <2>2. QED
    BY <2>1, FrameReceived, Zenon
<1>18. ASSUME ~(len > MaxPayload)
       PROVE  RecvFrame(f) = [ok |-> TRUE, opcode |-> opcode, len |-> len,
                              payload |-> Payload(len)]
  <2>1. ~HugeRead(f) /\ ~(LenRead(f) > MaxPayload)
    BY <1>13, <1>18
  <2>2. RecvFrame(f) = [ok |-> TRUE, opcode |-> f[1] % 16, len |-> LenRead(f),
                        payload |-> PayloadRead(f)]
    BY <2>1, FrameReceived, Zenon
  <2>3. LenRead(f) = len
    BY <1>13
  <2>4. QED
    BY <1>14, <1>15, <2>2, <2>3, Zenon
<1>19. QED
  BY <1>16, <1>17, <1>18, Zenon

(* A ping's payload comes back whole: the pong that carries it is not       *)
(* masked, and read as it was written.                                      *)
LEMMA PongRead ==
    ASSUME NEW n \in Nat, n <= 125, NEW payload \in [1..n -> 0..255]
    PROVE  RecvFrame(ControlFrame(10, payload))
             = [ok |-> TRUE, opcode |-> 10, len |-> n, payload |-> payload]
<1>1. payload \in Seq(0..255) /\ Len(payload) = n /\ n \in Nat
  BY FunctionIsSeq
<1>2. payload \in Seq(Int)
  <2>1. payload \in [1..n -> Int]
    <3>1. DOMAIN payload = 1..n /\ payload = [i \in 1..n |-> payload[i]]
      OBVIOUS
    <3>2. \A i \in 1..n : payload[i] \in 0..255
      OBVIOUS
    <3>3. \A x \in 0..255 : x \in Int
      OBVIOUS
    <3>4. QED
      BY <3>1, <3>2, <3>3, Zenon
  <2>2. QED
    BY <2>1, FunctionIsSeq
<1>3. SubSeq(payload, 1, n) = payload
  BY <1>1, SubSeqFull
<1>4. PICK head : head = <<138, n>>
  OBVIOUS
<1>5. head \in Seq(Int) /\ Len(head) = 2 /\ head[1] = 138 /\ head[2] = n
  BY <1>4
<1>6. PICK f : f = head \o payload
  OBVIOUS
<1>7. ControlFrame(10, payload) = f
  <2>1. 128 + (10 % 16) = 138 /\ ~(n > 125)
    BY SMT
  <2>2. QED
    BY <1>1, <1>3, <1>4, <1>6, <2>1, Zenon DEF ControlFrame
<1>8. /\ Len(f) = 2 + n /\ f[1] = 138 /\ f[2] = n
      /\ \A i \in 1..n : f[2 + i] = payload[i]
  <2>1. /\ Len(f) = Len(head) + Len(payload)
        /\ \A i \in 1..(Len(head) + Len(payload)) :
              f[i] = IF i <= Len(head) THEN head[i] ELSE payload[i - Len(head)]
    <3>1. head \in Seq(Int)
      BY <1>5
    <3>2. QED
      BY <1>2, <1>6, <3>1, ConcatProperties
  <2>2. \A i \in 1..(2 + n) : f[i] = IF i <= 2 THEN head[i] ELSE payload[i - 2]
    BY <1>1, <1>5, <2>1
  <2>3. f[1] = head[1] /\ f[2] = head[2]
    BY <2>2
  <2>4. ASSUME NEW i \in 1..n PROVE f[2 + i] = payload[i]
    <3>1. PICK k \in Int : k = 2 + i
      OBVIOUS
    <3>2. k \in 1..(2 + n) /\ ~(k <= 2) /\ k - 2 = i
      BY <3>1
    <3>3. f[k] = payload[k - 2]
      BY <2>2, <3>2
    <3>4. QED
      BY <3>1, <3>2, <3>3, Zenon
  <2>5. Len(f) = 2 + n
    BY <1>1, <1>5, <2>1
  <2>6. QED
    BY <1>5, <2>3, <2>4, <2>5
<1>9. ShortRead(f) = n /\ n # 126 /\ n # 127 /\ ~(f[2] >= 128)
  <2>1. n % 128 = n /\ ~(n >= 128)
    BY SMT
  <2>2. QED
    BY <1>8, <2>1 DEF ShortRead
<1>10. HeadRead(f) = 2 /\ LenRead(f) = n /\ FromRead(f) = 2 /\ ~HugeRead(f)
  BY <1>9, Zenon DEF HeadRead, LenRead, FromRead, HugeRead
<1>11. Len(f) - 2 = n
  BY <1>8
<1>12. PayloadRead(f) = [i \in 1..n |-> f[2 + i]]
  BY <1>9, <1>10, <1>11, Zenon DEF PayloadRead
<1>13. PayloadRead(f) = payload
  BY <1>8, <1>12
<1>14. f[1] % 16 = 10
  BY <1>8, SMT
<1>15. ~(n > MaxPayload)
  BY DEF MaxPayload
<1>16. QED
  BY <1>7, <1>10, <1>13, <1>14, <1>15, FrameReceived, Zenon

-----------------------------------------------------------------------------
(* SHA-1 as a stream *)

(* The blocks that a message is cut into, without what is left of it. *)
Block(m, k) == SubSeq(m, 64 * (k - 1) + 1, 64 * k)
Cut(m) == [k \in 1..(Len(m) \div 64) |-> Block(m, k)]

(* The buffer b has the f bytes after the q blocks of the message. *)
Keeps(b, m, q, f) == b \in [1..64 -> Int] /\ \A j \in 1..f : b[j] = m[64 * q + j]

(* What is known of a context that was given the message m. *)
Consumed(ctx, m) ==
    /\ m \in Seq(Int)
    /\ ctx.count = 8 * Len(m)
    /\ ctx.blocks = Cut(m)
    /\ Keeps(ctx.buffer, m, Len(m) \div 64, Len(m) % 64)

(* The message has k blocks. *)
Has(m, k) == m \in Seq(Int) /\ k \in Nat /\ 1 <= k /\ 64 * k <= Len(m)

(* The elements of a block. *)
IsBlock(b, m, k) == /\ b \in Seq(Int) /\ Len(b) = 64
                    /\ \A i \in 1..64 : b[i] = m[64 * (k - 1) + i]

(* A block lies within the message.                                         *)
LEMMA BlockInts ==
    ASSUME NEW m, NEW k, Has(m, k)
    PROVE  IsBlock(Block(m, k), m, k)
<1>0. m \in Seq(Int) /\ k \in Nat /\ 1 <= k /\ 64 * k <= Len(m)
  BY DEF Has
<1>1. PICK a \in Int, b \in Int : a = 64 * (k - 1) + 1 /\ b = 64 * k
  BY <1>0
<1>2. \A i \in a..b : m[i] \in Int
  <2>1. \A i \in a..b : i \in 1..Len(m)
    BY <1>0, <1>1
  <2>2. QED
    BY <1>0, <2>1, ElementOfSeq
<1>3. PICK s : s = SubSeq(m, a, b)
  OBVIOUS
<1>4. /\ s \in Seq(Int) /\ Len(s) = (IF a <= b THEN (b - a) + 1 ELSE 0)
      /\ \A i \in 1..((b - a) + 1) : s[i] = m[(a + i) - 1]
  BY <1>2, <1>3, SubSeqProperties
<1>5. Len(s) = 64 /\ (b - a) + 1 = 64
  BY <1>0, <1>1, <1>4
<1>6. ASSUME NEW i \in 1..64
      PROVE  s[i] = m[64 * (k - 1) + i]
  <2>1. s[i] = m[(a + i) - 1]
    BY <1>4, <1>5
  <2>2. (a + i) - 1 = 64 * (k - 1) + i
    BY <1>0, <1>1
  <2>3. QED
    BY <2>1, <2>2
<1>7. Block(m, k) = s
  BY <1>1, <1>3, Zenon DEF Block
<1>8. IsBlock(s, m, k)
  BY <1>4, <1>5, <1>6 DEF IsBlock
<1>9. QED
  BY <1>7, <1>8, Zenon

(* The elements of two sequences one after another. *)
Joins(s, m, data, S) ==
    /\ s \in Seq(S) /\ Len(s) = Len(m) + Len(data)
    /\ \A i \in 1..Len(m) : s[i] = m[i]
    /\ \A i \in 1..Len(data) : s[Len(m) + i] = data[i]

(* A sequence after another.                                                *)
LEMMA Joined ==
    ASSUME NEW S, NEW m \in Seq(S), NEW data \in Seq(S)
    PROVE  Joins(m \o data, m, data, S)
<1>1. PICK a \in Nat, b \in Nat : a = Len(m) /\ b = Len(data)
  BY LenProperties
<1>2. PICK s : s = m \o data
  OBVIOUS
<1>3. /\ s \in Seq(S) /\ Len(s) = a + b
      /\ \A i \in 1..(a + b) : s[i] = IF i <= a THEN m[i] ELSE data[i - a]
  BY <1>1, <1>2, ConcatProperties
<1>4. \A i \in 1..a : s[i] = m[i]
  BY <1>3
<1>5. ASSUME NEW i \in 1..b PROVE s[a + i] = data[i]
  <2>1. PICK k \in Int : k = a + i
    OBVIOUS
  <2>2. k \in 1..(a + b) /\ ~(k <= a) /\ k - a = i
    BY <2>1
  <2>3. s[k] = data[k - a]
    BY <1>3, <2>2
  <2>4. QED
    BY <2>1, <2>2, <2>3, Zenon
<1>6. QED
  BY <1>1, <1>2, <1>3, <1>4, <1>5, Zenon DEF Joins

(* A message with more data after it.                                       *)
LEMMA Extended ==
    ASSUME NEW m \in Seq(Int), NEW data \in Seq(Int)
    PROVE  /\ m \o data \in Seq(Int) /\ Len(m \o data) = Len(m) + Len(data)
           /\ \A i \in 1..Len(m) : (m \o data)[i] = m[i]
           /\ \A i \in 1..Len(data) : (m \o data)[Len(m) + i] = data[i]
<1>1. Joins(m \o data, m, data, Int)
  BY Joined, Zenon
<1>2. QED
  BY <1>1, Zenon DEF Joins

(* The blocks of a message stay what they are when more data comes.         *)
LEMMA OldBlock ==
    ASSUME NEW m, NEW k, Has(m, k), NEW data \in Seq(Int)
    PROVE  Block(m \o data, k) = Block(m, k)
<1>0. m \in Seq(Int) /\ k \in Nat /\ 1 <= k /\ 64 * k <= Len(m)
  BY DEF Has
<1>1. PICK s : s = m \o data
  OBVIOUS
<1>2. s \in Seq(Int) /\ Len(s) = Len(m) + Len(data) /\ \A i \in 1..Len(m) : s[i] = m[i]
  BY <1>0, <1>1, Extended
<1>3. Len(data) \in Nat /\ Len(m) \in Nat
  BY <1>0, LenProperties
<1>4. Has(s, k)
  BY <1>0, <1>2, <1>3 DEF Has
<1>5. PICK x : x = Block(s, k)
  OBVIOUS
<1>6. x \in Seq(Int) /\ Len(x) = 64 /\ \A i \in 1..64 : x[i] = s[64 * (k - 1) + i]
  <2>1. IsBlock(x, s, k)
    BY <1>4, <1>5, BlockInts, Zenon
  <2>2. QED
    BY <2>1 DEF IsBlock
<1>7. PICK y : y = Block(m, k)
  OBVIOUS
<1>8. y \in Seq(Int) /\ Len(y) = 64 /\ \A i \in 1..64 : y[i] = m[64 * (k - 1) + i]
  <2>1. IsBlock(y, m, k)
    BY <1>7, BlockInts, Zenon
  <2>2. QED
    BY <2>1 DEF IsBlock
<1>9. \A i \in 1..64 : 64 * (k - 1) + i \in 1..Len(m)
  BY <1>0, <1>3
<1>10. \A i \in 1..64 : x[i] = y[i]
  <2>1. ASSUME NEW i \in 1..64
        PROVE  x[i] = y[i]
    <3>1. PICK n \in 1..Len(m) : n = 64 * (k - 1) + i
      BY <1>9
    <3>2. x[i] = s[n] /\ y[i] = m[n] /\ s[n] = m[n]
      BY <1>2, <1>6, <1>8, <3>1
    <3>3. QED
      BY <3>2
  <2>2. QED
    BY <2>1
<1>11. x = y
  <2>1. Len(x) = Len(y) /\ \A i \in 1..Len(x) : x[i] = y[i]
    BY <1>6, <1>8, <1>10, Zenon
  <2>2. QED
    BY <1>6, <1>8, <2>1, SeqEqual
<1>12. QED
  BY <1>1, <1>5, <1>7, <1>11, Zenon

(* A sequence of integers has n of them after the first a. *)
Reaches(s, a, n) == s \in Seq(Int) /\ a \in Nat /\ n \in Nat /\ a + n <= Len(s)

(* The elements of a slice. *)
IsSlice(t, s, a, n) == /\ t \in Seq(Int) /\ Len(t) = n
                       /\ \A i \in 1..n : t[i] = s[a + i]

(* A slice of integers.                                                     *)
LEMMA Slice ==
    ASSUME NEW s, NEW a, NEW n, Reaches(s, a, n)
    PROVE  IsSlice(SubSeq(s, a + 1, a + n), s, a, n)
<1>0. s \in Seq(Int) /\ a \in Nat /\ n \in Nat /\ a + n <= Len(s)
  BY DEF Reaches
<1>1. PICK c \in Int, d \in Int : c = a + 1 /\ d = a + n
  BY <1>0
<1>2. \A i \in c..d : s[i] \in Int
  <2>1. \A i \in c..d : i \in 1..Len(s)
    BY <1>0, <1>1
  <2>2. QED
    BY <1>0, <2>1, ElementOfSeq
<1>3. PICK t : t = SubSeq(s, c, d)
  OBVIOUS
<1>4. /\ t \in Seq(Int) /\ Len(t) = (IF c <= d THEN (d - c) + 1 ELSE 0)
      /\ \A i \in 1..((d - c) + 1) : t[i] = s[(c + i) - 1]
  BY <1>2, <1>3, SubSeqProperties
<1>5. Len(t) = n /\ (d - c) + 1 = n
  BY <1>0, <1>1, <1>4
<1>6. ASSUME NEW i \in 1..n
      PROVE  t[i] = s[a + i]
  <2>1. t[i] = s[(c + i) - 1]
    BY <1>4, <1>5
  <2>2. (c + i) - 1 = a + i
    BY <1>0, <1>1
  <2>3. QED
    BY <2>1, <2>2
<1>7. IsSlice(t, s, a, n)
  BY <1>4, <1>5, <1>6 DEF IsSlice
<1>8. QED
  BY <1>1, <1>3, <1>7, Zenon

(* The first n integers. *)
LEMMA FirstSlice ==
    ASSUME NEW s \in Seq(Int), NEW n \in Nat, n <= Len(s)
    PROVE  /\ SubSeq(s, 1, n) \in Seq(Int) /\ Len(SubSeq(s, 1, n)) = n
           /\ \A i \in 1..n : SubSeq(s, 1, n)[i] = s[i]
<1>1. PICK z \in Nat : z = 0
  OBVIOUS
<1>2. z + 1 = 1 /\ z + n = n /\ \A i \in 1..n : z + i = i
  BY <1>1
<1>3. Reaches(s, z, n)
  BY <1>2 DEF Reaches
<1>4. IsSlice(SubSeq(s, z + 1, z + n), s, z, n)
  BY <1>3, Slice, Zenon
<1>5. PICK t : t = SubSeq(s, z + 1, z + n)
  OBVIOUS
<1>6. t = SubSeq(s, 1, n)
  BY <1>2, <1>5
<1>7. t \in Seq(Int) /\ Len(t) = n /\ \A i \in 1..n : t[i] = s[i]
  BY <1>2, <1>4, <1>5, Zenon DEF IsSlice
<1>8. QED
  BY <1>6, <1>7, Zenon

(* A message of q blocks and f more bytes, and more data. *)
Ready(m, q, f, data) == /\ m \in Seq(Int) /\ q \in Nat /\ f \in Nat /\ f <= 63
                        /\ Len(m) = 64 * q + f /\ data \in Seq(Int)

(* There is enough data to fill up the buffer. *)
Fills(data, f) == 64 - f <= Len(data)

(* The next block of the message is in the buffer and in the data. *)
Filled(b, m, q, f, data) ==
    SubSeq(b, 1, f) \o SubSeq(data, 1, 64 - f) = Block(m \o data, q + 1)

(* The buffer, filled up with data, is the next block.                      *)
LEMMA FilledBlock ==
    ASSUME NEW m, NEW q, NEW f, NEW data, Ready(m, q, f, data),
           NEW b, Keeps(b, m, q, f), Fills(data, f)
    PROVE  Filled(b, m, q, f, data)
<1>0. /\ m \in Seq(Int) /\ q \in Nat /\ f \in Nat /\ f <= 63
      /\ Len(m) = 64 * q + f /\ data \in Seq(Int)
  BY DEF Ready
<1>1. PICK x : x = SubSeq(b, 1, f)
  OBVIOUS
<1>2. PICK p \in Nat : p = 64 - f /\ p <= Len(data)
  <2>1. 64 - f \in Nat
    BY <1>0
  <2>2. QED
    BY <2>1 DEF Fills
<1>3. PICK y : y = SubSeq(data, 1, p)
  OBVIOUS
<1>4. x \in Seq(Int) /\ Len(x) = f /\ \A i \in 1..f : x[i] = b[i]
  <2>1. PICK n \in Nat : n = 64
    OBVIOUS
  <2>2. b \in Seq(Int) /\ Len(b) = n
    <3>1. b \in [1..n -> Int]
      BY <2>1, Zenon DEF Keeps
    <3>2. QED
      BY <3>1, FunctionIsSeq, Zenon
  <2>3. f <= Len(b)
    BY <1>0, <2>1, <2>2
  <2>4. QED
    BY <1>0, <1>1, <2>2, <2>3, FirstSlice
<1>5. y \in Seq(Int) /\ Len(y) = p /\ \A i \in 1..p : y[i] = data[i]
  BY <1>0, <1>2, <1>3, FirstSlice
<1>6. PICK xy : xy = x \o y
  OBVIOUS
<1>7. /\ xy \in Seq(Int) /\ Len(xy) = f + p
      /\ \A i \in 1..f : xy[i] = x[i]
      /\ \A i \in 1..p : xy[f + i] = y[i]
  BY <1>4, <1>5, <1>6, Extended
<1>8. PICK s : s = m \o data
  OBVIOUS
<1>9. /\ s \in Seq(Int) /\ Len(s) = Len(m) + Len(data)
      /\ \A i \in 1..Len(m) : s[i] = m[i]
      /\ \A i \in 1..Len(data) : s[Len(m) + i] = data[i]
  BY <1>0, <1>8, Extended
<1>10. PICK k \in Nat : k = q + 1 /\ 64 * (k - 1) = 64 * q
  BY <1>0
<1>11. PICK z : z = Block(s, k)
  OBVIOUS
<1>12. z \in Seq(Int) /\ Len(z) = 64 /\ \A i \in 1..64 : z[i] = s[64 * q + i]
  <2>1. Len(data) \in Nat /\ Len(m) = 64 * q + f
    BY <1>0, LenProperties
  <2>2. 64 * k <= Len(s) /\ 1 <= k
    BY <1>0, <1>2, <1>9, <1>10, <2>1
  <2>3. Has(s, k)
    BY <1>9, <2>2 DEF Has
  <2>4. IsBlock(z, s, k)
    BY <1>11, <2>3, BlockInts, Zenon
  <2>5. QED
    BY <1>10, <2>4 DEF IsBlock
<1>13. ASSUME NEW i \in 1..64
       PROVE  xy[i] = z[i]
  <2>0. z[i] = s[64 * q + i]
    BY <1>12
  <2>1. CASE i <= f
    <3>1. i \in 1..f /\ 64 * q + i \in 1..Len(m)
      BY <1>0, <2>1
    <3>2. xy[i] = x[i] /\ x[i] = b[i] /\ b[i] = m[64 * q + i] /\ s[64 * q + i] = m[64 * q + i]
      BY <1>4, <1>7, <1>9, <3>1, Zenon DEF Keeps
    <3>3. QED
      BY <2>0, <3>2, Zenon
  <2>2. CASE ~(i <= f)
    <3>1. PICK n \in 1..p : n = i - f
      BY <1>0, <1>2, <2>2
    <3>2. f + n = i /\ Len(m) + n = 64 * q + i /\ n \in 1..Len(data)
      BY <1>0, <1>2, <3>1
    <3>3. xy[f + n] = y[n] /\ y[n] = data[n] /\ s[Len(m) + n] = data[n]
      BY <1>5, <1>7, <1>9, <3>1, <3>2, Zenon
    <3>4. QED
      BY <2>0, <3>2, <3>3, Zenon
  <2>3. QED
    BY <2>1, <2>2
<1>14. Len(xy) = 64
  BY <1>0, <1>2, <1>7
<1>15. xy = z
  BY <1>7, <1>12, <1>13, <1>14, SeqEqual
<1>16. QED
  BY <1>1, <1>2, <1>3, <1>6, <1>8, <1>10, <1>11, <1>15, Zenon DEF Filled

(* There is enough data for k blocks after it has filled up the buffer. *)
Covers(data, f, k) == k \in Nat /\ 1 <= k /\ (64 - f) + 64 * k <= Len(data)

(* A further block of the message is in the data. *)
Direct(m, q, f, data, k) ==
    SubSeq(data, (64 - f) + 64 * (k - 1) + 1, (64 - f) + 64 * k) = Block(m \o data, q + 1 + k)

(* A whole block within data is a block of the message.                     *)
LEMMA DirectBlock ==
    ASSUME NEW m, NEW q, NEW f, NEW data, Ready(m, q, f, data),
           NEW k, Covers(data, f, k)
    PROVE  Direct(m, q, f, data, k)
<1>0. /\ m \in Seq(Int) /\ q \in Nat /\ f \in Nat /\ f <= 63
      /\ Len(m) = 64 * q + f /\ data \in Seq(Int)
      /\ k \in Nat /\ 1 <= k /\ (64 - f) + 64 * k <= Len(data)
  BY DEF Ready, Covers
<1>1. PICK a \in Nat : a = (64 - f) + 64 * (k - 1)
  <2>1. (64 - f) + 64 * (k - 1) \in Nat
    BY <1>0
  <2>2. QED
    BY <2>1
<1>2. /\ a + 1 = (64 - f) + 64 * (k - 1) + 1 /\ a + 64 = (64 - f) + 64 * k
      /\ a + 64 <= Len(data)
  BY <1>0, <1>1
<1>3. PICK x : x = SubSeq(data, a + 1, a + 64)
  OBVIOUS
<1>4. x \in Seq(Int) /\ Len(x) = 64 /\ \A i \in 1..64 : x[i] = data[a + i]
  <2>1. PICK n \in Nat : n = 64
    OBVIOUS
  <2>2. Reaches(data, a, n)
    BY <1>0, <1>2, <2>1 DEF Reaches
  <2>3. IsSlice(SubSeq(data, a + 1, a + n), data, a, n)
    BY <2>2, Slice, Zenon
  <2>4. QED
    BY <1>3, <2>1, <2>3 DEF IsSlice
<1>5. PICK s : s = m \o data
  OBVIOUS
<1>6. /\ s \in Seq(Int) /\ Len(s) = Len(m) + Len(data)
      /\ \A i \in 1..Len(data) : s[Len(m) + i] = data[i]
  BY <1>0, <1>5, Extended
<1>7. PICK h \in Nat : h = q + 1 + k
  BY <1>0
<1>8. 1 <= h /\ 64 * h <= Len(s) /\ 64 * (h - 1) = Len(m) + a
  BY <1>0, <1>1, <1>6, <1>7
<1>9. PICK z : z = Block(s, h)
  OBVIOUS
<1>10. z \in Seq(Int) /\ Len(z) = 64 /\ \A i \in 1..64 : z[i] = s[64 * (h - 1) + i]
  <2>1. Has(s, h)
    BY <1>6, <1>8 DEF Has
  <2>2. IsBlock(z, s, h)
    BY <1>9, <2>1, BlockInts, Zenon
  <2>3. QED
    BY <2>2 DEF IsBlock
<1>11. ASSUME NEW i \in 1..64
       PROVE  x[i] = z[i]
  <2>1. PICK j \in 1..Len(data) : j = a + i
    BY <1>0, <1>2
  <2>2. Len(m) + j = 64 * (h - 1) + i
    BY <1>0, <1>8, <2>1
  <2>3. s[Len(m) + j] = data[j] /\ z[i] = s[64 * (h - 1) + i] /\ x[i] = data[a + i]
    BY <1>4, <1>6, <1>10, Zenon
  <2>4. QED
    BY <2>1, <2>2, <2>3, Zenon
<1>12. x = z
  BY <1>4, <1>10, <1>11, SeqEqual
<1>13. QED
  BY <1>2, <1>3, <1>5, <1>7, <1>9, <1>12, Zenon DEF Direct

-----------------------------------------------------------------------------
(* sha1_update *)

PartOf(ctx) == 64 - Fill(ctx)
Flushes(ctx, data) == Len(data) >= PartOf(ctx)
MoreOf(ctx, data) ==
    IF Flushes(ctx, data)
    THEN Cardinality({k \in 0..Len(data) : PartOf(ctx) + 64 * k + 63 < Len(data)}) ELSE 0
UsedOf(ctx, data) ==
    IF Flushes(ctx, data) THEN PartOf(ctx) + 64 * MoreOf(ctx, data) ELSE 0
AtOf(ctx, data) == IF Flushes(ctx, data) THEN 0 ELSE Fill(ctx)
BufferOf(ctx, data) ==
    IF Flushes(ctx, data)
    THEN SubSeq(ctx.buffer, 1, Fill(ctx)) \o SubSeq(data, 1, PartOf(ctx)) ELSE ctx.buffer
MidOf(ctx, data) == IF Flushes(ctx, data) THEN <<BufferOf(ctx, data)>> ELSE <<>>
DirectOf(ctx, data) ==
    [k \in 1..MoreOf(ctx, data) |->
       SubSeq(data, PartOf(ctx) + 64 * (k - 1) + 1, PartOf(ctx) + 64 * k)]
KeptOf(ctx, data) ==
    [j \in 1..64 |->
       IF j \in (AtOf(ctx, data) + 1)..(AtOf(ctx, data) + Len(data) - UsedOf(ctx, data))
       THEN data[UsedOf(ctx, data) + j - AtOf(ctx, data)] ELSE BufferOf(ctx, data)[j]]

(* The context that sha1_update makes, field by field.                      *)
LEMMA UpdateFields ==
    ASSUME NEW ctx, NEW data
    PROVE  Sha1Update(ctx, data)
             = [blocks |-> ctx.blocks \o MidOf(ctx, data) \o DirectOf(ctx, data),
                count |-> ctx.count + 8 * Len(data), buffer |-> KeptOf(ctx, data)]
  BY Zenon DEF Sha1Update, PartOf, Flushes, MoreOf, UsedOf, AtOf, BufferOf, MidOf,
               DirectOf, KeptOf

(* As many blocks of 64 as fit.                                             *)
LEMMA WholeBlocks ==
    ASSUME NEW p \in Nat, NEW len \in Nat, p <= len
    PROVE  \E g, r \in Nat : /\ len = p + 64 * g + r /\ r <= 63
                             /\ Cardinality({k \in 0..len : p + 64 * k + 63 < len}) = g
<1>1. PICK d \in Nat : d = len - p
  OBVIOUS
<1>2. PICK g \in Nat : g = d \div 64
  BY SMT
<1>3. PICK r \in Nat : r = d % 64
  BY SMT
<1>4. d = 64 * g + r /\ r <= 63
  BY <1>2, <1>3, SMT
<1>5. {k \in 0..len : p + 64 * k + 63 < len} = 0..(g - 1)
  <2>1. ASSUME NEW k
        PROVE  (k \in 0..len /\ p + 64 * k + 63 < len) <=> k \in 0..(g - 1)
    BY <1>1, <1>4
  <2>2. QED
    BY <2>1
<1>6. Cardinality(0..(g - 1)) = g
  <2>1. g - 1 \in Int /\ 0 \in Int
    OBVIOUS
  <2>2. Cardinality(0..(g - 1)) = IF 0 > g - 1 THEN 0 ELSE ((g - 1) - 0) + 1
    BY <2>1, FS_Interval
  <2>3. QED
    BY <2>2
<1>7. len = p + 64 * g + r
  BY <1>1, <1>4
<1>8. QED
  BY <1>4, <1>5, <1>6, <1>7

(* The blocks of a message are sequences of integers.                       *)
LEMMA CutBlocks ==
    ASSUME NEW m \in Seq(Int), NEW q \in Nat, NEW f \in Nat, f <= 63, Len(m) = 64 * q + f
    PROVE  /\ Cut(m) \in Seq(Seq(Int)) /\ Len(Cut(m)) = q
           /\ \A k \in 1..q : Cut(m)[k] = Block(m, k)
<1>1. Len(m) \div 64 = q
  BY SMT
<1>2. PICK c : c = Cut(m)
  OBVIOUS
<1>3. c = [k \in 1..q |-> Block(m, k)]
  BY <1>1, <1>2 DEF Cut
<1>4. ASSUME NEW k \in 1..q PROVE Block(m, k) \in Seq(Int)
  <2>1. Has(m, k)
    BY DEF Has
  <2>2. IsBlock(Block(m, k), m, k)
    BY <2>1, BlockInts, Zenon
  <2>3. QED
    BY <2>2 DEF IsBlock
<1>5. c \in [1..q -> Seq(Int)]
  BY <1>3, <1>4
<1>6. c \in Seq(Seq(Int)) /\ Len(c) = q
  BY <1>5, FunctionIsSeq
<1>7. QED
  BY <1>2, <1>3, <1>6

(* The context has full blocks and r more bytes once it has got the data. *)
After(ctx, m, data, full, r) ==
    /\ r \in 0..63 /\ Len(m) + Len(data) = 64 * full + r
    /\ ctx.blocks \o MidOf(ctx, data) \o DirectOf(ctx, data) = Cut(m \o data)
    /\ Keeps(KeptOf(ctx, data), m \o data, full, r)

(* What the buffer and the data hold is whole: the context of the message   *)
(* with the data after it.                                                  *)
LEMMA UpdatedFull ==
    ASSUME NEW ctx, NEW m, NEW q, NEW f, NEW data, Ready(m, q, f, data),
           Keeps(ctx.buffer, m, q, f), Fills(data, f), Fill(ctx) = f, ctx.blocks = Cut(m)
    PROVE  \E full, r \in Nat : After(ctx, m, data, full, r)
<1>0. /\ m \in Seq(Int) /\ q \in Nat /\ f \in Nat /\ f <= 63
      /\ Len(m) = 64 * q + f /\ data \in Seq(Int) /\ 64 - f <= Len(data)
  BY DEF Ready, Fills
<1>1. PICK p \in Nat : p = 64 - f
  <2>1. 64 - f \in Nat
    BY <1>0
  <2>2. QED
    BY <2>1
<1>2. PartOf(ctx) = p /\ Flushes(ctx, data)
  BY <1>0, <1>1 DEF PartOf, Flushes
<1>3. PICK g \in Nat, r \in Nat :
        /\ Len(data) = p + 64 * g + r /\ r <= 63
        /\ Cardinality({k \in 0..Len(data) : p + 64 * k + 63 < Len(data)}) = g
  <2>1. Len(data) \in Nat /\ p <= Len(data)
    BY <1>0, <1>1, LenProperties
  <2>2. QED
    BY <2>1, WholeBlocks, ZenonT(30)
<1>4. MoreOf(ctx, data) = g
  BY <1>2, <1>3 DEF MoreOf
<1>5. UsedOf(ctx, data) = p + 64 * g /\ AtOf(ctx, data) = 0
  BY <1>2, <1>4 DEF UsedOf, AtOf
<1>6. PICK s : s = m \o data
  OBVIOUS
<1>7. /\ s \in Seq(Int) /\ Len(s) = Len(m) + Len(data)
      /\ \A i \in 1..Len(data) : s[Len(m) + i] = data[i]
  BY <1>0, <1>6, Extended
<1>8. PICK next : next = Block(s, q + 1)
  OBVIOUS
<1>9. BufferOf(ctx, data) = next
  <2>1. Filled(ctx.buffer, m, q, f, data)
    BY FilledBlock, Zenon
  <2>2. BufferOf(ctx, data) = SubSeq(ctx.buffer, 1, f) \o SubSeq(data, 1, p)
    BY <1>2 DEF BufferOf
  <2>3. QED
    BY <1>1, <1>6, <1>8, <2>1, <2>2, Zenon DEF Filled
<1>10. PICK full \in Nat : full = q + 1 + g /\ Len(s) = 64 * full + r
  BY <1>0, <1>1, <1>3, <1>7
<1>11. PICK c : c = Cut(s)
  OBVIOUS
<1>12. c \in Seq(Seq(Int)) /\ Len(c) = full /\ \A k \in 1..full : c[k] = Block(s, k)
  <2>1. s \in Seq(Int) /\ full \in Nat /\ r \in Nat /\ r <= 63 /\ Len(s) = 64 * full + r
    BY <1>3, <1>7, <1>10, Zenon
  <2>2. /\ Cut(s) \in Seq(Seq(Int)) /\ Len(Cut(s)) = full
        /\ \A k \in 1..full : Cut(s)[k] = Block(s, k)
    BY <2>1, CutBlocks, Zenon
  <2>3. QED
    BY <1>11, <2>2, Zenon
<1>13. PICK old : old = Cut(m)
  OBVIOUS
<1>14. old \in Seq(Seq(Int)) /\ Len(old) = q /\ \A k \in 1..q : old[k] = Block(m, k)
  BY <1>0, <1>13, CutBlocks
<1>15. PICK mid : mid = MidOf(ctx, data)
  OBVIOUS
<1>16. next \in Seq(Int) /\ next \in [1..64 -> Int]
  <2>1. q + 1 \in Nat /\ 1 <= q + 1 /\ 64 * (q + 1) <= Len(s)
    BY <1>0, <1>10
  <2>2. Has(s, q + 1)
    BY <1>7, <2>1 DEF Has
  <2>3. IsBlock(next, s, q + 1)
    BY <1>8, <2>2, BlockInts, Zenon
  <2>4. next \in Seq(Int) /\ Len(next) = 64
    BY <2>3 DEF IsBlock
  <2>5. next \in [1..Len(next) -> Int]
    BY <2>4, LenProperties
  <2>6. QED
    BY <2>4, <2>5
<1>17. mid \in Seq(Seq(Int)) /\ Len(mid) = 1 /\ mid[1] = next
  <2>1. mid = <<next>>
    BY <1>2, <1>9, <1>15, Zenon DEF MidOf
  <2>2. QED
    BY <1>16, <2>1
<1>18. PICK direct : direct = DirectOf(ctx, data)
  OBVIOUS
<1>19. /\ direct \in Seq(Seq(Int)) /\ Len(direct) = g
       /\ \A k \in 1..g : direct[k] = Block(s, q + 1 + k)
  <2>1. direct = [k \in 1..g |-> SubSeq(data, p + 64 * (k - 1) + 1, p + 64 * k)]
    BY <1>2, <1>4, <1>18, Zenon DEF DirectOf
  <2>2. ASSUME NEW k \in 1..g
        PROVE  /\ direct[k] = Block(s, q + 1 + k)
               /\ direct[k] \in Seq(Int)
    <3>1. Covers(data, f, k)
      BY <1>0, <1>1, <1>3 DEF Covers
    <3>2. Direct(m, q, f, data, k)
      BY <3>1, DirectBlock, Zenon
    <3>3. direct[k] = SubSeq(data, p + 64 * (k - 1) + 1, p + 64 * k)
      BY <2>1
    <3>4. direct[k] = Block(s, q + 1 + k)
      BY <1>1, <1>6, <3>2, <3>3, Zenon DEF Direct
    <3>5. PICK h \in 1..full : h = q + 1 + k
      <4>1. q + 1 + k \in 1..full
        BY <1>0, <1>10
      <4>2. QED
        BY <4>1
    <3>6. c[h] \in Seq(Int) /\ c[h] = Block(s, h)
      BY <1>12, <3>5, ElementOfSeq
    <3>7. QED
      BY <3>4, <3>5, <3>6, Zenon
  <2>3. direct \in [1..g -> Seq(Int)]
    BY <2>1, <2>2
  <2>4. direct \in Seq(Seq(Int)) /\ Len(direct) = g
    BY <2>3, FunctionIsSeq
  <2>5. QED
    BY <2>2, <2>4
<1>20. PICK front : front = old \o mid
  OBVIOUS
<1>21. /\ front \in Seq(Seq(Int)) /\ Len(front) = q + 1
       /\ \A k \in 1..q : front[k] = old[k]
       /\ front[q + 1] = next
  <2>1. Joins(front, old, mid, Seq(Int))
    BY <1>14, <1>17, <1>20, Joined, Zenon
  <2>2. front \in Seq(Seq(Int)) /\ Len(front) = q + 1
    BY <1>0, <1>14, <1>17, <2>1 DEF Joins
  <2>3. \A k \in 1..q : front[k] = old[k]
    BY <1>14, <2>1 DEF Joins
  <2>4. front[q + 1] = mid[1]
    BY <1>14, <1>17, <2>1 DEF Joins
  <2>5. QED
    BY <1>17, <2>2, <2>3, <2>4
<1>22. PICK all : all = front \o direct
  OBVIOUS
<1>23. /\ all \in Seq(Seq(Int)) /\ Len(all) = full
       /\ \A k \in 1..(q + 1) : all[k] = front[k]
       /\ \A k \in 1..g : all[q + 1 + k] = direct[k]
  <2>1. Joins(all, front, direct, Seq(Int))
    BY <1>19, <1>21, <1>22, Joined, Zenon
  <2>2. all \in Seq(Seq(Int)) /\ Len(all) = full
    BY <1>10, <1>19, <1>21, <2>1 DEF Joins
  <2>3. \A k \in 1..(q + 1) : all[k] = front[k]
    BY <1>21, <2>1 DEF Joins
  <2>4. \A k \in 1..g : all[q + 1 + k] = direct[k]
    BY <1>19, <1>21, <2>1 DEF Joins
  <2>5. QED
    BY <2>2, <2>3, <2>4
<1>24. ASSUME NEW k \in 1..full
       PROVE  all[k] = c[k]
  <2>0. c[k] = Block(s, k)
    BY <1>12
  <2>1. CASE k <= q
    <3>1. k \in 1..q /\ k \in 1..(q + 1)
      BY <1>0, <2>1
    <3>2. all[k] = Block(m, k)
      BY <1>14, <1>21, <1>23, <3>1, Zenon
    <3>3. Has(m, k)
      BY <1>0, <3>1 DEF Has
    <3>4. Block(m \o data, k) = Block(m, k)
      BY <1>0, <3>3, OldBlock
    <3>5. QED
      BY <1>6, <2>0, <3>2, <3>4, Zenon
  <2>2. CASE k = q + 1
    <3>1. k \in 1..(q + 1)
      BY <1>0, <2>2
    <3>2. QED
      BY <1>8, <1>21, <1>23, <2>0, <2>2, <3>1, Zenon
  <2>3. CASE q + 1 < k
    <3>1. PICK i \in 1..g : i = k - (q + 1)
      <4>1. k - (q + 1) \in 1..g
        BY <1>0, <1>10, <2>3
      <4>2. QED
        BY <4>1
    <3>2. q + 1 + i = k
      BY <1>0, <3>1
    <3>3. all[q + 1 + i] = Block(s, q + 1 + i)
      BY <1>19, <1>23, Zenon
    <3>4. QED
      BY <2>0, <3>2, <3>3, Zenon
  <2>4. QED
    BY <1>0, <2>1, <2>2, <2>3
<1>25. all = c
  <2>1. Len(all) = Len(c) /\ \A k \in 1..Len(all) : all[k] = c[k]
    BY <1>12, <1>23, <1>24, Zenon
  <2>2. QED
    BY <1>12, <1>23, <2>1, SeqEqual
<1>26. ctx.blocks \o MidOf(ctx, data) \o DirectOf(ctx, data) = Cut(m \o data)
  BY <1>6, <1>11, <1>13, <1>15, <1>18, <1>20, <1>22, <1>25, Zenon
<1>27. PICK kept : kept = KeptOf(ctx, data)
  OBVIOUS
<1>28. kept = [j \in 1..64 |-> IF j \in 1..r THEN data[p + 64 * g + j] ELSE next[j]]
  <2>1. 0 + 1 = 1 /\ 0 + (Len(data) - (p + 64 * g)) = r
    BY <1>3
  <2>2. \A j \in 1..64 : (p + 64 * g) + (j - 0) = p + 64 * g + j
    OBVIOUS
  <2>3. kept = [j \in 1..64 |-> IF j \in (0 + 1)..(0 + (Len(data) - (p + 64 * g)))
                                THEN data[(p + 64 * g) + (j - 0)] ELSE next[j]]
    BY <1>5, <1>9, <1>27, Zenon DEF KeptOf
  <2>4. QED
    BY <2>1, <2>2, <2>3
<1>29. ASSUME NEW j \in 1..r
       PROVE  kept[j] = s[64 * full + j] /\ kept[j] \in Int
  <2>1. PICK i \in 1..Len(data) : i = p + 64 * g + j
    <3>1. p + 64 * g + j \in 1..Len(data)
      BY <1>3
    <3>2. QED
      BY <3>1
  <2>2. j \in 1..64
    BY <1>3
  <2>3. kept[j] = data[i]
    BY <1>28, <2>1, <2>2
  <2>4. Len(m) + i = 64 * full + j
    BY <1>0, <1>1, <1>10, <2>1
  <2>5. s[Len(m) + i] = data[i] /\ data[i] \in Int
    BY <1>0, <1>7, ElementOfSeq
  <2>6. QED
    BY <2>3, <2>4, <2>5, Zenon
<1>30. kept \in [1..64 -> Int]
  <2>1. ASSUME NEW j \in 1..64
        PROVE  (IF j \in 1..r THEN data[p + 64 * g + j] ELSE next[j]) \in Int
    <3>1. CASE j \in 1..r
      <4>1. kept[j] \in Int /\ kept[j] = data[p + 64 * g + j]
        BY <1>28, <1>29, <3>1
      <4>2. QED
        BY <3>1, <4>1, Zenon
    <3>2. CASE j \notin 1..r
      BY <1>16, <3>2
    <3>3. QED
      BY <3>1, <3>2
  <2>2. QED
    BY <1>28, <2>1
<1>31. Keeps(kept, s, full, r)
  BY <1>29, <1>30, Zenon DEF Keeps
<1>32. Len(m) + Len(data) = 64 * full + r /\ r \in 0..63
  BY <1>3, <1>7, <1>10, SMTT(20)
<1>33. After(ctx, m, data, full, r)
  BY <1>6, <1>26, <1>27, <1>31, <1>32, Zenon DEF After
<1>34. QED
  BY <1>33

(* Data that does not fill up the buffer is kept in it.                     *)
LEMMA UpdatedPart ==
    ASSUME NEW ctx, NEW m, NEW q, NEW f, NEW data, Ready(m, q, f, data),
           Keeps(ctx.buffer, m, q, f), ~Fills(data, f), Fill(ctx) = f, ctx.blocks = Cut(m)
    PROVE  \E full, r \in Nat : After(ctx, m, data, full, r)
<1>0. /\ m \in Seq(Int) /\ q \in Nat /\ f \in Nat /\ f <= 63
      /\ Len(m) = 64 * q + f /\ data \in Seq(Int)
  BY DEF Ready
<1>1. PICK len \in Nat : len = Len(data)
  BY <1>0, LenProperties
<1>2. PICK r \in Nat : r = f + len /\ r <= 63
  <2>1. ~(64 - f <= len)
    BY <1>1, Zenon DEF Fills
  <2>2. f + len \in Nat /\ f + len <= 63
    BY <1>0, <2>1
  <2>3. QED
    BY <2>2
<1>3. ~Flushes(ctx, data)
  BY <1>0, <1>1, <1>2 DEF Flushes, PartOf
<1>4. MoreOf(ctx, data) = 0 /\ UsedOf(ctx, data) = 0 /\ AtOf(ctx, data) = f
  BY <1>3, Zenon DEF MoreOf, UsedOf, AtOf
<1>5. PICK s : s = m \o data
  OBVIOUS
<1>6. /\ s \in Seq(Int) /\ Len(s) = 64 * q + r
      /\ \A i \in 1..Len(m) : s[i] = m[i]
      /\ \A i \in 1..len : s[Len(m) + i] = data[i]
  <2>1. /\ s \in Seq(Int) /\ Len(s) = Len(m) + Len(data)
        /\ \A i \in 1..Len(m) : s[i] = m[i]
        /\ \A i \in 1..Len(data) : s[Len(m) + i] = data[i]
    BY <1>0, <1>5, Extended
  <2>2. Len(s) = (64 * q + f) + len
    BY <1>0, <1>1, <2>1, Zenon
  <2>3. Len(s) = 64 * q + r
    BY <1>0, <1>2, <2>2
  <2>4. QED
    BY <1>1, <2>1, <2>3
<1>7. PICK c : c = Cut(s)
  OBVIOUS
<1>8. c \in Seq(Seq(Int)) /\ Len(c) = q /\ \A k \in 1..q : c[k] = Block(s, k)
  <2>1. s \in Seq(Int) /\ q \in Nat /\ r \in Nat /\ r <= 63 /\ Len(s) = 64 * q + r
    BY <1>0, <1>2, <1>6
  <2>2. /\ Cut(s) \in Seq(Seq(Int)) /\ Len(Cut(s)) = q
        /\ \A k \in 1..q : Cut(s)[k] = Block(s, k)
    BY <2>1, CutBlocks, Zenon
  <2>3. QED
    BY <1>7, <2>2, Zenon
<1>9. PICK old : old = Cut(m)
  OBVIOUS
<1>10. old \in Seq(Seq(Int)) /\ Len(old) = q /\ \A k \in 1..q : old[k] = Block(m, k)
  BY <1>0, <1>9, CutBlocks
<1>11. ASSUME NEW k \in 1..q
       PROVE  old[k] = c[k]
  <2>1. Has(m, k)
    BY <1>0 DEF Has
  <2>2. Block(m \o data, k) = Block(m, k)
    BY <1>0, <2>1, OldBlock
  <2>3. QED
    BY <1>5, <1>8, <1>10, <2>2, Zenon
<1>12. old = c
  <2>1. Len(old) = Len(c) /\ \A k \in 1..Len(old) : old[k] = c[k]
    BY <1>8, <1>10, <1>11, Zenon
  <2>2. QED
    BY <1>8, <1>10, <2>1, SeqEqual
<1>13. MidOf(ctx, data) = <<>> /\ DirectOf(ctx, data) = <<>>
  <2>1. MidOf(ctx, data) = <<>>
    BY <1>3, Zenon DEF MidOf
  <2>2. PICK direct : direct = DirectOf(ctx, data)
    OBVIOUS
  <2>3. PICK n \in Nat : n = 0
    OBVIOUS
  <2>4. direct \in [1..n -> Seq(Int)]
    <3>1. DOMAIN direct = 1..n /\ 1..n = {}
      BY <1>4, <2>2, <2>3 DEF DirectOf
    <3>2. direct = [k \in 1..n |-> direct[k]]
      BY <1>4, <2>2, <2>3 DEF DirectOf
    <3>3. QED
      BY <3>1, <3>2
  <2>5. direct \in Seq(Seq(Int)) /\ Len(direct) = n
    BY <2>4, FunctionIsSeq
  <2>6. direct = <<>>
    BY <2>3, <2>5
  <2>7. QED
    BY <2>1, <2>2, <2>6
<1>14. (old \o <<>>) \o <<>> = old
  BY <1>10, ConcatEmptySeq
<1>15. ctx.blocks \o MidOf(ctx, data) \o DirectOf(ctx, data) = Cut(m \o data)
  BY <1>5, <1>7, <1>9, <1>12, <1>13, <1>14, Zenon
<1>16. PICK kept : kept = KeptOf(ctx, data)
  OBVIOUS
<1>17. PICK b : b = ctx.buffer
  OBVIOUS
<1>18. b \in [1..64 -> Int] /\ \A j \in 1..f : b[j] = m[64 * q + j]
  BY <1>17, Zenon DEF Keeps
<1>19. kept = [j \in 1..64 |-> IF j \in (f + 1)..r THEN data[j - f] ELSE b[j]]
  <2>1. BufferOf(ctx, data) = b
    BY <1>3, <1>17, Zenon DEF BufferOf
  <2>2. kept = [j \in 1..64 |-> IF j \in (f + 1)..(f + (len - 0))
                                THEN data[0 + (j - f)] ELSE b[j]]
    BY <1>1, <1>4, <1>16, <2>1, Zenon DEF KeptOf
  <2>3. f + (len - 0) = r /\ \A j \in 1..64 : 0 + (j - f) = j - f
    BY <1>0, <1>2
  <2>4. QED
    BY <2>2, <2>3
<1>20. ASSUME NEW j \in 1..r
       PROVE  kept[j] = s[64 * q + j]
  <2>1. j \in 1..64
    BY <1>2
  <2>2. CASE j <= f
    <3>1. kept[j] = b[j] /\ j \in 1..f
      BY <1>0, <1>19, <2>1, <2>2
    <3>2. b[j] = m[64 * q + j]
      BY <1>18, <3>1
    <3>3. 64 * q + j \in 1..Len(m)
      BY <1>0, <2>2
    <3>4. s[64 * q + j] = m[64 * q + j]
      BY <1>6, <3>3
    <3>5. QED
      BY <3>1, <3>2, <3>4, Zenon
  <2>3. CASE ~(j <= f)
    <3>1. PICK i \in 1..len : i = j - f
      <4>1. j - f \in 1..len
        BY <1>0, <1>2, <2>3
      <4>2. QED
        BY <4>1
    <3>2. j \in (f + 1)..r
      BY <1>0, <2>3
    <3>3. kept[j] = data[i]
      BY <1>19, <2>1, <3>1, <3>2
    <3>4. Len(m) + i = 64 * q + j
      BY <1>0, <3>1
    <3>5. s[Len(m) + i] = data[i]
      BY <1>6
    <3>6. QED
      BY <3>3, <3>4, <3>5, Zenon
  <2>4. QED
    BY <2>2, <2>3
<1>21. kept \in [1..64 -> Int]
  <2>1. ASSUME NEW j \in 1..64
        PROVE  (IF j \in (f + 1)..r THEN data[j - f] ELSE b[j]) \in Int
    <3>1. CASE j \in (f + 1)..r
      <4>1. j - f \in 1..Len(data)
        BY <1>0, <1>1, <1>2, <3>1
      <4>2. data[j - f] \in Int
        BY <1>0, <4>1, ElementOfSeq
      <4>3. QED
        BY <3>1, <4>2, Zenon
    <3>2. CASE j \notin (f + 1)..r
      BY <1>18, <3>2
    <3>3. QED
      BY <3>1, <3>2
  <2>2. QED
    BY <1>19, <2>1
<1>22. Keeps(kept, s, q, r)
  BY <1>20, <1>21, Zenon DEF Keeps
<1>23. Len(m) + Len(data) = 64 * q + r /\ r \in 0..63
  <2>1. Len(m) + Len(data) = (64 * q + f) + len
    BY <1>0, <1>1, Zenon
  <2>2. (64 * q + f) + len = 64 * q + r /\ r \in 0..63
    BY <1>0, <1>2
  <2>3. QED
    BY <2>1, <2>2
<1>24. After(ctx, m, data, q, r)
  BY <1>5, <1>15, <1>16, <1>22, <1>23, Zenon DEF After
<1>25. QED
  BY <1>0, <1>24

(* Whole blocks and the rest.                                               *)
LEMMA Divided ==
    \A a \in Nat, b \in 0..63 : (64 * a + b) \div 64 = a /\ (64 * a + b) % 64 = b
  BY SMT

(* Whatever a context has been given so far, sha1_update leaves it with the *)
(* blocks and the rest of that message and the data after it, wherever the  *)
(* message was cut (sha1_update).                                           *)
LEMMA Updated ==
    ASSUME NEW ctx, NEW m, NEW data \in Seq(Int), Consumed(ctx, m)
    PROVE  Consumed(Sha1Update(ctx, data), m \o data)
<1>1. PICK q : q = Len(m) \div 64
  OBVIOUS
<1>2. PICK f : f = Len(m) % 64
  OBVIOUS
<1>3. /\ m \in Seq(Int) /\ ctx.count = 8 * Len(m) /\ ctx.blocks = Cut(m)
      /\ Keeps(ctx.buffer, m, q, f)
  BY <1>1, <1>2, Zenon DEF Consumed
<1>4. Len(m) \in Nat /\ Len(data) \in Nat
  BY <1>3, LenProperties
<1>5. q \in Nat /\ f \in Nat /\ f <= 63 /\ Len(m) = 64 * q + f
  BY <1>1, <1>2, <1>4, SMT
<1>6. Ready(m, q, f, data)
  BY <1>3, <1>5 DEF Ready
<1>7. Fill(ctx) = f
  <2>1. (8 * Len(m)) \div 8 = Len(m)
    BY <1>4, SMT
  <2>2. QED
    BY <1>2, <1>3, <2>1, Zenon DEF Fill
<1>8. PICK s : s = m \o data
  OBVIOUS
<1>9. s \in Seq(Int) /\ Len(s) = Len(m) + Len(data)
  BY <1>3, <1>8, Extended
<1>10. PICK kept : kept = KeptOf(ctx, data)
  OBVIOUS
<1>11. /\ ctx.blocks \o MidOf(ctx, data) \o DirectOf(ctx, data) = Cut(s)
       /\ Keeps(kept, s, Len(s) \div 64, Len(s) % 64)
  <2>1. PICK full \in Nat, r \in Nat : After(ctx, m, data, full, r)
    <3>1. CASE Fills(data, f)
      BY <1>3, <1>6, <1>7, <3>1, UpdatedFull, Zenon
    <3>2. CASE ~Fills(data, f)
      BY <1>3, <1>6, <1>7, <3>2, UpdatedPart, Zenon
    <3>3. QED
      BY <3>1, <3>2, Zenon
  <2>2. r \in 0..63 /\ Len(s) = 64 * full + r
    BY <1>9, <2>1, Zenon DEF After
  <2>3. Len(s) \div 64 = full /\ Len(s) % 64 = r
    BY <2>2, Divided
  <2>4. QED
    BY <1>8, <1>10, <2>1, <2>3, Zenon DEF After
<1>12. ctx.count + 8 * Len(data) = 8 * Len(s)
  BY <1>3, <1>4, <1>9
<1>13. PICK u : u = [blocks |-> Cut(s), count |-> 8 * Len(s), buffer |-> kept]
  OBVIOUS
<1>14. u = Sha1Update(ctx, data)
  BY <1>10, <1>11, <1>12, <1>13, UpdateFields, Zenon
<1>15. u.count = 8 * Len(s) /\ u.blocks = Cut(s) /\ u.buffer = kept
  BY <1>13
<1>16. Consumed(u, s)
  BY <1>9, <1>11, <1>15, Zenon DEF Consumed
<1>17. QED
  BY <1>8, <1>14, <1>16, Zenon

(* A new context has been given nothing.                                    *)
LEMMA Begun == Consumed(Sha1Init, <<>>)
<1>1. PICK m : m = <<>>
  OBVIOUS
<1>2. m \in Seq(Int) /\ Len(m) = 0
  BY <1>1
<1>3. PICK q \in Nat, f \in Nat : q = 0 /\ f = 0
  OBVIOUS
<1>4. Len(m) \div 64 = q /\ Len(m) % 64 = f
  BY <1>2, <1>3, SMT
<1>5. PICK b : b = [i \in 1..64 |-> 0]
  OBVIOUS
<1>6. Keeps(b, m, q, f)
  BY <1>3, <1>5 DEF Keeps
<1>7. PICK c : c = Cut(m)
  OBVIOUS
<1>8. c = <<>>
  <2>1. f <= 63 /\ Len(m) = 64 * q + f
    BY <1>2, <1>3
  <2>2. c \in Seq(Seq(Int)) /\ Len(c) = q
    BY <1>2, <1>7, <2>1, CutBlocks
  <2>3. QED
    BY <1>3, <2>2
<1>9. PICK ctx : ctx = Sha1Init
  OBVIOUS
<1>10. ctx.blocks = <<>> /\ ctx.count = 0 /\ ctx.buffer = b
  BY <1>5, <1>9 DEF Sha1Init
<1>11. 8 * Len(m) = 0
  BY <1>2
<1>12. Consumed(ctx, m)
  BY <1>2, <1>4, <1>6, <1>7, <1>8, <1>10, <1>11, Zenon DEF Consumed
<1>13. QED
  BY <1>1, <1>9, <1>12, Zenon

-----------------------------------------------------------------------------
(* sha1_final *)

(* The padding: a byte 128 and as many zeros as leave room for the length. *)
Zeros(n) == [i \in 1..n |-> 0]
PadBlock == [i \in 1..64 |-> IF i = 1 THEN 128 ELSE 0]

(* The bytes that sha1_final takes from its block of padding are those of   *)
(* the standard.                                                            *)
LEMMA PaddingRight ==
    ASSUME NEW n \in Nat, NEW f, f = n % 64
    PROVE  /\ SubSeq(PadBlock, 1, PadLen(f)) = <<128>> \o Zeros((55 - n) % 64)
           /\ SubSeq(PadBlock, 1, PadLen(f)) \in Seq(Int)
           /\ Zeros((55 - n) % 64) \in Seq(Int)
<1>1. PICK z \in Nat : z = (55 - n) % 64
  <2>1. (55 - n) % 64 \in Nat
    BY SMT
  <2>2. QED
    BY <2>1
<1>2. PICK p \in Nat : p = PadLen(f) /\ p = z + 1 /\ p <= 64
  <2>1. PICK q \in Nat : q = n \div 64
    BY SMT
  <2>2. f \in 0..63 /\ n = 64 * q + f
    BY <2>1, SMT
  <2>3. PadLen(f) = z + 1 /\ z \in 0..63
    BY <1>1, <2>1, <2>2, SMT DEF PadLen
  <2>4. z + 1 \in Nat /\ z + 1 <= 64
    BY <2>3
  <2>5. QED
    BY <2>3, <2>4
<1>3. PICK b : b = PadBlock
  OBVIOUS
<1>4. b \in Seq(Int) /\ Len(b) = 64 /\ \A i \in 1..64 : b[i] = IF i = 1 THEN 128 ELSE 0
  <2>1. PICK len \in Nat : len = 64
    OBVIOUS
  <2>2. b \in [1..len -> Int]
    BY <1>3, <2>1 DEF PadBlock
  <2>3. b \in Seq(Int) /\ Len(b) = len
    BY <2>2, FunctionIsSeq
  <2>4. QED
    BY <1>3, <2>1, <2>3 DEF PadBlock
<1>5. PICK x : x = SubSeq(b, 1, p)
  OBVIOUS
<1>6. x \in Seq(Int) /\ Len(x) = p /\ \A i \in 1..p : x[i] = b[i]
  <2>1. b \in Seq(Int) /\ p <= Len(b)
    BY <1>2, <1>4
  <2>2. QED
    BY <1>5, <2>1, FirstSlice
<1>7. PICK first, zeros : first = <<128>> /\ zeros = Zeros(z)
  OBVIOUS
<1>8. first \in Seq(Int) /\ Len(first) = 1 /\ first[1] = 128
  BY <1>7
<1>9. zeros \in Seq(Int) /\ Len(zeros) = z /\ \A i \in 1..z : zeros[i] = 0
  <2>1. zeros \in [1..z -> Int] /\ \A i \in 1..z : zeros[i] = 0
    BY <1>7 DEF Zeros
  <2>2. QED
    BY <2>1, FunctionIsSeq
<1>10. PICK y : y = first \o zeros
  OBVIOUS
<1>11. /\ y \in Seq(Int) /\ Len(y) = p /\ y[1] = 128
       /\ \A i \in 1..z : y[1 + i] = 0
  <2>1. /\ y \in Seq(Int) /\ Len(y) = Len(first) + Len(zeros)
        /\ \A i \in 1..Len(first) : y[i] = first[i]
        /\ \A i \in 1..Len(zeros) : y[Len(first) + i] = zeros[i]
    <3>1. first \in Seq(Int) /\ zeros \in Seq(Int)
      BY <1>8, <1>9
    <3>2. QED
      BY <1>10, <3>1, Extended
  <2>2. Len(y) = p
    BY <1>2, <1>8, <1>9, <2>1
  <2>3. y[1] = 128
    BY <1>8, <2>1
  <2>4. ASSUME NEW i \in 1..z PROVE y[1 + i] = 0
    <3>1. y[Len(first) + i] = zeros[i]
      BY <1>9, <2>1
    <3>2. QED
      BY <1>8, <1>9, <3>1, Zenon
  <2>5. QED
    BY <2>1, <2>2, <2>3, <2>4
<1>12. ASSUME NEW i \in 1..p
       PROVE  x[i] = y[i]
  <2>1. i \in 1..64 /\ x[i] = b[i]
    BY <1>2, <1>6
  <2>2. CASE i = 1
    <3>1. b[i] = 128
      BY <1>4, <2>1, <2>2
    <3>2. QED
      BY <1>11, <2>1, <2>2, <3>1
  <2>3. CASE i # 1
    <3>1. b[i] = 0
      BY <1>4, <2>1, <2>3
    <3>2. PICK k \in 1..z : k = i - 1
      <4>1. i - 1 \in 1..z
        BY <1>2, <2>3
      <4>2. QED
        BY <4>1
    <3>3. 1 + k = i
      BY <3>2
    <3>4. y[1 + k] = 0
      BY <1>11
    <3>5. QED
      BY <2>1, <3>1, <3>3, <3>4, Zenon
  <2>4. QED
    BY <2>2, <2>3
<1>13. x = y
  BY <1>6, <1>11, <1>12, SeqEqual
<1>14. QED
  BY <1>1, <1>2, <1>3, <1>5, <1>6, <1>7, <1>9, <1>10, <1>13

(* The bytes of the length.                                                 *)
LEMMA LengthBytes ==
    ASSUME NEW n \in Nat
    PROVE  BigEndian(n) \in Seq(Int)
<1>1. PICK a, b, c, d : /\ a = (n \div 16777216) % 256 /\ b = (n \div 65536) % 256
                        /\ c = (n \div 256) % 256 /\ d = n % 256
  OBVIOUS
<1>2. a \in Int /\ b \in Int /\ c \in Int /\ d \in Int
  BY <1>1, SMT
<1>3. BigEndian(n) = <<0, 0, 0, 0, a, b, c, d>>
  BY <1>1, SMT DEF BigEndian
<1>4. QED
  BY <1>2, <1>3, SMT

(* sha1_final consumes the message, padded as the standard says.            *)
LEMMA Finished ==
    ASSUME NEW ctx, NEW m, Consumed(ctx, m)
    PROVE  Sha1Final(ctx).blocks = Blocks(m)
<1>1. m \in Seq(Int) /\ ctx.count = 8 * Len(m)
  BY Zenon DEF Consumed
<1>2. PICK n \in Nat : n = Len(m)
  BY <1>1, LenProperties
<1>3. Fill(ctx) = n % 64
  <2>1. (8 * n) \div 8 = n
    BY SMT
  <2>2. QED
    BY <1>1, <1>2, <2>1, Zenon DEF Fill
<1>4. PICK x : x = SubSeq(PadBlock, 1, PadLen(Fill(ctx)))
  OBVIOUS
<1>5. PICK z : z = Zeros((55 - n) % 64)
  OBVIOUS
<1>6. PICK first : first = <<128>>
  OBVIOUS
<1>7. x = first \o z /\ x \in Seq(Int) /\ z \in Seq(Int)
  BY <1>3, <1>4, <1>5, <1>6, PaddingRight
<1>8. PICK length : length = BigEndian(8 * n)
  OBVIOUS
<1>9. length \in Seq(Int)
  <2>1. 8 * n \in Nat
    OBVIOUS
  <2>2. QED
    BY <1>8, <2>1, LengthBytes
<1>10. Consumed(Sha1Update(ctx, x), m \o x)
  BY <1>7, Updated
<1>11. PICK u : u = Sha1Update(Sha1Update(ctx, x), length)
  OBVIOUS
<1>12. Consumed(u, (m \o x) \o length)
  BY <1>9, <1>10, <1>11, Updated
<1>13. u.blocks = Cut((m \o x) \o length)
  BY <1>12, Zenon DEF Consumed
<1>14. Sha1Final(ctx) = u
  BY <1>1, <1>2, <1>4, <1>8, <1>11, Zenon DEF Sha1Final, PadBlock
<1>15. (m \o first) \o z = m \o x
  <2>1. first \in Seq(Int)
    BY <1>6
  <2>2. m \in Seq(Int) /\ z \in Seq(Int)
    BY <1>1, <1>7
  <2>3. (m \o first) \o z = m \o (first \o z)
    BY <2>1, <2>2, SMT
  <2>4. QED
    BY <1>7, <2>3, Zenon
<1>16. PICK padded : padded = ((m \o first) \o z) \o length
  OBVIOUS
<1>17. Blocks(m) = Cut(padded)
  BY <1>2, <1>5, <1>6, <1>8, <1>16, ZenonT(30) DEF Blocks, Cut, Block, Zeros
<1>18. QED
  BY <1>13, <1>14, <1>15, <1>16, <1>17, Zenon

(* The blocks that the handshake hashes are those of the client's key and   *)
(* the GUID, padded as the standard says, for every key that fits the       *)
(* buffer (compute_accept_key).                                             *)
LEMMA AcceptBlocksRight ==
    ASSUME NEW key \in Seq(Int), NEW guid \in Seq(Int), Len(key) + Len(guid) <= 255
    PROVE  AcceptBlocks(key, guid) = Blocks(key \o guid)
<1>1. PICK all : all = key \o guid
  OBVIOUS
<1>2. all \in Seq(Int) /\ Len(all) <= 255 /\ Len(all) \in Nat
  BY <1>1, Extended, LenProperties
<1>3. PICK cat : cat = SubSeq(all, 1, IF Len(all) < 255 THEN Len(all) ELSE 255)
  OBVIOUS
<1>4. cat = all
  <2>1. (IF Len(all) < 255 THEN Len(all) ELSE 255) = Len(all)
    <3>1. PICK n \in Nat : n = Len(all)
      BY <1>2
    <3>2. n <= 255
      BY <1>2, <3>1
    <3>3. (IF n < 255 THEN n ELSE 255) = n
      BY <3>2
    <3>4. QED
      BY <3>1, <3>3
  <2>2. cat = SubSeq(all, 1, Len(all))
    BY <1>3, <2>1
  <2>3. QED
    BY <1>2, <2>2, SubSeqFull
<1>5. PICK nothing : nothing = <<>>
  OBVIOUS
<1>6. Consumed(Sha1Init, nothing)
  BY <1>5, Begun, Zenon
<1>7. Consumed(Sha1Update(Sha1Init, all), nothing \o all)
  BY <1>2, <1>6, Updated
<1>8. nothing \o all = all
  BY <1>2, <1>5, ConcatEmptySeq
<1>9. PICK ctx : ctx = Sha1Update(Sha1Init, all)
  OBVIOUS
<1>10. Consumed(ctx, all)
  BY <1>7, <1>8, <1>9, Zenon
<1>11. Sha1Final(ctx).blocks = Blocks(all)
  BY <1>10, Finished, Zenon
<1>12. AcceptBlocks(key, guid) = Sha1Final(ctx).blocks
  <2>1. AcceptBlocks(key, guid) = Sha1Final(Sha1Update(Sha1Init, cat)).blocks
    BY <1>1, <1>3, SMT DEF AcceptBlocks
  <2>2. QED
    BY <1>4, <1>9, <2>1, Zenon
<1>13. QED
  BY <1>1, <1>11, <1>12, Zenon

-----------------------------------------------------------------------------
(* Base64 of a digest *)

(* Three bytes, and four characters, as one number. *)
Three(a, b, c) == a * 65536 + b * 256 + c
Four(d1, d2, d3, d4) == d1 * 262144 + d2 * 4096 + d3 * 64 + d4

(* A quotient and a remainder by each of the powers of two of base64.       *)
LEMMA Quotients ==
    \A q \in Nat :
      /\ \A r \in 0..63 : (64 * q + r) \div 64 = q /\ (64 * q + r) % 64 = r
      /\ \A r \in 0..255 : (256 * q + r) \div 256 = q /\ (256 * q + r) % 256 = r
      /\ \A r \in Nat : r < 4096 => (4096 * q + r) \div 4096 = q
      /\ \A r \in Nat : r < 65536 => (65536 * q + r) \div 65536 = q
      /\ \A r \in Nat : r < 262144 => (262144 * q + r) \div 262144 = q
  BY SMT

Octets == 0..255
Sixes == 0..63
ByFour(n) == \E d1, d2, d3, d4 \in Sixes : Four(d1, d2, d3, d4) = n
BySixty(n) == \E q \in Nat : \E r \in Sixes : n = 64 * q + r
CharsOut(d1, d2, d3, d4) ==
    /\ (Four(d1, d2, d3, d4) \div 262144) % 64 = d1
    /\ (Four(d1, d2, d3, d4) \div 4096) % 64 = d2
    /\ (Four(d1, d2, d3, d4) \div 64) % 64 = d3
    /\ Four(d1, d2, d3, d4) % 64 = d4
OctetsOut(a, b, c) ==
    /\ Three(a, b, c) \div 65536 = a
    /\ (Three(a, b, c) \div 256) % 256 = b
    /\ Three(a, b, c) % 256 = c
LastZero(a, b) == Three(a, b, 0) % 64 = 0

(* Dividing by 64.                                                          *)
LEMMA BySixtyFour == \A t \in Nat : BySixty(t)
<1>1. ASSUME NEW t \in Nat PROVE BySixty(t)
  <2>1. t \div 64 \in Nat /\ t % 64 \in Sixes /\ t = 64 * (t \div 64) + (t % 64)
    BY SMT DEF Sixes
  <2>2. QED
    BY <2>1, Zenon DEF BySixty
<1>2. QED
  BY <1>1, Zenon

(* Three bytes make four characters, each of 6 bits.                        *)
LEMMA FourCharacters == \A a, b, c \in Octets : ByFour(Three(a, b, c))
<1>1. ASSUME NEW a \in Octets, NEW b \in Octets, NEW c \in Octets
      PROVE  ByFour(Three(a, b, c))
  <2>1. Three(a, b, c) \in Nat
    BY SMT DEF Three, Octets
  <2>2. PICK t1 \in Nat : \E r \in Sixes : Three(a, b, c) = 64 * t1 + r
    BY <2>1, BySixtyFour, Zenon DEF BySixty
  <2>3. PICK d4 \in Sixes : Three(a, b, c) = 64 * t1 + d4
    BY <2>2, Zenon
  <2>4. PICK t2 \in Nat : \E r \in Sixes : t1 = 64 * t2 + r
    BY BySixtyFour, Zenon DEF BySixty
  <2>5. PICK d3 \in Sixes : t1 = 64 * t2 + d3
    BY <2>4, Zenon
  <2>6. PICK d1 \in Nat : \E r \in Sixes : t2 = 64 * d1 + r
    BY BySixtyFour, Zenon DEF BySixty
  <2>7. PICK d2 \in Sixes : t2 = 64 * d1 + d2
    BY <2>6, Zenon
  <2>8. Three(a, b, c) = 262144 * d1 + 4096 * d2 + 64 * d3 + d4
    BY <2>3, <2>5, <2>7, SMT DEF Sixes
  <2>9. d1 \in Sixes
    <3>1. Three(a, b, c) < 16777216
      BY SMT DEF Three, Octets
    <3>2. QED
      BY <2>8, <3>1, SMT DEF Sixes
  <2>10. Four(d1, d2, d3, d4) = Three(a, b, c)
    BY <2>8, <2>9, SMT DEF Four, Sixes
  <2>11. QED
    BY <2>9, <2>10, Zenon DEF ByFour
<1>2. QED
  BY <1>1, Zenon

(* What base64_encode takes out of four characters' number.                 *)
LEMMA Characters ==
    \A d1, d2, d3, d4 \in Sixes : CharsOut(d1, d2, d3, d4)
<1>1. ASSUME NEW d1 \in Sixes, NEW d2 \in Sixes, NEW d3 \in Sixes, NEW d4 \in Sixes
      PROVE  CharsOut(d1, d2, d3, d4)
  <2>0. d1 \in 0..63 /\ d2 \in 0..63 /\ d3 \in 0..63 /\ d4 \in 0..63
    BY Zenon DEF Sixes
  <2>1. PICK q1 \in Nat : q1 = 64 * d1 + d2
    BY <2>0, SMT
  <2>2. PICK q2 \in Nat : q2 = 64 * q1 + d3
    BY <2>0, SMT
  <2>3. Four(d1, d2, d3, d4) = 64 * q2 + d4
    BY <2>0, <2>1, <2>2, SMT DEF Four
  <2>4. PICK r2 \in Nat : r2 < 4096 /\ r2 = 64 * d3 + d4
    BY <2>0, SMT
  <2>5. Four(d1, d2, d3, d4) = 4096 * q1 + r2
    BY <2>0, <2>1, <2>4, SMT DEF Four
  <2>6. PICK r1 \in Nat : r1 < 262144 /\ r1 = 4096 * d2 + 64 * d3 + d4
    BY <2>0, SMT
  <2>7. Four(d1, d2, d3, d4) = 262144 * d1 + r1
    BY <2>0, <2>6, SMT DEF Four
  <2>8. Four(d1, d2, d3, d4) % 64 = d4 /\ Four(d1, d2, d3, d4) \div 64 = q2
    BY <2>0, <2>3, SMT
  <2>9. q2 % 64 = d3
    BY <2>0, <2>2, SMT
  <2>10. Four(d1, d2, d3, d4) \div 4096 = q1
    BY <2>0, <2>4, <2>5, SMT
  <2>11. q1 % 64 = d2
    BY <2>0, <2>1, SMT
  <2>12. d1 \in Nat
    BY <2>0, SMT
  <2>13. Four(d1, d2, d3, d4) \div 262144 = d1
    BY <2>0, <2>6, <2>7, <2>12, SMT
  <2>14. d1 % 64 = d1
    BY <2>0, SMT
  <2>15. QED
    BY <2>0, <2>8, <2>9, <2>10, <2>11, <2>13, <2>14, SMT DEF CharsOut
<1>2. QED
  BY <1>1, Zenon

(* The bytes taken out of three bytes' number.                              *)
LEMMA BytesOut ==
    \A a, b, c \in Octets : OctetsOut(a, b, c)
<1>1. ASSUME NEW a \in Octets, NEW b \in Octets, NEW c \in Octets
      PROVE  OctetsOut(a, b, c)
  <2>0. a \in 0..255 /\ b \in 0..255 /\ c \in 0..255
    BY Zenon DEF Octets
  <2>1. PICK q \in Nat : q = 256 * a + b
    BY <2>0, SMT
  <2>2. Three(a, b, c) = 256 * q + c
    BY <2>0, <2>1, SMT DEF Three
  <2>3. Three(a, b, c) % 256 = c /\ Three(a, b, c) \div 256 = q
    BY <2>0, <2>2, SMT
  <2>4. a \in Nat /\ a % 256 = a
    BY <2>0, SMT
  <2>5. q % 256 = b
    BY <2>0, <2>1, <2>4, SMT
  <2>6. PICK r \in Nat : r < 65536 /\ r = 256 * b + c
    BY <2>0, SMT
  <2>7. Three(a, b, c) = 65536 * a + r
    BY <2>0, <2>6, SMT DEF Three
  <2>8. Three(a, b, c) \div 65536 = a
    BY <2>0, <2>4, <2>6, <2>7, SMT
  <2>9. QED
    BY <2>0, <2>3, <2>4, <2>5, <2>8, SMT DEF OctetsOut
<1>2. QED
  BY <1>1, Zenon

(* A last byte of 0 makes a last character of 0.                            *)
LEMMA ZeroLast ==
    \A a, b \in Octets : LastZero(a, b)
<1>1. ASSUME NEW a \in Octets, NEW b \in Octets PROVE LastZero(a, b)
  <2>0. a \in 0..255 /\ b \in 0..255
    BY Zenon DEF Octets
  <2>1. PICK q \in Nat : q = a * 1024 + b * 4
    BY <2>0, SMT
  <2>2. Three(a, b, 0) = 64 * q + 0 /\ 0 \in 0..63
    BY <2>0, <2>1, SMT DEF Three
  <2>3. QED
    BY <2>0, <2>2, SMT DEF LastZero
<1>2. QED
  BY <1>1, Zenon

\* a byte of the digest, or 0 after its end
ByteAt(in, i) == IF i <= Len(in) THEN in[i] ELSE 0
Triple(in, i) == ByteAt(in, i) * 65536 + ByteAt(in, i + 1) * 256 + ByteAt(in, i + 2)
First(j) == 3 * ((j - 1) \div 4) + 1
CharOf(in, j) ==
    IF j % 4 = 1 THEN (Triple(in, First(j)) \div 262144) % 64
    ELSE IF j % 4 = 2 THEN (Triple(in, First(j)) \div 4096) % 64
    ELSE IF j % 4 = 3
         THEN IF Len(in) - First(j) + 1 > 1 THEN (Triple(in, First(j)) \div 64) % 64 ELSE Pad
    ELSE IF Len(in) - First(j) + 1 > 2 THEN Triple(in, First(j)) % 64 ELSE Pad

(* The characters of base64.                                                *)
LEMMA Base64Chars ==
    ASSUME NEW in
    PROVE  Base64(in) = [j \in 1..(4 * ((Len(in) + 2) \div 3)) |-> CharOf(in, j)]
  BY SMT DEF Base64, CharOf, First, Triple, ByteAt

Digit(in, g, k) == IF 3 * g + k <= 20 THEN in[3 * g + k] ELSE 0
Group(in, g) == Three(Digit(in, g, 1), Digit(in, g, 2), Digit(in, g, 3))
Sixth(in, g, k) == IF k = 1 THEN (Group(in, g) \div 262144) % 64
                   ELSE IF k = 2 THEN (Group(in, g) \div 4096) % 64
                   ELSE IF k = 3 THEN (Group(in, g) \div 64) % 64
                   ELSE Group(in, g) % 64

(* The four characters of each three bytes of a digest, of which the last   *)
(* has only two.                                                            *)
LEMMA GroupChars ==
    ASSUME NEW in \in [1..20 -> 0..255], NEW g \in 0..6
    PROVE  /\ CharOf(in, 4 * g + 1) = Sixth(in, g, 1)
           /\ CharOf(in, 4 * g + 2) = Sixth(in, g, 2)
           /\ CharOf(in, 4 * g + 3) = Sixth(in, g, 3)
           /\ CharOf(in, 4 * g + 4) = IF g < 6 THEN Sixth(in, g, 4) ELSE Pad
<1>1. Len(in) = 20
  <2>1. PICK n \in Nat : n = 20
    BY SMT
  <2>2. Len(in) = n
    BY <2>1, FunctionIsSeq, SMT
  <2>3. QED
    BY <2>1, <2>2, SMT
<1>2. Triple(in, 3 * g + 1) = Group(in, g)
  BY <1>1, SMT DEF Triple, ByteAt, Group, Digit, Three
<1>3. CharOf(in, 4 * g + 1) = Sixth(in, g, 1)
  <2>1. (4 * g + 1) % 4 = 1 /\ First(4 * g + 1) = 3 * g + 1
    BY SMT DEF First
  <2>2. QED
    BY <1>2, <2>1, SMT DEF CharOf, Sixth
<1>4. CharOf(in, 4 * g + 2) = Sixth(in, g, 2)
  <2>1. (4 * g + 2) % 4 = 2 /\ First(4 * g + 2) = 3 * g + 1
    BY SMT DEF First
  <2>2. QED
    BY <1>2, <2>1, SMT DEF CharOf, Sixth
<1>5. CharOf(in, 4 * g + 3) = Sixth(in, g, 3)
  <2>1. (4 * g + 3) % 4 = 3 /\ First(4 * g + 3) = 3 * g + 1
    BY SMT DEF First
  <2>2. Len(in) - (3 * g + 1) + 1 > 1
    BY <1>1, SMT
  <2>3. QED
    BY <1>2, <2>1, <2>2, SMT DEF CharOf, Sixth
<1>6. CharOf(in, 4 * g + 4) = IF g < 6 THEN Sixth(in, g, 4) ELSE Pad
  <2>1. (4 * g + 4) % 4 = 0 /\ First(4 * g + 4) = 3 * g + 1
    BY SMT DEF First
  <2>2. Len(in) - (3 * g + 1) + 1 > 2 <=> g < 6
    BY <1>1, SMT
  <2>3. QED
    BY <1>2, <2>1, <2>2, SMT DEF CharOf, Sixth
<1>7. QED
  BY <1>3, <1>4, <1>5, <1>6, Zenon

\* a character's value, and the number of four of them
CharValue(chars, j) == IF chars[j] = Pad THEN 0 ELSE chars[j]
FourAt(chars, g) ==
    CharValue(chars, 4 * g + 1) * 262144 + CharValue(chars, 4 * g + 2) * 4096
    + CharValue(chars, 4 * g + 3) * 64 + CharValue(chars, 4 * g + 4)
PadsOf(chars) == {j \in DOMAIN chars : chars[j] = Pad}
OctetOf(chars, i) ==
    IF i % 3 = 1 THEN FourAt(chars, (i - 1) \div 3) \div 65536
    ELSE IF i % 3 = 2 THEN (FourAt(chars, (i - 1) \div 3) \div 256) % 256
    ELSE FourAt(chars, (i - 1) \div 3) % 256

(* The bytes of what is decoded.                                            *)
LEMMA DecodedOctets ==
    ASSUME NEW chars
    PROVE  Decoded(chars) = [i \in 1..(3 * (Len(chars) \div 4) - Cardinality(PadsOf(chars)))
                               |-> OctetOf(chars, i)]
  BY SMT DEF Decoded, OctetOf, FourAt, CharValue, PadsOf

\* the four characters of a group are its number's, but for the padding
GroupOf(in, chars, g) ==
    /\ FourAt(chars, g) = Group(in, g)
    /\ \A k \in 1..4 : chars[4 * g + k] = Pad <=> g = 6 /\ k = 4

(* Every four characters of a digest are the number of the three bytes.     *)
LEMMA GroupKept ==
    ASSUME NEW in \in [1..20 -> 0..255], NEW g \in 0..6, NEW chars,
           \A k \in 1..4 : chars[4 * g + k] = CharOf(in, 4 * g + k)
    PROVE  GroupOf(in, chars, g)
<1>1. Digit(in, g, 1) \in Octets /\ Digit(in, g, 2) \in Octets /\ Digit(in, g, 3) \in Octets
  BY SMT DEF Digit, Octets
<1>2. ByFour(Group(in, g))
  BY <1>1, FourCharacters, Zenon DEF Group
<1>3. PICK d1 \in Sixes, d2 \in Sixes, d3 \in Sixes, d4 \in Sixes :
        Four(d1, d2, d3, d4) = Group(in, g)
  BY <1>2, Zenon DEF ByFour
<1>4. CharsOut(d1, d2, d3, d4)
  BY Characters, Zenon
<1>5. /\ d1 = Sixth(in, g, 1) /\ d2 = Sixth(in, g, 2) /\ d3 = Sixth(in, g, 3)
      /\ d4 = Sixth(in, g, 4)
  BY <1>3, <1>4, SMT DEF CharsOut, Sixth
<1>6. /\ CharOf(in, 4 * g + 1) = d1 /\ CharOf(in, 4 * g + 2) = d2 /\ CharOf(in, 4 * g + 3) = d3
      /\ CharOf(in, 4 * g + 4) = IF g < 6 THEN d4 ELSE Pad
  BY <1>5, GroupChars, Zenon
<1>7. /\ chars[4 * g + 1] = d1 /\ chars[4 * g + 2] = d2 /\ chars[4 * g + 3] = d3
      /\ chars[4 * g + 4] = IF g < 6 THEN d4 ELSE Pad
  <2>1. 1 \in 1..4 /\ 2 \in 1..4 /\ 3 \in 1..4 /\ 4 \in 1..4
    BY SMT
  <2>2. QED
    BY <1>6, <2>1, SMT
<1>8. d1 \in 0..63 /\ d2 \in 0..63 /\ d3 \in 0..63 /\ d4 \in 0..63
  BY Zenon DEF Sixes
<1>9. g = 6 => d4 = 0
  <2>1. ASSUME g = 6 PROVE Digit(in, g, 3) = 0
    BY <2>1, SMT DEF Digit
  <2>2. LastZero(Digit(in, g, 1), Digit(in, g, 2))
    BY <1>1, ZeroLast, Zenon
  <2>3. QED
    BY <1>5, <2>1, <2>2, SMT DEF LastZero, Group, Sixth
<1>10. /\ CharValue(chars, 4 * g + 1) = d1 /\ CharValue(chars, 4 * g + 2) = d2
       /\ CharValue(chars, 4 * g + 3) = d3 /\ CharValue(chars, 4 * g + 4) = d4
  BY <1>7, <1>8, <1>9, SMT DEF CharValue, Pad
<1>11. FourAt(chars, g) = Group(in, g)
  BY <1>3, <1>10, SMT DEF FourAt, Four
<1>12. \A k \in 1..4 : chars[4 * g + k] = Pad <=> g = 6 /\ k = 4
  <2>1. ASSUME NEW k \in 1..4 PROVE chars[4 * g + k] = Pad <=> g = 6 /\ k = 4
    <3>1. k = 1 \/ k = 2 \/ k = 3 \/ k = 4
      BY SMT
    <3>2. QED
      BY <1>7, <1>8, <3>1, SMT DEF Pad
  <2>2. QED
    BY <2>1, Zenon
<1>13. QED
  BY <1>11, <1>12, Zenon DEF GroupOf

(* base64_encode loses nothing of a digest.                                 *)
LEMMA DigestSurvives ==
    ASSUME NEW in \in [1..20 -> 0..255]
    PROVE  Len(Base64(in)) = 28 /\ Decoded(Base64(in)) = in
<1> DEFINE chars == Base64(in)
<1>1. Len(in) = 20
  <2>1. PICK n \in Nat : n = 20
    BY SMT
  <2>2. Len(in) = n
    BY <2>1, FunctionIsSeq, SMT
  <2>3. QED
    BY <2>1, <2>2, SMT
<1>2. chars = [j \in 1..28 |-> CharOf(in, j)]
  <2>1. 4 * ((Len(in) + 2) \div 3) = 28
    BY <1>1, SMT
  <2>2. chars = [j \in 1..(4 * ((Len(in) + 2) \div 3)) |-> CharOf(in, j)]
    BY Base64Chars, Zenon
  <2>3. QED
    BY <2>1, <2>2, Zenon
<1>4. \A g \in 0..6 : GroupOf(in, chars, g)
  <2>1. ASSUME NEW g \in 0..6 PROVE GroupOf(in, chars, g)
    <3>1. \A k \in 1..4 : chars[4 * g + k] = CharOf(in, 4 * g + k)
      BY <1>2, SMT
    <3> HIDE DEF chars
    <3>2. QED
      BY <3>1, GroupKept, Zenon
  <2>2. QED
    BY <2>1, Zenon
<1> HIDE DEF chars
<1>5. DOMAIN chars = 1..28
  BY <1>2, SMT
<1>6. PadsOf(chars) = {28}
  <2>1. ASSUME NEW j \in 1..28 PROVE chars[j] = Pad <=> j = 28
    <3>1. PICK g \in 0..6 : \E k \in 1..4 : j = 4 * g + k
      <4>1. (j - 1) \div 4 \in 0..6 /\ ((j - 1) % 4) + 1 \in 1..4
            /\ j = 4 * ((j - 1) \div 4) + (((j - 1) % 4) + 1)
        BY SMT
      <4>2. QED
        BY <4>1, Zenon
    <3>2. PICK k \in 1..4 : j = 4 * g + k
      BY <3>1, Zenon
    <3>3. chars[4 * g + k] = Pad <=> g = 6 /\ k = 4
      BY <1>4, Zenon DEF GroupOf
    <3>4. QED
      BY <3>2, <3>3, SMT
  <2>2. 28 \in 1..28
    BY SMT
  <2>3. QED
    BY <1>5, <2>1, <2>2, ZenonT(30) DEF PadsOf
<1>7. Cardinality(PadsOf(chars)) = 1
  BY <1>6, FS_Singleton, Zenon
<1>8. Len(chars) = 28
  BY <1>2, SMT
<1>9. Decoded(chars) = [i \in 1..20 |-> OctetOf(chars, i)]
  <2>1. 3 * (Len(chars) \div 4) - Cardinality(PadsOf(chars)) = 20
    BY <1>7, <1>8, SMT
  <2>2. Decoded(chars) = [i \in 1..(3 * (Len(chars) \div 4) - Cardinality(PadsOf(chars)))
                            |-> OctetOf(chars, i)]
    BY DecodedOctets, Zenon
  <2>3. QED
    BY <2>1, <2>2, Zenon
<1>10. ASSUME NEW i \in 1..20 PROVE OctetOf(chars, i) = in[i]
  <2>1. PICK g \in 0..6 : \E k \in 1..3 : i = 3 * g + k
    <3>1. (i - 1) \div 3 \in 0..6 /\ ((i - 1) % 3) + 1 \in 1..3
          /\ i = 3 * ((i - 1) \div 3) + (((i - 1) % 3) + 1)
      BY SMT
    <3>2. QED
      BY <3>1, Zenon
  <2>2. PICK k \in 1..3 : i = 3 * g + k
    BY <2>1, Zenon
  <2>3. FourAt(chars, g) = Group(in, g)
    BY <1>4, Zenon DEF GroupOf
  <2>4. Digit(in, g, 1) \in Octets /\ Digit(in, g, 2) \in Octets /\ Digit(in, g, 3) \in Octets
    BY SMT DEF Digit, Octets
  <2>5. OctetsOut(Digit(in, g, 1), Digit(in, g, 2), Digit(in, g, 3))
    BY <2>4, BytesOut, Zenon
  <2>6. /\ Group(in, g) \div 65536 = Digit(in, g, 1)
        /\ (Group(in, g) \div 256) % 256 = Digit(in, g, 2)
        /\ Group(in, g) % 256 = Digit(in, g, 3)
    BY <2>5, SMT DEF OctetsOut, Group
  <2>7. (i - 1) \div 3 = g /\ Digit(in, g, k) = in[i]
    BY <2>2, SMT DEF Digit
  <2>8. CASE k = 1
    <3>1. i % 3 = 1
      BY <2>2, <2>8, SMT
    <3>2. QED
      BY <2>3, <2>6, <2>7, <2>8, <3>1, SMT DEF OctetOf
  <2>9. CASE k = 2
    <3>1. i % 3 = 2
      BY <2>2, <2>9, SMT
    <3>2. QED
      BY <2>3, <2>6, <2>7, <2>9, <3>1, SMT DEF OctetOf
  <2>10. CASE k = 3
    <3>1. i % 3 = 0
      BY <2>2, <2>10, SMT
    <3>2. QED
      BY <2>3, <2>6, <2>7, <2>10, <3>1, SMT DEF OctetOf
  <2>11. QED
    BY <2>8, <2>9, <2>10, SMT
<1>11. [i \in 1..20 |-> OctetOf(chars, i)] = in
  BY <1>10, SMT
<1>12. QED
  BY <1>8, <1>9, <1>11, Zenon DEF chars

-----------------------------------------------------------------------------
(* The gaps of a log *)

(* A product with a number above 0 is at least the other number.            *)
LEMMA Multiple ==
    ASSUME NEW s \in Nat \ {0}, NEW q \in Int
    PROVE  /\ q >= 1 => s * q >= s
           /\ q <= -1 => s * q <= -s
           /\ q >= 2 => s * q >= 2 * s
<1>1. SUFFICES ASSUME NEW f \in Int, f = s * q, TRUE
               PROVE  /\ q >= 1 => f >= s
                      /\ q <= -1 => f <= -s
                      /\ q >= 2 => f >= 2 * s
  OBVIOUS
<1>2. QED
  BY <1>1, SMT

(* A number of steps and a rest less than a step are divided again.         *)
LEMMA DividedAgain ==
    ASSUME NEW s \in Nat \ {0}, NEW m \in Int, NEW r \in 0..(s - 1)
    PROVE  (s * m + r) \div s = m /\ (s * m + r) % s = r
<1>1. PICK n \in Int : n = s * m + r
  OBVIOUS
<1>2. PICK q \in Int : q = n \div s
  BY <1>1
<1>3. PICK t \in Int : t = n % s
  BY <1>1
<1>4. t \in 0..(s - 1) /\ n = s * q + t
  BY <1>1, <1>2, <1>3, SMT
<1>5. PICK k \in Int : k = q - m
  OBVIOUS
<1>6. s * k = r - t
  <2>1. s * k = s * q - s * m
    BY <1>5, SMT
  <2>2. QED
    BY <1>1, <1>4, <2>1, SMT
<1>7. ~(k >= 1) /\ ~(k <= -1)
  BY <1>4, <1>6, Multiple, SMT
<1>8. q = m
  BY <1>5, <1>7, SMT
<1>9. t = r
  BY <1>1, <1>4, <1>8, SMT
<1>10. QED
  BY <1>1, <1>2, <1>3, <1>8, <1>9, Zenon

\* MissingAfter of a difference
Missed(d, step) == IF d > step THEN Round(d, step) - 1 ELSE 0

(* A gap of m steps lacks m - 1 samples, also when both of its ends drift   *)
(* by 1 and a step is above 4.                                              *)
LEMMA GapCounted ==
    ASSUME NEW s \in Nat \ {0}, NEW m \in Nat \ {0}, NEW e \in -2..2, e = 0 \/ s > 4
    PROVE  s * m + e > 0 /\ Missed(s * m + e, s) = m - 1
<1>1. PICK f \in Int : f = s * m
  OBVIOUS
<1>2. f >= s /\ (m >= 2 => f >= 2 * s) /\ (m = 1 => f = s)
  BY <1>1, Multiple, SMT
<1>3. PICK d \in Int : d = f + e
  OBVIOUS
<1>4. d > 0
  BY <1>2, <1>3, SMT
<1>5. CASE e >= 0
  <2>1. d \div s = m /\ d % s = e
    <3>1. e \in 0..(s - 1)
      BY <1>5, SMT
    <3>2. (s * m + e) \div s = m /\ (s * m + e) % s = e
      BY <3>1, DividedAgain
    <3>3. QED
      BY <1>1, <1>3, <3>2, Zenon
  <2>2. 2 * e < s
    BY SMT
  <2>3. Round(d, s) = m
    BY <2>1, <2>2, SMT DEF Round
  <2>4. Missed(d, s) = m - 1
    BY <1>2, <1>3, <1>5, <2>3, SMT DEF Missed
  <2>5. QED
    BY <1>1, <1>3, <1>4, <2>4, SMT
<1>6. CASE e < 0
  <2>1. d \div s = m - 1 /\ d % s = s + e
    <3>1. s + e \in 0..(s - 1)
      BY <1>6, SMT
    <3>2. (s * (m - 1) + (s + e)) \div s = m - 1 /\ (s * (m - 1) + (s + e)) % s = s + e
      <4>1. m - 1 \in Int
        OBVIOUS
      <4>2. QED
        BY <3>1, <4>1, DividedAgain, Zenon
    <3>3. s * (m - 1) = f - s
      BY <1>1, SMT
    <3>4. s * (m - 1) + (s + e) = d
      BY <1>3, <3>3, SMT
    <3>5. QED
      BY <3>2, <3>4, Zenon
  <2>2. 2 * (s + e) > s
    BY <1>6, SMT
  <2>3. Round(d, s) = m
    BY <2>1, <2>2, SMT DEF Round
  <2>4. Missed(d, s) = m - 1
    <3>1. CASE d > s
      BY <2>3, <3>1, SMT DEF Missed
    <3>2. CASE ~(d > s)
      <4>1. m = 1
        BY <1>2, <1>3, <1>6, <3>2, SMT
      <4>2. QED
        BY <3>2, <4>1, SMT DEF Missed
    <3>3. QED
      BY <3>1, <3>2, Zenon
  <2>5. QED
    BY <1>1, <1>3, <1>4, <2>4, SMT
<1>7. QED
  BY <1>5, <1>6, SMT

(* The rows of a log, the sample that each row shows, and those that the    *)
(* page got at all; val are the samples' numbers. *)
Log(rows, ix, live, val) ==
    /\ rows \in Seq(Int) /\ live \subseteq Nat
    /\ ix \in [1..Len(rows) -> live]
    /\ \A i \in 1..Len(rows) : rows[i] = val[ix[i]]
    /\ \A i, j \in 1..Len(rows) : i <= j => ix[i] <= ix[j]
    /\ \A l \in live : \E i \in 1..Len(rows) : ix[i] = l
Lacks(p, live) == {i \in (1..p) \ live : \E a, b \in live : a < i /\ i < b}
Gap(rows, ix, i, l) == i \in 1..(Len(rows) - 1) /\ ix[i] < l /\ l < ix[i + 1]

(* The page got no sample between two rows that follow each other.          *)
LEMMA NoneBetween ==
    ASSUME NEW rows, NEW ix, NEW live, NEW val, Log(rows, ix, live, val),
           NEW i, NEW l \in live
    PROVE  ~Gap(rows, ix, i, l)
<1>1. SUFFICES ASSUME Gap(rows, ix, i, l)
               PROVE  FALSE
  OBVIOUS
<1>2. PICK n \in Nat : n = Len(rows)
  BY LenProperties DEF Log
<1>3. i \in 1..n /\ i + 1 \in 1..n
  BY <1>1, <1>2 DEF Gap
<1>4. PICK j \in 1..n : ix[j] = l
  BY <1>2 DEF Log
<1>5. ix[i] \in Nat /\ ix[i + 1] \in Nat /\ ix[j] \in Nat
  BY <1>2, <1>3, <1>4 DEF Log
<1>6. j <= i \/ i + 1 <= j
  BY <1>3, <1>4
<1>7. j <= i => ix[j] <= ix[i]
  BY <1>2, <1>3, <1>4 DEF Log
<1>8. i + 1 <= j => ix[i + 1] <= ix[j]
  BY <1>2, <1>3, <1>4 DEF Log
<1>9. ix[i] < l /\ l < ix[i + 1]
  BY <1>1 DEF Gap
<1>10. QED
  BY <1>4, <1>5, <1>6, <1>7, <1>8, <1>9

(* A sample that is lacking lies in a gap between two rows.                 *)
LEMMA GapAround ==
    ASSUME NEW rows, NEW ix, NEW live, NEW val, Log(rows, ix, live, val),
           NEW p \in Nat, NEW l \in Lacks(p, live)
    PROVE  \E i : Gap(rows, ix, i, l)
<1>1. PICK n \in Nat : n = Len(rows)
  BY LenProperties DEF Log
<1>2. l \in Nat /\ l \notin live
  BY DEF Lacks
<1>3. PICK a \in live, b \in live : a < l /\ l < b
  BY DEF Lacks
<1>4. PICK f \in 1..n : ix[f] = a
  BY <1>1 DEF Log
<1>5. PICK g \in 1..n : ix[g] = b
  BY <1>1 DEF Log
<1>6. \A j \in 1..n : ix[j] \in Nat /\ ix[j] # l
  <2>1. ix \in [1..n -> live] /\ live \subseteq Nat
    BY <1>1 DEF Log
  <2>2. QED
    BY <1>2, <2>1
<1>7. SUFFICES ASSUME \A i : ~Gap(rows, ix, i, l)
               PROVE  FALSE
  OBVIOUS
<1> DEFINE Before == {k \in Nat : f + k <= n => ix[f + k] < l}
<1>8. 0 \in Before
  BY <1>3, <1>4
<1>9. ASSUME NEW k \in Nat, k \in Before
      PROVE  k + 1 \in Before
  <2>1. SUFFICES ASSUME f + (k + 1) <= n
                 PROVE  ix[f + (k + 1)] < l
    OBVIOUS
  <2>2. f + k \in 1..(n - 1) /\ f + (k + 1) = (f + k) + 1 /\ f + k <= n
    BY <2>1
  <2>3. ix[f + k] < l
    BY <1>9, <2>2
  <2>4. ~Gap(rows, ix, f + k, l)
    BY <1>7, Zenon
  <2>5. ~(l < ix[(f + k) + 1])
    BY <1>1, <2>2, <2>3, <2>4, Zenon DEF Gap
  <2>6. ix[(f + k) + 1] \in Nat /\ ix[(f + k) + 1] # l
    BY <1>6, <2>2
  <2>7. ix[(f + k) + 1] < l
    BY <1>2, <2>5, <2>6
  <2>8. QED
    BY <2>2, <2>7, Zenon
<1>10. \A k \in Nat : k \in Before
  <2> HIDE DEF Before
  <2>1. QED
    BY <1>8, <1>9, SetInduction
<1>11. f <= g
  <2>1. SUFFICES ASSUME g <= f
                 PROVE  FALSE
    BY <1>4, <1>5
  <2>2. ix[g] <= ix[f]
    BY <1>1, <1>4, <1>5, <2>1 DEF Log
  <2>3. QED
    BY <1>2, <1>3, <1>4, <1>5, <1>6, <2>2
<1>12. ix[g] < l
  <2>1. g - f \in Before
    <3>1. g - f \in Nat
      BY <1>4, <1>5, <1>11
    <3> HIDE DEF Before
    <3>2. QED
      BY <1>10, <3>1
  <2>2. f + (g - f) = g /\ g <= n
    BY <1>4, <1>5
  <2>3. QED
    BY <2>1, <2>2
<1>13. QED
  BY <1>2, <1>3, <1>5, <1>6, <1>12

-----------------------------------------------------------------------------
(* The usual step of a log *)

CountOf(rows, x) == Cardinality({i \in DOMAIN Diffs(rows) : Diffs(rows)[i] = x})
Outnumbers(rows, step) ==
    \A i \in DOMAIN Diffs(rows) :
      Diffs(rows)[i] \in {0, step} \/ CountOf(rows, Diffs(rows)[i]) < CountOf(rows, step)

(* The differences of the rows.                                             *)
LEMMA DiffsOf ==
    ASSUME NEW rows \in Seq(Int)
    PROVE  /\ Diffs(rows) \in [1..(Len(rows) - 1) -> Int]
           /\ DOMAIN Diffs(rows) = 1..(Len(rows) - 1)
           /\ \A i \in 1..(Len(rows) - 1) : Diffs(rows)[i] = rows[i + 1] - rows[i]
<1>1. PICK n \in Nat : n = Len(rows)
  BY LenProperties
<1>2. Diffs(rows) = [i \in 1..(n - 1) |-> rows[i + 1] - rows[i]]
  BY <1>1, Zenon DEF Diffs
<1>3. \A i \in 1..(n - 1) : rows[i + 1] \in Int /\ rows[i] \in Int
  BY <1>1, ElementOfSeq
<1>4. QED
  BY <1>1, <1>2, <1>3

(* Differences are counted in numbers.                                      *)
LEMMA CountIsNat ==
    ASSUME NEW rows \in Seq(Int), NEW x
    PROVE  /\ CountOf(rows, x) \in Nat
           /\ (\E i \in DOMAIN Diffs(rows) : Diffs(rows)[i] = x) <=> CountOf(rows, x) > 0
<1>1. PICK n \in Nat : n = Len(rows)
  BY LenProperties
<1>2. PICK D : D = DOMAIN Diffs(rows)
  OBVIOUS
<1>3. IsFiniteSet(D)
  <2>1. D = 1..(n - 1) /\ n - 1 \in Int /\ 1 \in Int
    BY <1>1, <1>2, DiffsOf
  <2>2. QED
    BY <2>1, FS_Interval, Zenon
<1>4. PICK S : S = {i \in D : Diffs(rows)[i] = x}
  OBVIOUS
<1>5. IsFiniteSet(S)
  <2>1. S \in SUBSET D
    BY <1>4
  <2>2. QED
    BY <1>3, <2>1, FS_Subset, Zenon
<1>6. Cardinality(S) \in Nat /\ (Cardinality(S) = 0 <=> S = {})
  BY <1>5, FS_CardinalityType, FS_EmptySet
<1>7. CountOf(rows, x) = Cardinality(S)
  BY <1>2, <1>4, Zenon DEF CountOf
<1>8. (\E i \in D : Diffs(rows)[i] = x) <=> S # {}
  BY <1>4
<1>9. QED
  BY <1>2, <1>6, <1>7, <1>8

(* Steps that advance are counted among all differences.                    *)
LEMMA CountIs ==
    ASSUME NEW rows, NEW i \in Advances(rows)
    PROVE  TimesTaken(rows, i) = CountOf(rows, Diffs(rows)[i])
<1>1. {j \in Advances(rows) : Diffs(rows)[j] = Diffs(rows)[i]}
        = {j \in DOMAIN Diffs(rows) : Diffs(rows)[j] = Diffs(rows)[i]}
  BY DEF Advances
<1>2. QED
  BY <1>1, Zenon DEF TimesTaken, CountOf

(* A set of numbers that is not empty has a least one.                      *)
LEMMA LeastOf ==
    ASSUME NEW S, S \subseteq Nat, S # {}
    PROVE  \E m \in S : \A n \in S : m <= n
<1>1. PICK m \in S : \A n \in S : ~(<<n, m>> \in OpToRel(<, Nat))
  BY NatLessThanWellFounded, WFMin
<1>2. ASSUME NEW e \in Nat, NEW n \in Nat, e < n
      PROVE  <<e, n>> \in OpToRel(<, Nat)
  BY <1>2 DEF OpToRel
<1>3. \A n \in S : ~(n < m)
  BY <1>1, <1>2
<1>4. QED
  BY <1>3

(* A step that outnumbers every other one is the one that is taken.         *)
LEMMA UsualTaken ==
    ASSUME NEW rows \in Seq(Int), NEW step \in Nat \ {0}, Outnumbers(rows, step),
           Advances(rows) # {}
    PROVE  NominalStep(rows) = step
<1>1. PICK d : d = Diffs(rows)
  OBVIOUS
<1>2. PICK A : A = Advances(rows)
  OBVIOUS
<1>3. PICK n \in Nat : n = Len(rows)
  BY LenProperties
<1>4. DOMAIN d = 1..(n - 1) /\ d \in [1..(n - 1) -> Int]
  BY <1>1, <1>3, DiffsOf
<1>5. A = {i \in 1..(n - 1) : d[i] > 0}
  BY <1>1, <1>2, <1>4, Zenon DEF Advances
<1>6. \A i \in A : d[i] = step \/ CountOf(rows, d[i]) < CountOf(rows, step)
  <2>1. ASSUME NEW i \in A PROVE d[i] = step \/ CountOf(rows, d[i]) < CountOf(rows, step)
    <3>1. i \in DOMAIN d /\ d[i] > 0
      BY <1>4, <1>5
    <3>2. d[i] \in {0, step} \/ CountOf(rows, d[i]) < CountOf(rows, step)
      BY <1>1, <3>1, Zenon DEF Outnumbers
    <3>3. d[i] # 0
      BY <3>1
    <3>4. QED
      BY <3>2, <3>3, Zenon
  <2>2. QED
    BY <2>1, Zenon
<1>7. \A x : CountOf(rows, x) \in Nat
  BY CountIsNat, Zenon
<1> DEFINE S == {i \in 1..(n - 1) : d[i] = step}
<1>8. S # {}
  <2>1. PICK i \in A : TRUE
    BY <1>2
  <2>2. CASE d[i] = step
    BY <1>5, <2>1, <2>2
  <2>3. CASE CountOf(rows, d[i]) < CountOf(rows, step)
    <3>1. CountOf(rows, step) > 0
      BY <1>7, <2>3
    <3>2. \E j \in DOMAIN d : d[j] = step
      BY <1>1, <3>1, CountIsNat
    <3>3. QED
      BY <1>4, <3>2
  <2>4. QED
    BY <1>6, <2>2, <2>3
<1>9. PICK m \in S : \A i \in S : m <= i
  <2>1. S \subseteq Nat
    OBVIOUS
  <2> HIDE DEF S
  <2>2. QED
    BY <1>8, <2>1, LeastOf
<1>10. m \in A /\ d[m] = step
  BY <1>5, <1>9
<1>11. \A i \in A : TimesTaken(rows, i) = CountOf(rows, d[i])
  BY <1>1, <1>2, CountIs
<1>12. IsCommonest(rows, m)
  <2>1. ASSUME NEW j \in A
        PROVE  \/ TimesTaken(rows, j) < TimesTaken(rows, m)
               \/ TimesTaken(rows, j) = TimesTaken(rows, m) /\ m <= j
    <3>1. CASE d[j] = step
      <4>1. j \in S
        BY <1>5, <3>1
      <4>2. m <= j
        BY <1>9, <4>1
      <4>3. QED
        BY <1>10, <1>11, <3>1, <4>2, Zenon
    <3>2. CASE d[j] # step
      BY <1>6, <1>10, <1>11, <3>2, Zenon
    <3>3. QED
      BY <3>1, <3>2
  <2>2. QED
    BY <1>2, <2>1, Zenon DEF IsCommonest
<1>13. PICK c \in A : IsCommonest(rows, c) /\ MostCommon(rows) = d[c]
  <2>1. \E i \in Advances(rows) : IsCommonest(rows, i)
    BY <1>2, <1>10, <1>12, Zenon
  <2>2. (CHOOSE i \in Advances(rows) : IsCommonest(rows, i)) \in Advances(rows)
        /\ IsCommonest(rows, CHOOSE i \in Advances(rows) : IsCommonest(rows, i))
    BY <2>1
  <2>3. QED
    BY <1>1, <1>2, <2>2, Zenon DEF MostCommon
<1>14. d[c] = step
  <2>1. c \in A /\ IsCommonest(rows, c)
    BY <1>13, Zenon
  <2>2. ~(CountOf(rows, d[c]) < CountOf(rows, step))
    <3>1. \/ CountOf(rows, step) < CountOf(rows, d[c])
          \/ CountOf(rows, step) = CountOf(rows, d[c])
      BY <1>2, <1>10, <1>11, <2>1, Zenon DEF IsCommonest
    <3>2. CountOf(rows, step) \in Nat /\ CountOf(rows, d[c]) \in Nat
      BY <1>7
    <3>3. QED
      BY <3>1, <3>2
  <2>3. QED
    BY <1>6, <2>1, <2>2, Zenon
<1>15. NominalStep(rows) = IF Advances(rows) # {} /\ d[c] > 0 THEN d[c] ELSE 1
  BY <1>13, Zenon DEF NominalStep
<1>16. QED
  BY <1>14, <1>15

-----------------------------------------------------------------------------
(* The missing samples of a log *)

\* numbers are a step apart, or drift by 1 where a step is above 4
Numbered(val, off, live, step) ==
    /\ step \in Nat \ {0}
    /\ \A l \in live : off[l] \in -1..1 /\ val[l] = step * l + off[l]
    /\ step > 4 \/ \A l \in live : off[l] = 0
LogOf(rows, ix, live, val, off, step) ==
    Log(rows, ix, live, val) /\ Numbered(val, off, live, step)

(* What a row and the next one say of the samples between them.             *)
LEMMA BetweenRows ==
    ASSUME NEW rows, NEW ix, NEW live, NEW val, NEW off, NEW step,
           LogOf(rows, ix, live, val, off, step), NEW i \in 1..(Len(rows) - 1)
    PROVE  /\ ix[i] \in live /\ ix[i + 1] \in live /\ ix[i] \in Nat /\ ix[i + 1] \in Nat
           /\ ix[i] <= ix[i + 1]
           /\ ix[i] = ix[i + 1] => Diffs(rows)[i] = 0
           /\ ix[i] < ix[i + 1] =>
                Diffs(rows)[i] > 0 /\ Missed(Diffs(rows)[i], step) = ix[i + 1] - ix[i] - 1
<1>1. PICK n \in Nat : n = Len(rows)
  BY LenProperties DEF Log, LogOf
<1>2. i \in 1..n /\ i + 1 \in 1..n /\ i <= i + 1
  BY <1>1
<1>3. PICK a : a = ix[i]
  OBVIOUS
<1>4. PICK b : b = ix[i + 1]
  OBVIOUS
<1>5. a \in live /\ b \in live /\ a \in Nat /\ b \in Nat
  <2>1. ix \in [1..n -> live] /\ live \subseteq Nat
    BY <1>1 DEF Log, LogOf
  <2>2. QED
    BY <1>2, <1>3, <1>4, <2>1
<1>6. a <= b
  BY <1>1, <1>2, <1>3, <1>4 DEF Log, LogOf
<1>7. PICK d : d = Diffs(rows)[i]
  OBVIOUS
<1>8. d = val[b] - val[a]
  <2>1. rows[i] = val[a] /\ rows[i + 1] = val[b]
    BY <1>1, <1>2, <1>3, <1>4, Zenon DEF Log, LogOf
  <2>2. d = rows[i + 1] - rows[i]
    BY <1>7, DiffsOf DEF Log, LogOf
  <2>3. QED
    BY <2>1, <2>2, Zenon
<1>9. PICK oa \in -1..1 : oa = off[a]
  BY <1>5 DEF LogOf, Numbered
<1>10. PICK ob \in -1..1 : ob = off[b]
  BY <1>5 DEF LogOf, Numbered
<1>11. val[a] = step * a + oa /\ val[b] = step * b + ob /\ step \in Nat \ {0}
  BY <1>5, <1>9, <1>10, Zenon DEF LogOf, Numbered
<1>12. ob - oa = 0 \/ step > 4
  <2>1. CASE step > 4
    BY <2>1
  <2>2. CASE \A l \in live : off[l] = 0
    BY <1>5, <1>9, <1>10, <2>2
  <2>3. QED
    BY <2>1, <2>2, Zenon DEF LogOf, Numbered
<1>13. a = b => d = 0
  <2>1. CASE a = b
    <3>1. oa = ob
      BY <1>9, <1>10, <2>1, Zenon
    <3>2. PICK f \in Int : f = step * a
      BY <1>5, <1>11
    <3>3. QED
      BY <1>8, <1>11, <2>1, <3>1, <3>2
  <2>2. QED
    BY <2>1
<1>14. a < b => d > 0 /\ Missed(d, step) = b - a - 1
  <2>1. SUFFICES ASSUME a < b
                 PROVE  d > 0 /\ Missed(d, step) = b - a - 1
    OBVIOUS
  <2>2. PICK m \in Nat \ {0} : m = b - a
    BY <1>5, <2>1
  <2>3. PICK e \in -2..2 : e = ob - oa
    OBVIOUS
  <2>4. e = 0 \/ step > 4
    BY <1>12, <2>3
  <2>5. step * m + e > 0 /\ Missed(step * m + e, step) = m - 1
    BY <1>11, <2>4, GapCounted
  <2>6. d = step * m + e
    <3>1. step * m = step * b - step * a
      BY <1>5, <1>11, <2>2, SMT
    <3>2. PICK f \in Int : f = step * a
      BY <1>5, <1>11
    <3>3. PICK g \in Int : g = step * b
      BY <1>5, <1>11
    <3>4. val[a] = f + oa /\ val[b] = g + ob /\ step * m = g - f
      BY <1>11, <3>1, <3>2, <3>3, Zenon
    <3>5. d = (g + ob) - (f + oa)
      BY <1>8, <3>4, Zenon
    <3>6. step * m + e = (g - f) + (ob - oa)
      BY <2>3, <3>4, Zenon
    <3>7. (g + ob) - (f + oa) = (g - f) + (ob - oa)
      OBVIOUS
    <3>8. QED
      BY <3>5, <3>6, <3>7, Zenon
  <2>7. m - 1 = b - a - 1
    BY <1>5, <2>2
  <2>8. QED
    BY <2>5, <2>6, <2>7, Zenon
<1>15. QED
  BY <1>3, <1>4, <1>5, <1>6, <1>7, <1>13, <1>14, Zenon

\* what the analysis expects in the place of sample l
Expects(rows, ix, off, step, x, l) ==
    \E i \in 1..(Len(rows) - 1) : Gap(rows, ix, i, l) /\ x = step * l + off[ix[i]]

(* Each sample that is lacking is expected as one number, and no two as the *)
(* same one.                                                                *)
LEMMA ExpectedOnce ==
    ASSUME NEW rows, NEW ix, NEW live, NEW val, NEW off, NEW step,
           LogOf(rows, ix, live, val, off, step), NEW p \in Nat
    PROVE  /\ \A l \in Lacks(p, live) : \E x \in Int : Expects(rows, ix, off, step, x, l)
           /\ \A l \in Lacks(p, live) : \A x, y :
                Expects(rows, ix, off, step, x, l) /\ Expects(rows, ix, off, step, y, l) => x = y
           /\ \A l, k \in Lacks(p, live) : \A x :
                Expects(rows, ix, off, step, x, l) /\ Expects(rows, ix, off, step, x, k) => l = k
<1>1. \A l \in Lacks(p, live) : l \in Nat
  BY DEF Lacks
<1>2. step \in Nat \ {0}
  BY DEF LogOf, Numbered
<1>3. ASSUME NEW i \in 1..(Len(rows) - 1) PROVE ix[i] \in live /\ off[ix[i]] \in -1..1
  <2>1. ix[i] \in live
    BY BetweenRows
  <2>2. QED
    BY <2>1, Zenon DEF LogOf, Numbered
<1>4. ASSUME NEW l \in Lacks(p, live)
      PROVE  \E x \in Int : Expects(rows, ix, off, step, x, l)
  <2>1. PICK i : Gap(rows, ix, i, l)
    BY GapAround DEF LogOf
  <2>2. i \in 1..(Len(rows) - 1)
    BY <2>1, Zenon DEF Gap
  <2>3. PICK o \in -1..1 : o = off[ix[i]]
    BY <1>3, <2>2, Zenon
  <2>4. step * l + o \in Int
    BY <1>1, <1>2
  <2>5. QED
    BY <2>1, <2>2, <2>3, <2>4, Zenon DEF Expects
<1>5. ASSUME NEW l \in Lacks(p, live), NEW x, NEW y,
             Expects(rows, ix, off, step, x, l), Expects(rows, ix, off, step, y, l)
      PROVE  x = y
  <2>1. PICK i \in 1..(Len(rows) - 1) : Gap(rows, ix, i, l) /\ x = step * l + off[ix[i]]
    BY <1>5, Zenon DEF Expects
  <2>2. PICK j \in 1..(Len(rows) - 1) : Gap(rows, ix, j, l) /\ y = step * l + off[ix[j]]
    BY <1>5, Zenon DEF Expects
  <2>3. PICK a \in Nat : a = ix[i] /\ a \in live
    BY BetweenRows
  <2>4. PICK b \in Nat : b = ix[j] /\ b \in live
    BY BetweenRows
  <2>5. ix[i + 1] \in Nat /\ ix[j + 1] \in Nat /\ l \in Nat
    BY <1>1, BetweenRows
  <2>6. a < l /\ l < ix[i + 1] /\ b < l /\ l < ix[j + 1]
    BY <2>1, <2>2, <2>3, <2>4, Zenon DEF Gap
  <2>7. ~(a < b)
    <3>1. ~Gap(rows, ix, i, b)
      BY <2>4, NoneBetween DEF LogOf
    <3>2. a < b => Gap(rows, ix, i, b)
      <4>1. b < ix[i + 1]
        BY <2>5, <2>6
      <4>2. QED
        BY <2>3, <4>1, Zenon DEF Gap
    <3>3. QED
      BY <3>1, <3>2, Zenon
  <2>8. ~(b < a)
    <3>1. ~Gap(rows, ix, j, a)
      BY <2>3, NoneBetween DEF LogOf
    <3>2. b < a => Gap(rows, ix, j, a)
      <4>1. a < ix[j + 1]
        BY <2>5, <2>6
      <4>2. QED
        BY <2>4, <4>1, Zenon DEF Gap
    <3>3. QED
      BY <3>1, <3>2, Zenon
  <2>9. a = b
    BY <2>7, <2>8
  <2>10. QED
    BY <2>1, <2>2, <2>3, <2>4, <2>9, Zenon
<1>6. ASSUME NEW l \in Lacks(p, live), NEW k \in Lacks(p, live), NEW x,
             Expects(rows, ix, off, step, x, l), Expects(rows, ix, off, step, x, k)
      PROVE  l = k
  <2>1. PICK i \in 1..(Len(rows) - 1) : Gap(rows, ix, i, l) /\ x = step * l + off[ix[i]]
    BY <1>6, Zenon DEF Expects
  <2>2. PICK j \in 1..(Len(rows) - 1) : Gap(rows, ix, j, k) /\ x = step * k + off[ix[j]]
    BY <1>6, Zenon DEF Expects
  <2>3. PICK oi \in -1..1 : oi = off[ix[i]]
    BY <1>3, Zenon
  <2>4. PICK oj \in -1..1 : oj = off[ix[j]]
    BY <1>3, Zenon
  <2>5. step * l + oi = step * k + oj
    BY <2>1, <2>2, <2>3, <2>4, Zenon
  <2>6. step > 4 \/ oi = oj
    <3>1. CASE step > 4
      BY <3>1
    <3>2. CASE \A r \in live : off[r] = 0
      BY <1>3, <2>3, <2>4, <3>2, Zenon
    <3>3. QED
      BY <3>1, <3>2, Zenon DEF LogOf, Numbered
  <2>7. l \in Nat /\ k \in Nat
    BY <1>1, Zenon
  <2>8. PICK q \in Int : q = l - k
    BY <2>7
  <2>9. step * q = oj - oi
    <3>1. step * q = step * l - step * k
      BY <1>2, <2>7, <2>8, SMT
    <3>2. PICK f \in Int : f = step * l
      BY <1>2, <2>7
    <3>3. PICK g \in Int : g = step * k
      BY <1>2, <2>7
    <3>4. QED
      BY <2>5, <3>1, <3>2, <3>3, SMTT(20)
  <2>10. ~(q >= 1) /\ ~(q <= -1)
    <3>1. (q >= 1 => step * q >= step) /\ (q <= -1 => step * q <= -step)
      BY <1>2, Multiple
    <3>2. PICK f \in Int : f = step * q
      BY <1>2
    <3>3. QED
      BY <1>2, <2>6, <2>9, <3>1, <3>2
  <2>11. QED
    BY <2>7, <2>8, <2>10
<1>7. QED
  BY <1>4, <1>5, <1>6, Zenon

(* The analysis expects what the samples that are lacking are expected as.  *)
LEMMA ExpectedAre ==
    ASSUME NEW rows, NEW ix, NEW live, NEW val, NEW off, NEW step,
           LogOf(rows, ix, live, val, off, step), Outnumbers(rows, step),
           NEW p \in Nat, live \subseteq 1..p
    PROVE  \A x : x \in MissingExpected(rows) <=>
                    \E l \in Lacks(p, live) : Expects(rows, ix, off, step, x, l)
<1>1. PICK n \in Nat : n = Len(rows)
  BY LenProperties DEF Log, LogOf
<1>2. rows \in Seq(Int) /\ step \in Nat \ {0}
  BY Zenon DEF Log, LogOf, Numbered
<1>3. PICK ns : ns = NominalStep(rows)
  OBVIOUS
<1>4. ns = step \/ (ns = 1 /\ Advances(rows) = {})
  <2>1. Advances(rows) = {} => ns = 1
    BY <1>3, Zenon DEF NominalStep
  <2>2. Advances(rows) # {} => ns = step
    BY <1>2, <1>3, UsualTaken
  <2>3. QED
    BY <2>1, <2>2, Zenon
<1>5. ASSUME NEW i \in 1..(n - 1)
      PROVE  /\ ix[i] = ix[i + 1] => MissingAfter(rows, ns, i) = 0
             /\ ix[i] < ix[i + 1] =>
                  ns = step /\ MissingAfter(rows, ns, i) = ix[i + 1] - ix[i] - 1
  <2>1. MissingAfter(rows, ns, i) = Missed(Diffs(rows)[i], ns)
    BY Zenon DEF MissingAfter, Missed
  <2>2. i \in 1..(Len(rows) - 1)
    BY <1>1
  <2>3. CASE ix[i] = ix[i + 1]
    <3>1. Diffs(rows)[i] = 0
      BY <2>2, <2>3, BetweenRows
    <3>2. ~(0 > ns)
      BY <1>2, <1>4
    <3>3. MissingAfter(rows, ns, i) = 0
      BY <2>1, <3>1, <3>2, Zenon DEF Missed
    <3>4. ~(ix[i] < ix[i + 1])
      <4>1. ix[i] \in Nat
        BY <2>2, BetweenRows
      <4>2. QED
        BY <2>3, <4>1
    <3>5. QED
      BY <3>3, <3>4, Zenon
  <2>4. CASE ix[i] < ix[i + 1]
    <3>1. Diffs(rows)[i] > 0 /\ Missed(Diffs(rows)[i], step) = ix[i + 1] - ix[i] - 1
      BY <2>2, <2>4, BetweenRows
    <3>2. i \in Advances(rows)
      BY <1>2, <2>2, <3>1, DiffsOf, Zenon DEF Advances
    <3>3. ns = step
      BY <1>4, <3>2
    <3>4. ix[i] \in Nat /\ ix[i] # ix[i + 1]
      <4>1. ix[i] \in Nat /\ ix[i + 1] \in Nat
        BY <2>2, BetweenRows
      <4>2. QED
        BY <2>4, <4>1
    <3>5. QED
      BY <2>1, <3>1, <3>3, <3>4, Zenon
  <2>5. QED
    BY <2>3, <2>4
<1>6. \A i \in 1..(n - 1) :
        ix[i] \in Nat /\ ix[i + 1] \in Nat /\ ix[i] \in live /\ ix[i + 1] \in live
        /\ (ix[i] = ix[i + 1] \/ ix[i] < ix[i + 1]) /\ off[ix[i]] \in Int
        /\ rows[i] = step * ix[i] + off[ix[i]]
  <2>1. ASSUME NEW i \in 1..(n - 1)
        PROVE  ix[i] \in Nat /\ ix[i + 1] \in Nat /\ ix[i] \in live /\ ix[i + 1] \in live
               /\ (ix[i] = ix[i + 1] \/ ix[i] < ix[i + 1]) /\ off[ix[i]] \in Int
               /\ rows[i] = step * ix[i] + off[ix[i]]
    <3>1. i \in 1..(Len(rows) - 1) /\ i \in 1..Len(rows)
      BY <1>1
    <3>2. ix[i] \in live /\ ix[i + 1] \in live /\ ix[i] \in Nat /\ ix[i + 1] \in Nat
          /\ ix[i] <= ix[i + 1]
      BY <3>1, BetweenRows
    <3>3. rows[i] = val[ix[i]]
      BY <3>1, Zenon DEF Log, LogOf
    <3>4. off[ix[i]] \in -1..1 /\ val[ix[i]] = step * ix[i] + off[ix[i]]
      BY <3>2, Zenon DEF LogOf, Numbered
    <3>5. ix[i] = ix[i + 1] \/ ix[i] < ix[i + 1]
      BY <3>2
    <3>6. off[ix[i]] \in Int
      BY <3>4
    <3>7. QED
      BY <3>2, <3>3, <3>4, <3>5, <3>6, Zenon
  <2>2. QED
    BY <2>1, Zenon
<1>7. \A x : x \in MissingExpected(rows) <=>
               \E i \in 1..(n - 1) : \E k \in 1..MissingAfter(rows, ns, i) :
                 x = rows[i] + ns * k
  BY <1>1, <1>3 DEF MissingExpected
<1>8. ASSUME NEW x, NEW i \in 1..(n - 1), NEW k \in 1..MissingAfter(rows, ns, i),
             x = rows[i] + ns * k
      PROVE  \E l \in Lacks(p, live) : Expects(rows, ix, off, step, x, l)
  <2>1. ix[i] < ix[i + 1]
    <3>1. ix[i] = ix[i + 1] => MissingAfter(rows, ns, i) = 0
      BY <1>5
    <3>2. MissingAfter(rows, ns, i) # 0
      BY <1>8
    <3>3. QED
      BY <1>6, <3>1, <3>2, Zenon
  <2>2. PICK a \in Nat : a = ix[i]
    BY <1>6
  <2>3. PICK b \in Nat : b = ix[i + 1]
    BY <1>6
  <2>4. ns = step /\ k \in 1..(b - a - 1)
    BY <1>5, <2>1, <2>2, <2>3, Zenon
  <2>5. PICK l \in Nat : l = a + k
    BY <2>4
  <2>6. a < l /\ l < b
    BY <2>4, <2>5
  <2>7. Gap(rows, ix, i, l)
    BY <1>1, <2>2, <2>3, <2>6, Zenon DEF Gap
  <2>8. l \in Lacks(p, live)
    <3>1. l \notin live
      BY <2>7, NoneBetween DEF LogOf
    <3>2. a \in live /\ b \in live
      BY <1>6, <2>2, <2>3, Zenon
    <3>3. b \in 1..p
      BY <3>2
    <3>4. l \in 1..p
      BY <2>6, <3>3
    <3>5. QED
      BY <2>6, <3>1, <3>2, <3>4, Zenon DEF Lacks
  <2>9. PICK o \in Int : o = off[a]
    BY <1>6, <2>2, Zenon
  <2>10. x = step * l + o
    <3>1. x = (step * a + o) + step * k
      BY <1>6, <1>8, <2>2, <2>4, <2>9, Zenon
    <3>2. step * l = step * a + step * k
      BY <1>2, <2>4, <2>5, SMT
    <3>3. PICK f \in Int : f = step * a
      BY <1>2
    <3>4. PICK g \in Int : g = step * k
      BY <1>2, <2>4
    <3>5. QED
      BY <3>1, <3>2, <3>3, <3>4
  <2>11. Expects(rows, ix, off, step, x, l)
    BY <1>1, <2>2, <2>7, <2>9, <2>10, Zenon DEF Expects
  <2>12. QED
    BY <2>8, <2>11, Zenon
<1>9. ASSUME NEW x, NEW l \in Lacks(p, live), Expects(rows, ix, off, step, x, l)
      PROVE  \E i \in 1..(n - 1) : \E k \in 1..MissingAfter(rows, ns, i) :
               x = rows[i] + ns * k
  <2>1. PICK i \in 1..(n - 1) : Gap(rows, ix, i, l) /\ x = step * l + off[ix[i]]
    BY <1>1, <1>9, Zenon DEF Expects
  <2>2. PICK a \in Nat : a = ix[i]
    BY <1>6
  <2>3. PICK b \in Nat : b = ix[i + 1]
    BY <1>6
  <2>4. a < l /\ l < b /\ l \in Nat
    <3>1. l \in Nat
      BY DEF Lacks
    <3>2. QED
      BY <2>1, <2>2, <2>3, <3>1, Zenon DEF Gap
  <2>5. a < b
    BY <2>4
  <2>6. ns = step /\ MissingAfter(rows, ns, i) = b - a - 1
    BY <1>5, <2>2, <2>3, <2>5, Zenon
  <2>7. PICK k \in Nat : k = l - a
    BY <2>4
  <2>8. k \in 1..MissingAfter(rows, ns, i)
    <3>1. k \in 1..(b - a - 1)
      BY <2>4, <2>7
    <3>2. QED
      BY <2>6, <3>1, Zenon
  <2>9. PICK o \in Int : o = off[a]
    BY <1>6, <2>2, Zenon
  <2>10. x = rows[i] + ns * k
    <3>1. x = step * l + o /\ rows[i] + ns * k = (step * a + o) + step * k
      BY <1>6, <2>1, <2>2, <2>6, <2>9, Zenon
    <3>2. step * l = step * a + step * k
      BY <1>2, <2>4, <2>7, SMT
    <3>3. PICK f \in Int : f = step * a
      BY <1>2
    <3>4. PICK g \in Int : g = step * k
      BY <1>2
    <3>5. QED
      BY <3>1, <3>2, <3>3, <3>4
  <2>11. QED
    BY <2>8, <2>10, Zenon
<1>10. QED
  BY <1>7, <1>8, <1>9, Zenon

\* as many numbers are found as samples lack, their own if none drifts
CountedRight(found, lacks, live, off, step) ==
    /\ IsFiniteSet(lacks) /\ Cardinality(found) = Cardinality(lacks)
    /\ (\A l \in live : off[l] = 0) => found = {step * l : l \in lacks}

(* There are as many of them as samples are lacking, and where numbers do   *)
(* not drift they are those samples' numbers.                               *)
LEMMA ExpectedCounted ==
    ASSUME NEW rows, NEW ix, NEW live, NEW val, NEW off, NEW step,
           LogOf(rows, ix, live, val, off, step), Outnumbers(rows, step),
           NEW p \in Nat, live \subseteq 1..p
    PROVE  CountedRight(MissingExpected(rows), Lacks(p, live), live, off, step)
<1>1. PICK lacks : lacks = Lacks(p, live)
  OBVIOUS
<1>2. PICK found : found = MissingExpected(rows)
  OBVIOUS
<1> DEFINE E(x, l) == Expects(rows, ix, off, step, x, l)
<1>3. \A x : x \in found <=> \E l \in lacks : E(x, l)
  BY <1>1, <1>2, ExpectedAre
<1>4. /\ \A l \in lacks : \E x \in Int : E(x, l)
      /\ \A l \in lacks : \A x, y : E(x, l) /\ E(y, l) => x = y
      /\ \A l, k \in lacks : \A x : E(x, l) /\ E(x, k) => l = k
  BY <1>1, ExpectedOnce
<1>5. IsFiniteSet(lacks)
  <2>1. lacks \in SUBSET (1..p)
    BY <1>1 DEF Lacks
  <2>2. IsFiniteSet(1..p)
    BY FS_Interval
  <2>3. QED
    BY <2>1, <2>2, FS_Subset, Zenon
<1>6. ExistsBijection(lacks, found)
  <2> DEFINE V == [l \in lacks |-> CHOOSE x \in Int : E(x, l)]
  <2> HIDE DEF E
  <2>1. \A l \in lacks : E(V[l], l)
    BY <1>4
  <2>2. V \in [lacks -> found]
    BY <1>3, <2>1
  <2> HIDE DEF V
  <2>3. \A l, k \in lacks : V[l] = V[k] => l = k
    BY <1>4, <2>1, Zenon
  <2>4. ASSUME NEW x \in found PROVE \E l \in lacks : V[l] = x
    <3>1. PICK l \in lacks : E(x, l)
      BY <1>3, Zenon
    <3>2. E(V[l], l)
      BY <2>1, Zenon
    <3>3. V[l] = x
      BY <1>4, <3>1, <3>2, Zenon
    <3>4. QED
      BY <3>3, Zenon
  <2>5. V \in Bijection(lacks, found)
    BY <2>2, <2>3, <2>4 DEF Bijection, Injection, Surjection, IsInjective
  <2>6. QED
    BY <2>5 DEF ExistsBijection
<1>7. Cardinality(found) = Cardinality(lacks)
  BY <1>5, <1>6, FS_Bijection, Zenon
<1>8. ASSUME \A l \in live : off[l] = 0
      PROVE  found = {step * l : l \in lacks}
  <2>1. ASSUME NEW x, NEW l \in lacks, E(x, l) PROVE x = step * l
    <3>1. PICK i \in 1..(Len(rows) - 1) : x = step * l + off[ix[i]]
      BY <2>1, Zenon DEF Expects
    <3>2. off[ix[i]] = 0
      BY <1>8, BetweenRows
    <3>3. step * l \in Int
      BY <1>1 DEF Lacks, LogOf, Numbered
    <3>4. QED
      BY <3>1, <3>2, <3>3
  <2> HIDE DEF E
  <2>2. \A x : x \in found <=> \E l \in lacks : x = step * l
    <3>1. ASSUME NEW x \in found PROVE \E l \in lacks : x = step * l
      <4>1. PICK l \in lacks : E(x, l)
        BY <1>3, Zenon
      <4>2. QED
        BY <2>1, <4>1, Zenon
    <3>2. ASSUME NEW x, NEW l \in lacks, x = step * l PROVE x \in found
      <4>1. PICK y \in Int : E(y, l)
        BY <1>4, Zenon
      <4>2. y = step * l
        BY <2>1, <4>1, Zenon
      <4>3. QED
        BY <1>3, <3>2, <4>1, <4>2, Zenon
    <3>3. QED
      BY <3>1, <3>2, Zenon
  <2>3. QED
    BY <2>2
<1>9. QED
  BY <1>1, <1>2, <1>5, <1>7, <1>8, Zenon DEF CountedRight

-----------------------------------------------------------------------------
(* The live rows of a log *)

\* sample k + 1 is added c times
Adds(live, val, k, c, piece, more) ==
    /\ live \subseteq 1..k /\ val[k + 1] \in Int
    /\ piece = [t \in 1..c |-> val[k + 1]]
    /\ more = live \cup {j \in {k + 1} : c > 0}

(* A log to which a sample is added some times is a log.                    *)
LEMMA LogExtended ==
    ASSUME NEW rows, NEW ix, NEW live, NEW val, Log(rows, ix, live, val),
           NEW k \in Nat, NEW c \in Nat, NEW piece, NEW more,
           Adds(live, val, k, c, piece, more)
    PROVE  \E jx : Log(rows \o piece, jx, more, val)
<1>0. /\ live \subseteq 1..k /\ val[k + 1] \in Int
      /\ piece = [t \in 1..c |-> val[k + 1]]
      /\ more = live \cup {j \in {k + 1} : c > 0}
  BY Zenon DEF Adds
<1>1. PICK n \in Nat : n = Len(rows)
  BY LenProperties DEF Log
<1>2. rows \in Seq(Int) /\ ix \in [1..n -> live] /\ live \subseteq Nat
  BY <1>1, Zenon DEF Log
<1>3. piece \in Seq(Int) /\ Len(piece) = c
  <2>1. piece \in [1..c -> Int]
    BY <1>0
  <2>2. QED
    BY <2>1, FunctionIsSeq
<1>4. PICK all : all = rows \o piece
  OBVIOUS
<1>5. all \in Seq(Int) /\ Len(all) = n + c
      /\ \A i \in 1..(n + c) : all[i] = IF i <= n THEN rows[i] ELSE piece[i - n]
  BY <1>1, <1>2, <1>3, <1>4, ConcatProperties
<1>6. \A i \in 1..(n + c) : i <= n => all[i] = rows[i]
  BY <1>5
<1>7. \A i \in 1..(n + c) : ~(i <= n) => all[i] = val[k + 1] /\ c > 0
  <2>1. ASSUME NEW i \in 1..(n + c), ~(i <= n) PROVE all[i] = val[k + 1] /\ c > 0
    <3>1. all[i] = piece[i - n]
      BY <1>5, <2>1
    <3>2. i - n \in 1..c
      BY <2>1
    <3>3. QED
      BY <1>0, <3>1, <3>2
  <2>2. QED
    BY <2>1
<1>8. PICK jx : jx = [i \in 1..(n + c) |-> IF i <= n THEN ix[i] ELSE k + 1]
  OBVIOUS
<1>9. /\ \A i \in 1..(n + c) : i <= n => jx[i] = ix[i] /\ jx[i] \in live /\ jx[i] <= k
      /\ \A i \in 1..(n + c) : ~(i <= n) => jx[i] = k + 1
  <2>1. ASSUME NEW i \in 1..(n + c), i <= n
        PROVE  jx[i] = ix[i] /\ jx[i] \in live /\ jx[i] <= k
    <3>1. jx[i] = ix[i]
      BY <1>8, <2>1
    <3>2. i \in 1..n
      BY <2>1
    <3>3. ix[i] \in live
      BY <1>2, <3>2
    <3>4. ix[i] \in 1..k
      BY <1>0, <3>3
    <3>5. ix[i] <= k
      BY <3>4
    <3>6. QED
      BY <3>1, <3>3, <3>5, Zenon
  <2>2. ASSUME NEW i \in 1..(n + c), ~(i <= n) PROVE jx[i] = k + 1
    BY <1>8, <2>2
  <2>3. QED
    BY <2>1, <2>2, Zenon
<1>10. c > 0 => k + 1 \in more
  BY <1>0
<1>11. jx \in [1..Len(all) -> more]
  <2>1. \A i \in 1..(n + c) : jx[i] \in more
    BY <1>0, <1>7, <1>9, <1>10
  <2>2. QED
    BY <1>5, <1>8, <2>1
<1>12. \A i \in 1..Len(all) : all[i] = val[jx[i]]
  <2>1. ASSUME NEW i \in 1..(n + c) PROVE all[i] = val[jx[i]]
    <3>1. CASE i <= n
      <4>1. i \in 1..n
        BY <3>1
      <4>2. rows[i] = val[ix[i]]
        BY <1>1, <4>1 DEF Log
      <4>3. QED
        BY <1>6, <1>9, <3>1, <4>2, Zenon
    <3>2. CASE ~(i <= n)
      BY <1>7, <1>9, <3>2, Zenon
    <3>3. QED
      BY <3>1, <3>2
  <2>2. QED
    BY <1>5, <2>1
<1>13. \A i, j \in 1..Len(all) : i <= j => jx[i] <= jx[j]
  <2>1. ASSUME NEW i \in 1..(n + c), NEW j \in 1..(n + c), i <= j PROVE jx[i] <= jx[j]
    <3>1. CASE j <= n
      <4>1. i \in 1..n /\ j \in 1..n
        BY <2>1, <3>1
      <4>2. ix[i] <= ix[j]
        BY <1>1, <2>1, <4>1 DEF Log
      <4>3. i <= n
        BY <4>1
      <4>4. QED
        BY <1>9, <3>1, <4>2, <4>3, Zenon
    <3>2. CASE ~(j <= n)
      <4>1. jx[j] = k + 1
        BY <1>9, <3>2, Zenon
      <4>2. CASE i <= n
        <5>1. jx[i] \in live /\ jx[i] <= k
          BY <1>9, <4>2, Zenon
        <5>2. PICK x \in Nat : x = jx[i]
          BY <1>2, <5>1, Zenon
        <5>3. x <= k
          BY <5>1, <5>2, Zenon
        <5>4. x <= k + 1
          BY <5>3
        <5>5. QED
          BY <4>1, <5>2, <5>4, Zenon
      <4>3. CASE ~(i <= n)
        <5>1. jx[i] = k + 1 /\ k + 1 \in Int
          BY <1>9, <4>3
        <5>2. k + 1 <= k + 1
          OBVIOUS
        <5>3. QED
          BY <4>1, <5>1, <5>2, Zenon
      <4>4. QED
        BY <4>2, <4>3
    <3>3. QED
      BY <3>1, <3>2
  <2>2. QED
    BY <1>5, <2>1
<1>14. \A l \in more : \E i \in 1..Len(all) : jx[i] = l
  <2>1. ASSUME NEW l \in more PROVE \E i \in 1..(n + c) : jx[i] = l
    <3>1. CASE l \in live
      <4>1. PICK i \in 1..n : ix[i] = l
        BY <1>1, <3>1 DEF Log
      <4>2. i \in 1..(n + c) /\ i <= n
        OBVIOUS
      <4>3. QED
        BY <1>9, <4>1, <4>2, Zenon
    <3>2. CASE l \notin live
      <4>1. l = k + 1 /\ c > 0
        BY <1>0, <3>2
      <4>2. n + c \in 1..(n + c) /\ ~(n + c <= n)
        BY <4>1
      <4>3. QED
        BY <1>9, <4>1, <4>2, Zenon
    <3>3. QED
      BY <3>1, <3>2
  <2>2. QED
    BY <1>5, <2>1
<1>15. more \subseteq Nat
  <2>1. k + 1 \in Nat
    OBVIOUS
  <2>2. \A x \in more : x \in live \/ x = k + 1
    BY <1>0
  <2>3. live \subseteq Nat
    BY <1>2, Zenon
  <2>4. QED
    BY <2>1, <2>2, <2>3, Zenon
<1>16. all \in Seq(Int)
  BY <1>5, Zenon
<1>17. Log(all, jx, more, val)
  BY <1>11, <1>12, <1>13, <1>14, <1>15, <1>16, Zenon DEF Log
<1>18. QED
  BY <1>4, <1>17, Zenon

(* Sequences can be put together one after the other.                       *)
LEMMA PutTogether ==
    ASSUME NEW N \in Nat, NEW pieces \in [1..N -> Seq(Int)]
    PROVE  \E g \in [0..N -> Seq(Int)] :
             g[0] = <<>> /\ \A i \in 1..N : g[i] = g[i - 1] \o pieces[i]
<1> DEFINE Good == {m \in Nat : m <= N => \E g \in [0..m -> Seq(Int)] :
                      g[0] = <<>> /\ \A i \in 1..m : g[i] = g[i - 1] \o pieces[i]}
<1>1. 0 \in Good
  <2>1. PICK nothing \in Seq(Int) : nothing = <<>>
    <3>1. <<>> \in Seq(Int)
      BY EmptySeq
    <3>2. QED
      BY <3>1, Zenon
  <2>2. [i \in 0..0 |-> nothing] \in [0..0 -> Seq(Int)] /\ [i \in 0..0 |-> nothing][0] = nothing
    OBVIOUS
  <2>3. \A g : \A i \in 1..0 : g[i] = g[i - 1] \o pieces[i]
    OBVIOUS
  <2>4. QED
    BY <2>1, <2>2, <2>3
<1>2. ASSUME NEW m \in Nat, m \in Good
      PROVE  m + 1 \in Good
  <2>1. SUFFICES ASSUME m + 1 <= N
                 PROVE  \E g \in [0..(m + 1) -> Seq(Int)] :
                          g[0] = <<>> /\ \A i \in 1..(m + 1) : g[i] = g[i - 1] \o pieces[i]
    <3>1. m + 1 \in Nat
      OBVIOUS
    <3>2. QED
      BY <3>1, Zenon
  <2>2. m <= N
    BY <2>1
  <2>3. PICK g \in [0..m -> Seq(Int)] :
          g[0] = <<>> /\ \A i \in 1..m : g[i] = g[i - 1] \o pieces[i]
    BY <1>2, <2>2
  <2>4. PICK next \in Seq(Int) : next = g[m] \o pieces[m + 1]
    <3>1. g[m] \in Seq(Int) /\ pieces[m + 1] \in Seq(Int)
      BY <2>1
    <3>2. g[m] \o pieces[m + 1] \in Seq(Int)
      BY <3>1, Extended
    <3>3. QED
      BY <3>2
  <2>5. PICK h : h = [i \in 0..(m + 1) |-> IF i = m + 1 THEN next ELSE g[i]]
    OBVIOUS
  <2>6. h \in [0..(m + 1) -> Seq(Int)] /\ h[0] = g[0]
    BY <2>3, <2>4, <2>5
  <2>7. ASSUME NEW i \in 1..(m + 1)
        PROVE  h[i] = h[i - 1] \o pieces[i]
    <3>1. h[i - 1] = g[i - 1]
      BY <2>5
    <3>2. CASE i = m + 1
      <4>1. h[i] = next /\ i - 1 = m
        BY <2>5, <3>2
      <4>2. QED
        BY <2>4, <3>1, <3>2, <4>1, Zenon
    <3>3. CASE i # m + 1
      <4>1. h[i] = g[i] /\ i \in 1..m
        BY <2>5, <3>3
      <4>2. QED
        BY <2>3, <3>1, <4>1, Zenon
    <3>4. QED
      BY <3>2, <3>3
  <2>8. QED
    BY <2>3, <2>6, <2>7, Zenon
<1>3. \A m \in Nat : m \in Good
  <2> HIDE DEF Good
  <2>1. QED
    BY <1>1, <1>2, SetInduction
<1>4. N \in Good
  <2> HIDE DEF Good
  <2>1. QED
    BY <1>3
<1>5. N <= N
  OBVIOUS
<1>6. N \in Good => (N <= N => \E g \in [0..N -> Seq(Int)] :
                      g[0] = <<>> /\ \A i \in 1..N : g[i] = g[i - 1] \o pieces[i])
  OBVIOUS
<1>7. QED
  BY <1>4, <1>5, <1>6, Zenon

\* the rows that show sample i
Shown(i) == [t \in 1..input.times[i] |-> SeqOf(i)]

(* The rows of a log are put together sample by sample.                     *)
LEMMA RowsTogether ==
    ASSUME \A i \in 1..Published : Shown(i) \in Seq(Int)
    PROVE  /\ RowsTo \in [0..Published -> Seq(Int)] /\ RowsTo[0] = <<>>
           /\ \A i \in 1..Published : RowsTo[i] = RowsTo[i - 1] \o Shown(i)
<1>1. PICK N \in Nat : N = Published
  BY LogAssumption
<1>2. PICK pieces \in [1..N -> Seq(Int)] : \A i \in 1..N : pieces[i] = Shown(i)
  <2> HIDE DEF Shown
  <2>1. [i \in 1..N |-> Shown(i)] \in [1..N -> Seq(Int)]
    BY <1>1
  <2>2. \A i \in 1..N : [j \in 1..N |-> Shown(j)][i] = Shown(i)
    BY Zenon
  <2>3. QED
    BY <2>1, <2>2
<1>3. PICK g \in [0..N -> Seq(Int)] :
        g[0] = <<>> /\ \A i \in 1..N : g[i] = g[i - 1] \o pieces[i]
  BY PutTogether
<1> DEFINE Next_(f) == [i \in 0..N |-> IF i = 0 THEN <<>> ELSE f[i - 1] \o Shown(i)]
<1>4. g = Next_(g)
  <2> HIDE DEF Shown
  <2>1. ASSUME NEW i \in 0..N
        PROVE  g[i] = IF i = 0 THEN <<>> ELSE g[i - 1] \o Shown(i)
    <3>1. CASE i = 0
      BY <1>3, <3>1, Zenon
    <3>2. CASE i # 0
      <4>1. i \in 1..N
        BY <3>2
      <4>2. QED
        BY <1>2, <1>3, <3>2, <4>1, Zenon
    <3>3. QED
      BY <3>1, <3>2
  <2>2. QED
    BY <1>3, <2>1
<1>5. RowsTo = CHOOSE f : f = Next_(f)
  BY <1>1, Zenon DEF RowsTo, Shown
<1> HIDE DEF Next_
<1>6. RowsTo = Next_(RowsTo)
  BY <1>4, <1>5, Zenon
<1>7. PICK f : f = RowsTo
  OBVIOUS
<1>8. f = [i \in 0..N |-> IF i = 0 THEN <<>> ELSE f[i - 1] \o Shown(i)]
  BY <1>6, <1>7, Zenon DEF Next_
<1>9. f[0] = <<>> /\ \A i \in 1..N : f[i] = f[i - 1] \o Shown(i)
  <2> HIDE DEF Shown
  <2>1. f[0] = <<>>
    <3>1. 0 \in 0..N
      OBVIOUS
    <3>2. QED
      BY <1>8, <3>1, Zenon
  <2>2. ASSUME NEW i \in 1..N PROVE f[i] = f[i - 1] \o Shown(i)
    <3>1. i \in 0..N /\ i # 0
      OBVIOUS
    <3>2. QED
      BY <1>8, <3>1, Zenon
  <2>3. QED
    BY <2>1, <2>2, Zenon
<1>10. f \in [0..N -> Seq(Int)]
  <2> HIDE DEF Shown
  <2> DEFINE Good == {m \in Nat : m <= N => f[m] \in Seq(Int)}
  <2>1. 0 \in Good
    <3>1. f[0] \in Seq(Int)
      BY <1>9, EmptySeq
    <3>2. QED
      BY <3>1
  <2>2. ASSUME NEW m \in Nat, m \in Good PROVE m + 1 \in Good
    <3>1. SUFFICES ASSUME m + 1 <= N PROVE f[m + 1] \in Seq(Int)
      OBVIOUS
    <3>2. f[m] \in Seq(Int) /\ m + 1 \in 1..N /\ (m + 1) - 1 = m
      BY <2>2, <3>1
    <3>3. f[m + 1] = f[m] \o Shown(m + 1)
      BY <1>9, <3>2
    <3>4. Shown(m + 1) \in Seq(Int)
      BY <1>1, <3>2
    <3>5. f[m] \o Shown(m + 1) \in Seq(Int)
      BY <3>2, <3>4, Extended
    <3>6. QED
      BY <3>3, <3>5, Zenon
  <2>3. \A m \in Nat : m \in Good
    <3> HIDE DEF Good
    <3>1. QED
      BY <2>1, <2>2, SetInduction
  <2>4. \A i \in 0..N : f[i] \in Seq(Int)
    BY <2>3
  <2>5. DOMAIN f = 0..N
    BY <1>8, Zenon
  <2>6. f = [i \in 0..N |-> f[i]]
    BY <1>8, Zenon
  <2>7. QED
    BY <2>4, <2>5, <2>6
<1>11. QED
  BY <1>1, <1>7, <1>9, <1>10, Zenon

(* The live rows are a log of the samples that the page got.                *)
LEMMA LiveRowsLog ==
    ASSUME input.times \in [1..Published -> Nat],
           \A i \in 1..Published : SeqOf(i) \in Int
    PROVE  \E ix : Log(LiveRows, ix, Live, [i \in 1..Published |-> SeqOf(i)])
<1>1. PICK N \in Nat : N = Published
  BY LogAssumption
<1>2. PICK val \in [1..N -> Int] : val = [i \in 1..Published |-> SeqOf(i)]
  <2> HIDE DEF SeqOf
  <2>1. QED
    BY <1>1
<1>3. PICK times \in [1..N -> Nat] : times = input.times
  BY <1>1
<1>4. \A i \in 1..N : val[i] = SeqOf(i)
  BY <1>1, <1>2, Zenon
<1>5. \A i \in 1..N : Shown(i) = [t \in 1..times[i] |-> val[i]]
  BY <1>3, <1>4, Zenon DEF Shown
<1>6. \A i \in 1..N : Shown(i) \in Seq(Int)
  <2>1. ASSUME NEW i \in 1..N PROVE Shown(i) \in Seq(Int)
    <3>1. times[i] \in Nat /\ val[i] \in Int
      OBVIOUS
    <3>2. PICK s : s = Shown(i)
      OBVIOUS
    <3>3. s \in [1..times[i] -> Int]
      BY <1>5, <3>1, <3>2
    <3>4. s \in Seq(Int)
      BY <3>1, <3>3, FunctionIsSeq
    <3>5. QED
      BY <3>2, <3>4, Zenon
  <2>2. QED
    BY <2>1, Zenon
<1>7. /\ RowsTo[0] = <<>>
      /\ \A i \in 1..N : RowsTo[i] = RowsTo[i - 1] \o Shown(i)
  BY <1>1, <1>6, RowsTogether, Zenon
<1> DEFINE liveTo(k) == {i \in 1..k : times[i] > 0}
           Good == {k \in Nat : k <= N => \E ix : Log(RowsTo[k], ix, liveTo(k), val)}
<1>8. 0 \in Good
  <2>1. PICK none : none = {i \in 1..0 : times[i] > 0}
    OBVIOUS
  <2>2. none = {}
    BY <2>1
  <2>3. PICK nothing \in Seq(Int) : nothing = <<>>
    <3>1. <<>> \in Seq(Int)
      BY EmptySeq
    <3>2. QED
      BY <3>1, Zenon
  <2>4. Len(nothing) = 0
    BY <2>3, EmptySeq
  <2>5. PICK jx : jx = [i \in 1..0 |-> 0]
    OBVIOUS
  <2>6. jx \in [1..0 -> none]
    BY <2>2, <2>5
  <2>7. 1..0 = {}
    OBVIOUS
  <2>8. Log(nothing, jx, none, val)
    <3>1. jx \in [1..Len(nothing) -> none]
      BY <2>4, <2>6, Zenon
    <3>2. 1..Len(nothing) = {}
      BY <2>4, <2>7, Zenon
    <3>3. QED
      BY <2>2, <3>1, <3>2, Zenon DEF Log
  <2>9. Log(RowsTo[0], jx, liveTo(0), val)
    BY <1>7, <2>1, <2>3, <2>8, Zenon
  <2>10. QED
    BY <2>9
<1>9. ASSUME NEW k \in Nat, k \in Good
      PROVE  k + 1 \in Good
  <2>1. SUFFICES ASSUME k + 1 <= N
                 PROVE  \E ix : Log(RowsTo[k + 1], ix, liveTo(k + 1), val)
    <3>1. k + 1 \in Nat
      OBVIOUS
    <3>2. QED
      BY <3>1, Zenon
  <2>2. k <= N /\ k + 1 \in 1..N /\ (k + 1) - 1 = k
    BY <2>1
  <2>3. PICK ix : Log(RowsTo[k], ix, liveTo(k), val)
    BY <1>9, <2>2, Zenon
  <2>4. PICK c \in Nat : c = times[k + 1]
    BY <2>2
  <2>5. val[k + 1] \in Int
    BY <2>2
  <2>6. PICK piece : piece = [t \in 1..c |-> val[k + 1]]
    OBVIOUS
  <2>7. RowsTo[k + 1] = RowsTo[k] \o piece
    BY <1>5, <1>7, <2>2, <2>4, <2>6, Zenon
  <2>8. PICK more : more = liveTo(k) \cup {j \in {k + 1} : c > 0}
    OBVIOUS
  <2>9. liveTo(k) \subseteq 1..k
    OBVIOUS
  <2>10. PICK jx : Log(RowsTo[k] \o piece, jx, more, val)
    <3>1. PICK old : old = liveTo(k)
      OBVIOUS
    <3>2. PICK rows : rows = RowsTo[k]
      OBVIOUS
    <3>3. Log(rows, ix, old, val) /\ old \subseteq 1..k
          /\ more = old \cup {j \in {k + 1} : c > 0}
      BY <2>3, <2>8, <2>9, <3>1, <3>2, Zenon
    <3> HIDE DEF liveTo
    <3>4. Adds(old, val, k, c, piece, more)
      BY <2>5, <2>6, <3>3, Zenon DEF Adds
    <3>5. \E jx : Log(rows \o piece, jx, more, val)
      BY <3>3, <3>4, LogExtended, Zenon
    <3>6. QED
      BY <3>2, <3>5, Zenon
  <2>11. more = liveTo(k + 1)
    <3>1. 1..(k + 1) = 1..k \cup {k + 1}
      OBVIOUS
    <3>2. \A i : i \in liveTo(k + 1) <=> i \in 1..(k + 1) /\ times[i] > 0
      BY Zenon
    <3>3. \A i : i \in more <=> (i \in 1..k /\ times[i] > 0) \/ (i = k + 1 /\ c > 0)
      BY <2>8, Zenon
    <3>4. \A i : i \in more <=> i \in liveTo(k + 1)
      BY <2>4, <3>1, <3>2, <3>3, Zenon
    <3> HIDE DEF liveTo
    <3>5. QED
      BY <3>4
  <2>12. QED
    BY <2>7, <2>10, <2>11, Zenon
<1>10. N \in Good
  <2> HIDE DEF Good
  <2>1. QED
    BY <1>8, <1>9, SetInduction
<1>11. PICK ix : Log(RowsTo[N], ix, liveTo(N), val)
  <2>1. N <= N
    OBVIOUS
  <2>2. QED
    BY <1>10, <2>1, Zenon
<1>12. Live = liveTo(N)
  BY <1>1, <1>3, Zenon DEF Live
<1>13. QED
  BY <1>1, <1>2, <1>11, <1>12, Zenon DEF LiveRows

-----------------------------------------------------------------------------
(* The inputs of a behaviour *)

(* The inputs that are looked at. *)
PickedInv ==
    /\ input.kind = "key" => /\ input.length \in KeyLengths
                             /\ input.digest \in [1..20 -> 0..255]
    /\ input.kind = "frame" => /\ input.length \in FrameLengths
                               /\ input.mask \in Masks
                               /\ input.opcode \in {1, 8, 9, 10}
    /\ input.kind = "option" => input.option \in Options /\ input.value \in Numbers
    /\ input.kind = "delay" => /\ input.delay \in Numbers /\ input.jitter \in Numbers
                               /\ input.r \in Numbers \cap Nat
    /\ input.kind = "last" => /\ input.tenths \in Tenths
                              /\ input.negative \in BOOLEAN /\ input.finite \in BOOLEAN
    /\ input.kind = "log" => /\ input.step \in Nat \ {0}
                             /\ input.off \in [1..Published -> -1..1]
                             /\ input.times \in [1..Published -> Nat]
                             /\ input.from \in 1..(Published + 1)
                             /\ input.off = Never \/ input.step > 4

(* Every behaviour picks its input from the constants.                      *)
LEMMA Picked == Spec => []PickedInv
<1>1. Init => PickedInv
  BY DEF Init, PickedInv
<1>2. PickedInv /\ [Next]_input => PickedInv'
  <2> SUFFICES ASSUME PickedInv, [Next]_input
               PROVE  PickedInv'
    OBVIOUS
  <2>1. CASE PickKey
    <3>1. PICK n \in KeyLengths, d \in 0..31 :
            input' = [kind |-> "key", length |-> n,
                      digest |-> [i \in 1..20 |-> (8 * d + 37 * i) % 256]]
      BY <2>1 DEF PickKey, Pick
    <3>2. \A i \in 1..20 : (8 * d + 37 * i) % 256 \in 0..255
      BY SMT
    <3>3. QED
      BY <3>1, <3>2 DEF PickedInv
  <2>2. CASE PickFrame
    BY <2>2 DEF PickFrame, Pick, PickedInv
  <2>3. CASE PickOption
    BY <2>3 DEF PickOption, Pick, PickedInv
  <2>4. CASE PickDelay
    BY <2>4 DEF PickDelay, Pick, PickedInv
  <2>5. CASE PickLast
    BY <2>5 DEF PickLast, Pick, PickedInv
  <2>6. CASE PickEvenLog
    <3>1. PICK step \in Steps, from \in 1..(Published + 1),
               times \in [1..Published -> 0..Repeats] :
            input' = [kind |-> "log", step |-> step, off |-> Never, times |-> times,
                      from |-> from]
      BY <2>6 DEF PickEvenLog, Pick
    <3>2. step \in Nat \ {0} /\ times \in [1..Published -> Nat]
      BY LogAssumption
    <3>3. Never \in [1..Published -> -1..1]
      BY DEF Never
    <3>4. QED
      BY <3>1, <3>2, <3>3 DEF PickedInv
  <2>7. CASE PickUnevenLog
    <3>1. PICK step \in {s \in Steps : s > 4} : \E off \in [1..Published -> -1..1] :
            \E times \in [1..Published -> 0..1] :
            input' = [kind |-> "log", step |-> step, off |-> off, times |-> times,
                      from |-> 1]
      BY <2>7 DEF PickUnevenLog, Pick
    <3>2. PICK off \in [1..Published -> -1..1], times \in [1..Published -> 0..1] :
            input' = [kind |-> "log", step |-> step, off |-> off, times |-> times,
                      from |-> 1]
      BY <3>1
    <3>3. step \in Nat \ {0} /\ step > 4 /\ times \in [1..Published -> Nat]
      BY LogAssumption
    <3>4. 1 \in 1..(Published + 1)
      BY LogAssumption
    <3>5. QED
      BY <3>2, <3>3, <3>4 DEF PickedInv
  <2>8. CASE UNCHANGED input
    BY <2>8 DEF PickedInv
  <2>9. QED
    BY <2>1, <2>2, <2>3, <2>4, <2>5, <2>6, <2>7, <2>8 DEF Next
<1>3. QED
  BY <1>1, <1>2, PTL DEF Spec

(* For every length of key that fits the buffer with the GUID, the blocks   *)
(* that are hashed are the standard's, and base64 loses nothing of the      *)
(* digest (compute_accept_key, sha1_update, sha1_final, base64_encode).     *)
THEOREM AcceptKeyComputed == Spec => []AcceptKeyRight
<1>1. PickedInv => AcceptKeyRight
  <2> SUFFICES ASSUME PickedInv, input.kind = "key"
               PROVE  AcceptKeyRight
    BY Zenon DEF AcceptKeyRight
  <2>1. input.length \in KeyLengths /\ input.digest \in [1..20 -> 0..255]
    BY Zenon DEF PickedInv
  <2>2. PICK n : n = input.length
    OBVIOUS
  <2>3. n \in Nat /\ n <= 219
    <3>1. n \in KeyLengths
      BY <2>1, <2>2, Zenon
    <3>2. QED
      BY <3>1, KeysAssumption, SMT
  <2>4. PICK key : key = Key(n)
    OBVIOUS
  <2>5. PICK guid : guid = Guid
    OBVIOUS
  <2>6. key \in Seq(Int) /\ Len(key) = n
    <3>1. key \in [1..n -> Int]
      BY <2>3, <2>4, SMT DEF Key
    <3>2. QED
      BY <2>3, <3>1, FunctionIsSeq, SMT
  <2>7. guid \in Seq(Int) /\ Len(guid) = 36
    <3>1. PICK m \in Nat : m = 36
      BY SMT
    <3>2. guid \in [1..m -> Int]
      BY <2>5, <3>1, SMT DEF Guid
    <3>3. guid \in Seq(Int) /\ Len(guid) = m
      BY <3>2, FunctionIsSeq, SMT
    <3>4. QED
      BY <3>1, <3>3, SMT
  <2>8. AcceptBlocks(key, guid) = Blocks(key \o guid)
    <3>1. key \in Seq(Int) /\ guid \in Seq(Int)
      BY <2>6, <2>7, Zenon
    <3>2. Len(key) + Len(guid) <= 255
      BY <2>3, <2>6, <2>7, SMT
    <3>3. QED
      BY <3>1, <3>2, AcceptBlocksRight
  <2>9. PICK in : in = input.digest
    OBVIOUS
  <2>10. Len(Base64(in)) = 28 /\ Decoded(Base64(in)) = in
    <3>1. in \in [1..20 -> 0..255]
      BY <2>1, <2>9, Zenon
    <3>2. QED
      BY <3>1, DigestSurvives
  <2>11. QED
    BY <2>2, <2>4, <2>5, <2>8, <2>9, <2>10, Zenon DEF AcceptKeyRight
<1>2. QED
  BY <1>1, Picked, PTL

(* A frame either way, of any length that four bytes hold.                  *)
LEMMA EveryFrameAgrees ==
    ASSUME NEW len \in Nat, len <= MaxLength, NEW mask \in [1..4 -> 0..255],
           NEW opcode \in 0..15
    PROVE  FrameAgrees(len, mask, opcode)
<1> DEFINE frame == BrowserFrame(opcode, len, mask)
<1> DEFINE got == RecvFrame(frame)
<1> DEFINE pong == RecvFrame(ControlFrame(10, got.payload))
<1> HIDE DEF frame, got, pong
<1>1. /\ len > MaxPayload => got = [ok |-> FALSE]
      /\ ~(len > MaxPayload) =>
            got = [ok |-> TRUE, opcode |-> opcode, len |-> len, payload |-> Payload(len)]
      /\ FarRefused(frame, len)
  BY ServerReadsFrame DEF frame, got
<1>2. LengthRead(TextHeader(len)) = len /\ Len(TextHeader(len)) = Fewest(len)
  BY BrowserReadsLength
<1>3. len > MaxPayload <=> ~(len <= MaxPayload)
  BY DEF MaxPayload
<1>4. /\ got.ok <=> len <= MaxPayload
      /\ got.ok => got.opcode = opcode /\ got.len = len /\ got.payload = Payload(len)
  BY <1>1, <1>3
<1>5. ASSUME len <= 125
      PROVE  RecvFrame(ControlFrame(10, Payload(len)))
               = [ok |-> TRUE, opcode |-> 10, len |-> len, payload |-> Payload(len)]
  <2>1. PICK n \in Nat : Payload(len) \in [1..n -> 0..255] /\ n = len
    BY <1>5, PayloadBytes
  <2>2. QED
    BY <1>5, <2>1, PongRead
<1>6. got.ok /\ len <= 125 =>
        pong.ok /\ pong.opcode = 10 /\ pong.payload = Payload(len)
  BY <1>4, <1>5 DEF pong
<1>7. FarRefused(frame, len)
  BY <1>1
<1>8. QED
  BY <1>2, <1>4, <1>6, <1>7, Zenon DEF FrameAgrees, frame, got, pong

(* For every payload length that four bytes hold and every masking key: a   *)
(* browser reads the length of a text frame, in the shortest form, and the  *)
(* server reads the browser's frame, unmasked, or refuses it above 1 MB     *)
(* (ws_send_text, ws_recv_frame, ws_send_control).                          *)
THEOREM FramesUnderstood == Spec => []FramesAgree
<1>1. PickedInv => FramesAgree
  <2> SUFFICES ASSUME PickedInv, input.kind = "frame"
               PROVE  FrameAgrees(input.length, input.mask, input.opcode)
    BY DEF FramesAgree
  <2>1. input.length \in FrameLengths /\ input.mask \in Masks /\ input.opcode \in {1, 8, 9, 10}
    BY DEF PickedInv
  <2>2. input.length \in Nat /\ input.length <= MaxLength
    BY <2>1, FramesAssumption
  <2>3. input.mask \in [1..4 -> 0..255]
    BY <2>1, FramesAssumption
  <2>4. input.opcode \in 0..15
    BY <2>1
  <2>5. QED
    BY <2>2, <2>3, <2>4, EveryFrameAgrees
<1>2. QED
  BY <1>1, Picked, PTL

(* A number that the page asks for arrives at the query as it was asked,    *)
(* and whatever a client sends is limited.                                  *)
LEMMA LastArrives ==
    ASSUME NEW tenths \in Int, NEW finite \in BOOLEAN, NEW negative,
           NEW n, n = RequestedCount(finite, tenths)
    PROVE  /\ n > 0 <=> finite /\ tenths >= 10
           /\ n > 0 => Limit(FindInt(FALSE, Digits[n])) = Least(tenths \div 10, Longest)
           /\ Limit(FindInt(negative, Digits[Most(tenths, 0)])) \in 1..Longest
           /\ Limit(FindInt(negative, <<>>)) \in 1..Longest
<1>1. /\ n \in 0..Longest /\ (n > 0 <=> finite /\ tenths >= 10)
      /\ n > 0 => Limit(n) = Least(tenths \div 10, Longest)
  BY LastRespected, Zenon
<1>2. ASSUME n > 0
      PROVE  Limit(FindInt(FALSE, Digits[n])) = Least(tenths \div 10, Longest)
  <2>1. n \in Nat /\ n \in Int /\ n <= Beyond
    <3>1. n \in 0..Longest
      BY <1>1, Zenon
    <3>2. QED
      BY <3>1, SMTT(30) DEF Beyond, Longest
  <2>2. Value(Digits[n]) = n /\ Digits[n] \in Seq(Int)
    BY <2>1, DigitsOf, DigitsRead
  <2>3. Digits[n] # <<>>
    BY <2>1, DigitsThere
  <2>4. FindInt(FALSE, Digits[n]) = n
    BY <2>1, <2>2, <2>3, FindIntValue, Zenon
  <2>5. QED
    BY <1>1, <1>2, <2>4, Zenon
<1>3. ASSUME NEW digits \in Seq(Int)
      PROVE  Limit(FindInt(negative, digits)) \in 1..Longest
  BY FindIntValue, LastRespected, Zenon
<1>4. Most(tenths, 0) \in Nat
  BY DEF Most
<1>5. Digits[Most(tenths, 0)] \in Seq(Int) /\ <<>> \in Seq(Int)
  BY <1>4, DigitsOf
<1>6. QED
  BY <1>1, <1>2, <1>3, <1>5, Zenon

(* For every number on the command line, in Last N and from rand(): options *)
(* and delays stay in their ranges and reach their use unchanged when they  *)
(* were in them; the number of samples that the page asks for is the number *)
(* the query is limited to, through the text and the loop that reads it     *)
(* (env_int, impairment_delay_for_msg_ms, getRequestedHistoryCount,         *)
(* json_find_int, db_reader_history_last_json).                             *)
THEOREM InputsHonoured == Spec => []InputsRespected
<1>1. PickedInv => InputsRespected
  <2> SUFFICES ASSUME PickedInv
               PROVE  InputsRespected
    OBVIOUS
  <2>1. ASSUME input.kind = "option"
        PROVE  LET v == input.value  range == Allowed[input.option] IN
               /\ Used(input.option, v) \in range[1]..range[2]
               /\ v \in range[1]..range[2] => Used(input.option, v) = v
    <3>1. input.option \in Options /\ input.value \in Int
      BY <2>1, NumbersAssumption DEF PickedInv
    <3>2. QED
      BY <3>1, OptionsRespected, Zenon
  <2>2. ASSUME input.kind = "delay"
        PROVE  LET d == Used("delayMs", input.delay)  j == Used("jitterMs", input.jitter)
                   ms == Delay(d, j, input.r)
               IN /\ ms >= 0 /\ ms \in (d - j)..(d + j)
                  /\ Milliseconds(SleepTime(ms)) = ms /\ Accepted(SleepTime(ms))
    <3>1. input.delay \in Int /\ input.jitter \in Int /\ input.r \in Nat
      BY <2>2, NumbersAssumption DEF PickedInv
    <3>2. "delayMs" \in Options /\ "jitterMs" \in Options
      BY DEF Options, Allowed
    <3>3. Allowed["delayMs"] = <<0, 60000>> /\ Allowed["jitterMs"] = <<0, 60000>>
      BY DEF Allowed
    <3>4. PICK d : d = Used("delayMs", input.delay)
      OBVIOUS
    <3>5. PICK j : j = Used("jitterMs", input.jitter)
      OBVIOUS
    <3>6. d \in Nat /\ j \in Nat
      <4>1. d \in Allowed["delayMs"][1]..Allowed["delayMs"][2]
        BY <3>1, <3>2, <3>4, OptionsRespected, Zenon
      <4>2. j \in Allowed["jitterMs"][1]..Allowed["jitterMs"][2]
        BY <3>1, <3>2, <3>5, OptionsRespected, Zenon
      <4>3. QED
        BY <3>3, <4>1, <4>2
    <3>7. PICK ms : ms = Delay(d, j, input.r)
      OBVIOUS
    <3>8. ms >= 0 /\ ms \in (d - j)..(d + j)
      BY <3>1, <3>6, <3>7, DelayWithinJitter, Zenon
    <3>9. ms \in Nat
      BY <3>6, <3>8
    <3>10. Milliseconds(SleepTime(ms)) = ms /\ Accepted(SleepTime(ms))
      BY <3>9, SleepsTheDelay
    <3>11. QED
      BY <3>4, <3>5, <3>7, <3>8, <3>10, Zenon
  <2>3. ASSUME input.kind = "last"
        PROVE  LET n == RequestedCount(input.finite, input.tenths)
                   any == FindInt(input.negative, Digits[Most(input.tenths, 0)])
               IN /\ n > 0 <=> input.finite /\ input.tenths >= 10
                  /\ n > 0 => Limit(FindInt(FALSE, Digits[n]))
                                = Least(input.tenths \div 10, Longest)
                  /\ Limit(any) \in 1..Longest
                  /\ Limit(FindInt(input.negative, <<>>)) \in 1..Longest
    <3>1. input.tenths \in Int /\ input.finite \in BOOLEAN
      BY <2>3, NumbersAssumption DEF PickedInv
    <3>2. QED
      BY <3>1, LastArrives, Zenon
  <2>4. CASE input.kind = "option"
    BY <2>1, <2>4, Zenon DEF InputsRespected
  <2>5. CASE input.kind = "delay"
    BY <2>2, <2>5, Zenon DEF InputsRespected
  <2>6. CASE input.kind = "last"
    BY <2>3, <2>6, Zenon DEF InputsRespected
  <2>7. QED
    BY <2>4, <2>5, <2>6, Zenon DEF InputsRespected
<1>2. QED
  BY <1>1, Picked, PTL

\* of multiples of s, those that are found, and those that are replayed
Multiples(s, p, from, L, found, replay) ==
    L \subseteq 1..p /\ found = {s * l : l \in L} /\ replay = {s * i : i \in from..p}
ReplayedRight(from, L, found, replay) ==
    /\ Cardinality(found) = Cardinality(L)
    /\ Cardinality(found) - Cardinality(found \cap replay) = Cardinality({l \in L : l < from})

(* Multiples of a step are as many as the numbers that are multiplied, and  *)
(* what is not replayed of them is what is before the replay.               *)
LEMMA Unreplayed ==
    ASSUME NEW s \in Nat \ {0}, NEW p \in Nat, NEW from \in Nat, NEW L, NEW found, NEW replay,
           Multiples(s, p, from, L, found, replay)
    PROVE  ReplayedRight(from, L, found, replay)
<1>0. L \subseteq 1..p /\ found = {s * l : l \in L} /\ replay = {s * i : i \in from..p}
  BY Zenon DEF Multiples
<1>1. ASSUME NEW l \in Int, NEW k \in Int, s * l = s * k PROVE l = k
  <2>1. PICK q \in Int : q = l - k
    OBVIOUS
  <2>2. s * q = 0
    <3>1. s * q = s * l - s * k
      BY <2>1, SMT
    <3>2. PICK f \in Int : f = s * k
      OBVIOUS
    <3>3. QED
      BY <1>1, <3>1, <3>2
  <2>3. (q >= 1 => s * q >= s) /\ (q <= -1 => s * q <= -s)
    BY Multiple
  <2>4. q = 0
    BY <2>2, <2>3
  <2>5. QED
    BY <2>1, <2>4
<1>2. \A l \in L : l \in Int /\ l \in 1..p
  BY <1>0
<1>3. IsFiniteSet(L)
  <2>1. IsFiniteSet(1..p) /\ L \in SUBSET (1..p)
    BY <1>0, FS_Interval
  <2>2. QED
    BY <2>1, FS_Subset, Zenon
<1>4. ASSUME NEW K, K \subseteq L, NEW M, M = {s * l : l \in K}
      PROVE  Cardinality(M) = Cardinality(K) /\ Cardinality(K) \in Nat
  <2>1. IsFiniteSet(K)
    BY <1>3, <1>4, FS_Subset
  <2> DEFINE V == [l \in K |-> s * l]
  <2>2. V \in [K -> M]
    BY <1>4
  <2>3. \A l, k \in K : V[l] = V[k] => l = k
    <3>1. ASSUME NEW l \in K, NEW k \in K, V[l] = V[k] PROVE l = k
      <4>1. s * l = s * k
        BY <3>1
      <4>2. l \in Int /\ k \in Int
        BY <1>2, <1>4
      <4>3. QED
        BY <1>1, <4>1, <4>2
    <3>2. QED
      BY <3>1
  <2>4. \A x \in M : \E l \in K : V[l] = x
    BY <1>4
  <2> HIDE DEF V
  <2>5. V \in Bijection(K, M)
    BY <2>2, <2>3, <2>4 DEF Bijection, Injection, Surjection, IsInjective
  <2>6. ExistsBijection(K, M)
    BY <2>5 DEF ExistsBijection
  <2>7. QED
    BY <2>1, <2>6, FS_Bijection, FS_CardinalityType, Zenon
<1>5. PICK T : T = {l \in L : l >= from}
  OBVIOUS
<1>6. found \cap replay = {s * l : l \in T}
  <2>1. ASSUME NEW x \in found, x \in replay PROVE \E l \in T : x = s * l
    <3>1. PICK l \in L : x = s * l
      BY <1>0
    <3>2. PICK i \in from..p : x = s * i
      BY <1>0, <2>1
    <3>3. l = i
      <4>1. l \in Int /\ i \in Int
        BY <1>2
      <4>2. QED
        BY <1>1, <3>1, <3>2, <4>1
    <3>4. l \in T
      BY <1>5, <3>3
    <3>5. QED
      BY <3>1, <3>4
  <2>2. ASSUME NEW l \in T PROVE s * l \in found /\ s * l \in replay
    <3>1. l \in L /\ l \in from..p
      BY <1>2, <1>5
    <3>2. QED
      BY <1>0, <3>1
  <2>3. QED
    BY <2>1, <2>2
<1>7. Cardinality(found) = Cardinality(L)
  BY <1>0, <1>4
<1>8. Cardinality(found \cap replay) = Cardinality(T)
  <2>1. T \subseteq L
    BY <1>5
  <2>2. PICK both : both = found \cap replay
    OBVIOUS
  <2>3. Cardinality(both) = Cardinality(T)
    BY <1>4, <1>6, <2>1, <2>2
  <2>4. QED
    BY <2>2, <2>3, Zenon
<1>9. Cardinality(L \ T) = Cardinality(L) - Cardinality(L \cap T)
  BY <1>3, FS_Difference, Zenon
<1>10. L \cap T = T /\ L \ T = {l \in L : l < from}
  <2>1. \A l \in L : ~(l >= from) <=> l < from
    BY <1>2
  <2>2. QED
    BY <1>5, <2>1
<1>11. QED
  BY <1>7, <1>8, <1>9, <1>10, Zenon DEF ReplayedRight

(* In a log of any length, with any losses and repeated rows, whose usual   *)
(* step outnumbers every other one, the analysis counts the samples the     *)
(* page has missed, and where numbers do not drift it names them and knows  *)
(* which were replayed (infer_nominal_seq_step,                             *)
(* compute_missing_ranges_with_step, expand_missing_expected_values,        *)
(* analyze_one_file).                                                       *)
THEOREM MissingSamplesFound == Spec => []MissingFound
<1>1. PickedInv => MissingFound
  <2> SUFFICES ASSUME PickedInv, input.kind = "log", Usual
               PROVE  /\ Cardinality(MissingExpected(LiveRows)) = Cardinality(Lacking)
                      /\ input.off = Never =>
                           LET replay == {SeqOf(i) : i \in input.from..Published} IN
                           /\ MissingExpected(LiveRows) = {SeqOf(i) : i \in Lacking}
                           /\ UnrecoveredContext(LiveRows, replay, FALSE)
                                = Cardinality({i \in Lacking : i < input.from})
                           /\ UnrecoveredContext(LiveRows, replay, TRUE) = Cardinality(Lacking)
    BY Zenon DEF MissingFound
  <2>1. /\ input.step \in Nat \ {0} /\ input.off \in [1..Published -> -1..1]
        /\ input.times \in [1..Published -> Nat] /\ input.from \in 1..(Published + 1)
        /\ input.off = Never \/ input.step > 4
    BY Zenon DEF PickedInv
  <2>2. PICK p \in Nat : p = Published
    BY LogAssumption
  <2>3. PICK s \in Nat \ {0} : s = input.step
    BY <2>1
  <2>4. PICK off \in [1..p -> -1..1] : off = input.off
    BY <2>1, <2>2
  <2>5. PICK from \in Nat : from = input.from
    BY <2>1, <2>2
  <2>6. \A i \in 1..p : SeqOf(i) = s * i + off[i] /\ SeqOf(i) \in Int
    <3>1. ASSUME NEW i \in 1..p PROVE SeqOf(i) = s * i + off[i] /\ SeqOf(i) \in Int
      <4>1. SeqOf(i) = s * i + off[i]
        BY <2>3, <2>4, Zenon DEF SeqOf
      <4>2. s * i \in Int /\ off[i] \in Int
        OBVIOUS
      <4>3. s * i + off[i] \in Int
        BY <4>2
      <4>4. QED
        BY <4>1, <4>3, Zenon
    <3>2. QED
      BY <3>1, Zenon
  <2>7. PICK val : val = [i \in 1..Published |-> SeqOf(i)]
    OBVIOUS
  <2>8. PICK rows : rows = LiveRows
    OBVIOUS
  <2>9. PICK live : live = Live
    OBVIOUS
  <2>10. PICK lacks : lacks = Lacking
    OBVIOUS
  <2>11. PICK ix : Log(rows, ix, live, val)
    BY <2>1, <2>2, <2>6, <2>7, <2>8, <2>9, LiveRowsLog, Zenon
  <2>12. live \subseteq 1..p
    BY <2>2, <2>9 DEF Live
  <2>13. lacks = Lacks(p, live)
    BY <2>2, <2>9, <2>10, Zenon DEF Lacking, Lacks
  <2>14. Numbered(val, off, live, s)
    <3>1. \A l \in live : off[l] \in -1..1 /\ val[l] = s * l + off[l]
      <4>1. ASSUME NEW l \in live PROVE off[l] \in -1..1 /\ val[l] = s * l + off[l]
        <5>1. l \in 1..p
          BY <2>12
        <5>2. val[l] = SeqOf(l)
          BY <2>2, <2>7, <5>1, Zenon
        <5>3. off[l] \in -1..1
          BY <5>1
        <5>4. QED
          BY <2>6, <5>1, <5>2, <5>3, Zenon
      <4>2. QED
        BY <4>1, Zenon
    <3>2. s > 4 \/ \A l \in live : off[l] = 0
      <4>1. CASE input.step > 4
        BY <2>3, <4>1, Zenon
      <4>2. CASE input.off = Never
        BY <2>2, <2>4, <2>12, <4>2 DEF Never
      <4>3. QED
        BY <2>1, <4>1, <4>2, Zenon
    <3>3. QED
      BY <3>1, <3>2, Zenon DEF Numbered
  <2>15. Outnumbers(rows, s)
    BY <2>3, <2>8, Zenon DEF Usual, Outnumbers, CountOf
  <2>16. CountedRight(MissingExpected(rows), lacks, live, off, s)
    <3>1. LogOf(rows, ix, live, val, off, s)
      BY <2>11, <2>14, Zenon DEF LogOf
    <3>2. QED
      BY <2>12, <2>13, <2>15, <3>1, ExpectedCounted, Zenon
  <2>17. ASSUME input.off = Never
         PROVE  LET replay == {SeqOf(i) : i \in input.from..Published} IN
                /\ MissingExpected(LiveRows) = {SeqOf(i) : i \in Lacking}
                /\ UnrecoveredContext(LiveRows, replay, FALSE)
                     = Cardinality({i \in Lacking : i < input.from})
                /\ UnrecoveredContext(LiveRows, replay, TRUE) = Cardinality(Lacking)
    <3>1. \A l \in 1..p : off[l] = 0
      BY <2>2, <2>4, <2>17 DEF Never
    <3>2. \A l \in 1..p : SeqOf(l) = s * l
      BY <2>6, <3>1
    <3>3. PICK found : found = MissingExpected(rows)
      OBVIOUS
    <3>4. found = {s * l : l \in lacks}
      BY <2>12, <2>16, <3>1, <3>3, Zenon DEF CountedRight
    <3>5. lacks \subseteq 1..p
      BY <2>13 DEF Lacks
    <3>6. PICK replay : replay = {s * i : i \in from..p}
      OBVIOUS
    <3>7. {SeqOf(i) : i \in input.from..Published} = replay
      <4>1. from \in 1..(p + 1)
        BY <2>1, <2>2, <2>5, Zenon
      <4>2. from..p \subseteq 1..p
        BY <4>1
      <4>3. {SeqOf(i) : i \in from..p} = replay
        <5> HIDE DEF SeqOf
        <5>1. QED
          BY <3>2, <3>6, <4>2
      <4>4. QED
        BY <2>2, <2>5, <4>3, Zenon
    <3>8. {SeqOf(i) : i \in lacks} = found
      <4> HIDE DEF SeqOf
      <4>1. QED
        BY <3>2, <3>4, <3>5
    <3>9. /\ Cardinality(found) = Cardinality(lacks)
          /\ Cardinality(found) - Cardinality(found \cap replay)
               = Cardinality({l \in lacks : l < from})
      <4>1. Multiples(s, p, from, lacks, found, replay)
        BY <3>4, <3>5, <3>6, Zenon DEF Multiples
      <4>2. ReplayedRight(from, lacks, found, replay)
        BY <4>1, Unreplayed
      <4>3. QED
        BY <4>2, Zenon DEF ReplayedRight
    <3>10. UnrecoveredContext(rows, replay, FALSE)
             = Cardinality(found) - Cardinality(found \cap replay)
      BY <3>3, Zenon DEF UnrecoveredContext
    <3>11. UnrecoveredContext(rows, replay, TRUE) = Cardinality(found)
      <4>1. UnrecoveredContext(rows, replay, TRUE) = Cardinality(found) - Cardinality({})
        BY <3>3, Zenon DEF UnrecoveredContext
      <4>2. Cardinality({}) = 0
        BY FS_EmptySet, Zenon
      <4>3. Cardinality(found) \in Nat
        <5>1. IsFiniteSet(lacks)
          <6>1. IsFiniteSet(1..p)
            BY FS_Interval
          <6>2. lacks \in SUBSET (1..p)
            BY <3>5, Zenon
          <6>3. QED
            BY <6>1, <6>2, FS_Subset, Zenon
        <5>2. QED
          BY <3>9, <5>1, FS_CardinalityType, Zenon
      <4>4. PICK c \in Nat : c = Cardinality(found)
        BY <4>3, Zenon
      <4>5. c - 0 = c
        OBVIOUS
      <4>6. QED
        BY <4>1, <4>2, <4>4, <4>5, Zenon
    <3>12. /\ MissingExpected(LiveRows) = {SeqOf(i) : i \in Lacking}
           /\ UnrecoveredContext(LiveRows, replay, FALSE)
                = Cardinality({i \in Lacking : i < input.from})
           /\ UnrecoveredContext(LiveRows, replay, TRUE) = Cardinality(Lacking)
      BY <2>5, <2>8, <2>10, <3>3, <3>8, <3>9, <3>10, <3>11, Zenon
    <3>13. QED
      BY <3>7, <3>12, Zenon
  <2>18. QED
    BY <2>8, <2>10, <2>16, <2>17, Zenon DEF CountedRight
<1>2. QED
  BY <1>1, Picked, PTL

=============================================================================
