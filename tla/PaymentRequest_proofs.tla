----------------------- MODULE PaymentRequest_proofs -----------------------
(***************************************************************************)
(* Proofs about the validation of card numbers of any length: the Luhn     *)
(* check notices every mistyped digit.                                     *)
(*                                                                         *)
(* The sum is defined by recursion on the digits.  Induction is done on    *)
(* the set of positions that have a property, by its least element.        *)
(***************************************************************************)
EXTENDS PaymentRequest, SequenceTheorems, WellFoundedInduction, TLAPS

-----------------------------------------------------------------------------
(* Induction *)

\* Every nonempty set of numbers has a least element.
LEMMA LeastElement ==
  ASSUME NEW T \in SUBSET Nat, T # {}
  PROVE  \E m \in T : \A n \in T : m <= n
<1> DEFINE R == OpToRel(<, Nat)
<1>1. IsWellFoundedOn(R, Nat)
  BY NatLessThanWellFounded
<1> HIDE DEF R
<1>2. PICK m \in T : \A n \in T : <<n, m>> \notin R
  BY <1>1, WFMin
<1>3. \A i, j \in Nat : i < j => <<i, j>> \in R
  BY DEF R, OpToRel
<1>4. \A i, j \in Nat : ~(i < j) => j <= i
  OBVIOUS
<1>5. T \subseteq Nat
  OBVIOUS
<1> QED
  BY <1>2, <1>3, <1>4, <1>5

\* Induction, for the set of the numbers that have a property.
LEMMA SetInduction ==
  ASSUME NEW S, 0 \in S, \A n \in Nat : n \in S => n + 1 \in S
  PROVE  Nat \subseteq S
<1> SUFFICES ASSUME Nat \ S # {} PROVE FALSE
  OBVIOUS
<1>1. PICK m \in Nat \ S : \A n \in Nat \ S : m <= n
  BY LeastElement
<1>2. m # 0 /\ m - 1 \in Nat /\ m - 1 \in S
  BY <1>1
<1> QED
  BY <1>1, <1>2

-----------------------------------------------------------------------------
(* The recursion *)

\* The partial sums of w up to L exist.
LEMMA SumsExist ==
  ASSUME NEW w
  PROVE  \A L \in Nat :
           \E sum : sum = [i \in 0..L |-> IF i = 0 THEN 0 ELSE sum[i - 1] + w[i]]
<1> DEFINE Sums(s, L) == s = [i \in 0..L |-> IF i = 0 THEN 0 ELSE s[i - 1] + w[i]]
           S == {L \in Nat : \E s : Sums(s, L)}
<1>1. 0 \in S
  <2>1. Sums([i \in 0..0 |-> 0], 0)
    OBVIOUS
  <2> QED
    BY <2>1
<1>2. ASSUME NEW L \in Nat, L \in S
      PROVE  L + 1 \in S
  <2>1. PICK s : Sums(s, L)
    BY <1>2
  <2> DEFINE t == [i \in 0..(L + 1) |-> IF i = L + 1 THEN s[L] + w[L + 1] ELSE s[i]]
  <2>2. \A i \in 0..(L + 1) : t[i] = IF i = 0 THEN 0 ELSE t[i - 1] + w[i]
    BY <2>1
  <2>3. Sums(t, L + 1)
    BY <2>2
  <2> HIDE DEF Sums, t
  <2> QED
    BY <2>3
<1>3. Nat \subseteq S
  BY <1>1, <1>2, SetInduction
<1> QED
  BY <1>3

\* LuhnSum satisfies its recursion.
LEMMA LuhnSumRecursion ==
  ASSUME NEW number, Len(number) \in Nat
  PROVE  \A i \in 0..Len(number) :
           LuhnSum(number)[i] =
             IF i = 0 THEN 0 ELSE LuhnSum(number)[i - 1] + Summand(number, i)
<1> DEFINE w == [i \in Nat |-> Summand(number, i)]
           L == Len(number)
<1>1. L \in Nat
  OBVIOUS
<1>2. PICK s : s = [i \in 0..L |-> IF i = 0 THEN 0 ELSE s[i - 1] + w[i]]
  <2> HIDE DEF w, L
  <2> QED
    BY <1>1, SumsExist
<1>3. s = [i \in 0..L |-> IF i = 0 THEN 0 ELSE s[i - 1] + Summand(number, i)]
  <2>1. \A i \in 0..L : s[i] = IF i = 0 THEN 0 ELSE s[i - 1] + Summand(number, i)
    <3> HIDE DEF L
    <3> QED
      BY <1>1, <1>2
  <2> HIDE DEF L
  <2> QED
    BY <1>2, <2>1
<1>4. LuhnSum(number) =
        [i \in 0..L |->
           IF i = 0 THEN 0 ELSE LuhnSum(number)[i - 1] + Summand(number, i)]
  BY <1>3 DEF LuhnSum
<1> QED
  BY <1>4

-----------------------------------------------------------------------------
(* Digits *)

\* Atoi inverts Digit.
LEMMA AtoiOfDigit == \A d \in 1..10 : Atoi(Digit[d]) = d - 1
BY DEF Atoi, Digit

\* Doubled permutes the digits.
LEMMA DoubledPermutes ==
  \A m, n \in 0..9 : Doubled(m) \in 0..9 /\ (Doubled(m) = Doubled(n) => m = n)
BY DEF Doubled

Digits == {Digit[d] : d \in 1..10}

IsNumber(number) == number \in Seq(Digits)

\* luhn accepts nothing but digits.
LEMMA LuhnIsNumber ==
  ASSUME NEW number \in Seq(STRING), luhn(number)
  PROVE  IsNumber(number)
<1>1. \A i \in 1..Len(number) : number[i] \in Digits
  BY DEF luhn, Digits
<1>2. Len(number) \in Nat /\ number = [i \in 1..Len(number) |-> number[i]]
  OBVIOUS
<1>3. number \in [1..Len(number) -> Digits]
  BY <1>1, <1>2
<1> QED
  BY <1>2, <1>3, SeqDef DEF IsNumber

\* What a digit adds to the sum at a position, counted from the right.
Added(c, i) == IF i % 2 = 0 THEN Doubled(Atoi(c)) ELSE Atoi(c)

\* At one position, different digits add different numbers.
LEMMA AddedDiffers ==
  ASSUME NEW i \in Nat, NEW c \in Digits, NEW e \in Digits
  PROVE  Added(c, i) \in 0..9 /\ (Added(c, i) = Added(e, i) => c = e)
<1>1. PICK m \in 1..10, n \in 1..10 : c = Digit[m] /\ e = Digit[n]
  BY DEF Digits
<1>2. Atoi(c) = m - 1 /\ Atoi(e) = n - 1
  BY <1>1, AtoiOfDigit
<1>3. m - 1 \in 0..9 /\ n - 1 \in 0..9 /\ (m - 1 = n - 1 => c = e)
  BY <1>1
<1> QED
  BY <1>2, <1>3, DoubledPermutes DEF Added

\* Every digit of a number is one, and adds a digit to the sum.
LEMMA SummandIsDigit ==
  ASSUME NEW number, IsNumber(number), NEW i \in 1..Len(number)
  PROVE  /\ Summand(number, i) = Added(number[Len(number) + 1 - i], i)
         /\ number[i] \in Digits /\ Summand(number, i) \in 0..9
<1>1. Len(number) + 1 - i \in 1..Len(number) /\ i \in Nat
  BY DEF IsNumber
<1>2. number[Len(number) + 1 - i] \in Digits /\ number[i] \in Digits
  BY <1>1 DEF IsNumber
<1>3. Summand(number, i) = Added(number[Len(number) + 1 - i], i)
  BY DEF Summand, Added
<1> QED
  BY <1>1, <1>2, <1>3, AddedDiffers

-----------------------------------------------------------------------------
(* Digits mistyped *)

\* A number with one digit replaced, and what its positions add to the sum.
LEMMA OneSummandChanges ==
  ASSUME NEW number, IsNumber(number), NEW k \in 1..Len(number), NEW c \in Digits
  PROVE  LET other == [number EXCEPT ![k] = c]
             j == Len(number) + 1 - k
         IN  /\ IsNumber(other)
             /\ Len(other) = Len(number)
             /\ j \in 1..Len(number)
             /\ Summand(other, j) = Added(c, j)
             /\ Summand(number, j) = Added(number[k], j)
             /\ \A i \in 1..Len(number) :
                  i # j => Summand(other, i) = Summand(number, i)
<1> DEFINE other == [number EXCEPT ![k] = c]
           L == Len(number)
           j == L + 1 - k
<1>1. IsNumber(other) /\ Len(other) = L
  BY ExceptSeq DEF IsNumber
<1>2. \A i \in 1..L : other[i] = IF i = k THEN c ELSE number[i]
  BY DEF IsNumber
<1>3. L \in Nat /\ k \in 1..L /\ j \in 1..L /\ L + 1 - j = k
  BY DEF IsNumber
<1>4. ASSUME NEW i \in 1..L, i # j
      PROVE  Summand(other, i) = Summand(number, i)
  <2>1. L + 1 - i \in 1..L /\ L + 1 - i # k
    BY <1>3, <1>4
  <2>2. other[L + 1 - i] = number[L + 1 - i]
    BY <1>2, <2>1
  <2> HIDE DEF other
  <2> QED
    BY <1>1, <2>2 DEF Summand
<1>5. Summand(other, j) = Added(c, j) /\ Summand(number, j) = Added(number[k], j)
  <2>1. other[k] = c
    BY <1>2
  <2> HIDE DEF other
  <2> QED
    BY <1>1, <1>3, <2>1, SummandIsDigit
<1> QED
  BY <1>1, <1>3, <1>4, <1>5

\* From the replaced digit on, the sums differ by what that digit adds.
LEMMA SumsDiffer ==
  ASSUME NEW number, IsNumber(number), NEW other, IsNumber(other),
         Len(other) = Len(number), NEW j \in 1..Len(number),
         \A i \in 1..Len(number) : i # j => Summand(other, i) = Summand(number, i)
  PROVE  \A i \in 0..Len(number) :
           /\ LuhnSum(number)[i] \in Int
           /\ LuhnSum(other)[i] =
                LuhnSum(number)[i] +
                  IF i < j THEN 0 ELSE Summand(other, j) - Summand(number, j)
<1> DEFINE L == Len(number)
           a == LuhnSum(number)
           b == LuhnSum(other)
           Differ(i) ==
             /\ a[i] \in Int
             /\ b[i] = a[i] + IF i < j THEN 0
                               ELSE Summand(other, j) - Summand(number, j)
           S == {i \in Nat : i <= L => Differ(i)}
<1>1. L \in Nat
  BY DEF IsNumber
<1>2. \A i \in 0..L :
        /\ a[i] = IF i = 0 THEN 0 ELSE a[i - 1] + Summand(number, i)
        /\ b[i] = IF i = 0 THEN 0 ELSE b[i - 1] + Summand(other, i)
  BY LuhnSumRecursion DEF IsNumber
<1>3. ASSUME NEW i \in 1..L
      PROVE  Summand(number, i) \in Int /\ Summand(other, i) \in Int
  <2>1. Summand(number, i) \in 0..9 /\ Summand(other, i) \in 0..9
    BY SummandIsDigit
  <2> QED
    BY <2>1
<1> HIDE DEF a, b
<1>4. 0 \in S
  BY <1>1, <1>2
<1>5. ASSUME NEW n \in Nat, n \in S
      PROVE  n + 1 \in S
  <2> SUFFICES ASSUME n + 1 <= L PROVE Differ(n + 1)
    OBVIOUS
  <2>1. Differ(n) /\ n + 1 \in 1..L
    BY <1>1, <1>5
  <2>2. /\ a[n + 1] = a[n] + Summand(number, n + 1)
        /\ b[n + 1] = b[n] + Summand(other, n + 1)
    BY <1>1, <1>2, <2>1
  <2>3. CASE n + 1 = j
    BY <1>3, <2>1, <2>2, <2>3
  <2>4. CASE n + 1 # j
    BY <1>3, <2>1, <2>2, <2>4
  <2> QED
    BY <2>3, <2>4
<1>6. Nat \subseteq S
  <2> HIDE DEF S
  <2> QED
    BY <1>4, <1>5, SetInduction
<1> QED
  BY <1>1, <1>6 DEF a, b

\* A number with one digit replaced, and its sum.
LEMMA ReplacedSum ==
  ASSUME NEW number, IsNumber(number), NEW k \in 1..Len(number), NEW c \in Digits
  PROVE  LET other == [number EXCEPT ![k] = c]
             j == Len(number) + 1 - k
         IN  /\ IsNumber(other) /\ Len(other) = Len(number)
             /\ LuhnSum(number)[Len(number)] \in Int
             /\ LuhnSum(other)[Len(number)] =
                  LuhnSum(number)[Len(number)] + (Added(c, j) - Added(number[k], j))
<1> DEFINE other == [number EXCEPT ![k] = c]
           L == Len(number)
           j == L + 1 - k
<1>1. /\ IsNumber(other) /\ Len(other) = L /\ j \in 1..L
      /\ Summand(other, j) = Added(c, j) /\ Summand(number, j) = Added(number[k], j)
      /\ \A i \in 1..L : i # j => Summand(other, i) = Summand(number, i)
  BY OneSummandChanges
<1>2. L \in 0..L /\ ~(L < j)
  BY <1>1
<1> HIDE DEF other, j
<1>3. /\ LuhnSum(number)[L] \in Int
      /\ LuhnSum(other)[L] =
           LuhnSum(number)[L] + (Summand(other, j) - Summand(number, j))
  BY <1>1, <1>2, SumsDiffer
<1> QED
  BY <1>1, <1>3 DEF other, j

\* A card number that passes luhn does not pass it with any one digit changed.
THEOREM LuhnDetectsMistype ==
  ASSUME NEW number \in Seq(STRING), luhn(number),
         NEW k \in 1..Len(number), NEW d \in 1..10, Digit[d] # number[k]
  PROVE  ~luhn([number EXCEPT ![k] = Digit[d]])
<1> DEFINE other == [number EXCEPT ![k] = Digit[d]]
           L == Len(number)
           j == L + 1 - k
<1>1. IsNumber(number) /\ LuhnSum(number)[L] % 10 = 0
  BY LuhnIsNumber DEF luhn
<1>2. Digit[d] \in Digits /\ number[k] \in Digits /\ j \in Nat
  BY <1>1, SummandIsDigit DEF Digits, IsNumber
<1>3. /\ Len(other) = L /\ LuhnSum(number)[L] \in Int
      /\ LuhnSum(other)[L] =
           LuhnSum(number)[L] + (Added(Digit[d], j) - Added(number[k], j))
  BY <1>1, <1>2, ReplacedSum
<1>4. /\ Added(Digit[d], j) \in 0..9 /\ Added(number[k], j) \in 0..9
      /\ Added(Digit[d], j) # Added(number[k], j)
  <2> HIDE DEF j
  <2> QED
    BY <1>2, AddedDiffers
<1>5. LuhnSum(other)[Len(other)] % 10 # 0
  <2>1. \A x \in Int, m, n \in 0..9 :
          x % 10 = 0 /\ m # n => (x + (m - n)) % 10 # 0
    OBVIOUS
  <2> HIDE DEF other, j, L
  <2> QED
    BY <1>1, <1>3, <1>4, <2>1
<1> QED
  BY <1>5 DEF luhn

\* How much more a digit adds doubled than as it is tells all digits apart but
\* 0 and 9.
LEMMA GainDiffers ==
  \A m, n \in 0..9 :
    m # n /\ ~(m = 0 /\ n = 9) /\ ~(m = 9 /\ n = 0) =>
      /\ Doubled(m) - m \in -4..4 /\ Doubled(n) - n \in -4..4
      /\ Doubled(m) - m # Doubled(n) - n
BY DEF Doubled

\* Nor does it pass with two neighbouring digits exchanged, unless they are 0
\* and 9.
THEOREM LuhnDetectsSwap ==
  ASSUME NEW number \in Seq(STRING), luhn(number), NEW k \in 1..Len(number) - 1,
         number[k] # number[k + 1], {number[k], number[k + 1]} # {"0", "9"}
  PROVE  ~luhn([number EXCEPT ![k] = number[k + 1], ![k + 1] = number[k]])
<1> DEFINE L == Len(number)
           x == number[k]
           y == number[k + 1]
           once == [number EXCEPT ![k] = y]
           twice == [once EXCEPT ![k + 1] = x]
           j == L - k
<1>1. IsNumber(number) /\ LuhnSum(number)[L] % 10 = 0
  BY LuhnIsNumber DEF luhn
<1>2. /\ L \in Nat /\ k \in 1..L /\ k + 1 \in 1..L /\ j \in Nat
      /\ L + 1 - k = j + 1 /\ L + 1 - (k + 1) = j
  OBVIOUS
<1>3. x \in Digits /\ y \in Digits
  BY <1>1, <1>2, SummandIsDigit
<1>4. /\ IsNumber(once) /\ Len(once) = L /\ once[k + 1] = y
      /\ LuhnSum(number)[L] \in Int
      /\ LuhnSum(once)[L] = LuhnSum(number)[L] + (Added(y, j + 1) - Added(x, j + 1))
  <2>1. once[k + 1] = y
    BY <1>2
  <2> HIDE DEF j, x, y
  <2> QED
    BY <1>1, <1>2, <1>3, <2>1, ReplacedSum DEF x
<1>5. /\ Len(twice) = L
      /\ LuhnSum(twice)[L] = LuhnSum(once)[L] + (Added(x, j) - Added(y, j))
  <2> HIDE DEF once, x, y, j
  <2> QED
    BY <1>2, <1>3, <1>4, ReplacedSum
<1>6. PICK m \in 0..9, n \in 0..9 :
        Atoi(x) = m /\ Atoi(y) = n /\ m # n /\ ~(m = 0 /\ n = 9) /\ ~(m = 9 /\ n = 0)
  <2>1. PICK d \in 1..10, e \in 1..10 : x = Digit[d] /\ y = Digit[e]
    BY <1>3 DEF Digits
  <2>2. Atoi(x) = d - 1 /\ Atoi(y) = e - 1 /\ d # e
    BY <2>1, AtoiOfDigit
  <2>3. Digit[1] = "0" /\ Digit[10] = "9"
    BY DEF Digit
  <2>4. ~(x = "0" /\ y = "9") /\ ~(x = "9" /\ y = "0")
    OBVIOUS
  <2>5. ~(d = 1 /\ e = 10) /\ ~(d = 10 /\ e = 1)
    <3> HIDE DEF x, y
    <3> QED
      BY <2>1, <2>3, <2>4
  <2>6. /\ d - 1 \in 0..9 /\ e - 1 \in 0..9 /\ d - 1 # e - 1
        /\ ~(d - 1 = 0 /\ e - 1 = 9) /\ ~(d - 1 = 9 /\ e - 1 = 0)
    BY <2>2, <2>5
  <2> QED
    BY <2>2, <2>6
<1>7. \/ /\ Added(x, j) = Doubled(m) /\ Added(y, j) = Doubled(n)
         /\ Added(x, j + 1) = m /\ Added(y, j + 1) = n
      \/ /\ Added(x, j) = m /\ Added(y, j) = n
         /\ Added(x, j + 1) = Doubled(m) /\ Added(y, j + 1) = Doubled(n)
  <2> HIDE DEF j, x, y
  <2>1. (j % 2 = 0) # ((j + 1) % 2 = 0)
    BY <1>2
  <2> QED
    BY <1>6, <2>1 DEF Added
<1>8. LuhnSum(twice)[Len(twice)] % 10 # 0
  <2> DEFINE s == LuhnSum(number)[L]
  <2>1. s \in Int /\ s % 10 = 0
    BY <1>1, <1>4
  <2>2. PICK p \in 0..9, q \in 0..9 : p = Doubled(m) /\ q = Doubled(n)
    BY DoubledPermutes
  <2>3. p - m \in -4..4 /\ q - n \in -4..4 /\ p - m # q - n
    BY <1>6, <2>2, GainDiffers
  <2>4. \/ LuhnSum(twice)[L] = (s + (q - p)) + (m - n)
        \/ LuhnSum(twice)[L] = (s + (n - m)) + (p - q)
    BY <1>4, <1>5, <1>7, <2>2
  <2>5. /\ ((s + (q - p)) + (m - n)) % 10 # 0
        /\ ((s + (n - m)) + (p - q)) % 10 # 0
    <3> HIDE DEF s
    <3> QED
      BY <2>1, <2>3
  <2> HIDE DEF s, twice, L
  <2> QED
    BY <1>5, <2>4, <2>5
<1>9. twice = [number EXCEPT ![k] = number[k + 1], ![k + 1] = number[k]]
  OBVIOUS
<1> QED
  BY <1>8, <1>9 DEF luhn

=============================================================================
