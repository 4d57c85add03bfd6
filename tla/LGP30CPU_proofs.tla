-------------------------- MODULE LGP30CPU_proofs --------------------------
(***************************************************************************)
(* Proofs about the arithmetic instructions, for words of every width, and *)
(* about the machine that executes them, for every layout of the word,     *)
(* every memory size, program, tape and behaviour of the I/O backend.      *)
(***************************************************************************)
EXTENDS LGP30CPU, LGP30Types_proofs

-----------------------------------------------------------------------------
(* The arithmetic: lemmas on numbers.                                      *)

LEMMA Magnitudes ==
  ASSUME NEW w \in Word
  PROVE  /\ MagnitudeOf(w) \in 0 .. MAGNITUDE
         /\ lgp30_word_to_signed(w) =
              (IF IsNegative(w) THEN -MagnitudeOf(w) ELSE MagnitudeOf(w))
  BY WordToSigned, Layout DEF MagnitudeOf, IsNegative

\* A sign and a magnitude survive it too, but a negative zero loses its sign.
LEMMA SignedWordParts ==
  ASSUME NEW negative \in BOOLEAN, NEW m \in 0 .. MAGNITUDE - 1
  PROVE  /\ SignedWord(negative, m) \in DrumWord
         /\ MagnitudeOf(SignedWord(negative, m)) = m
         /\ m # 0 => (IsNegative(SignedWord(negative, m)) <=> negative)
  <1> DEFINE v == IF negative THEN -m ELSE m
  <1>1. v \in Number /\ v \in Int
    BY Layout DEF Number
  <1>2. SignedWord(negative, m) = lgp30_word_from_signed(v)
    BY DEF SignedWord
  <1>3. lgp30_word_to_signed(SignedWord(negative, m)) = v
    BY <1>1, <1>2, RoundTrip DEF Number
  <1>4. SignedWord(negative, m) \in DrumWord
    BY <1>1, <1>2, WordFromSigned
  <1> QED
    BY <1>1, <1>3, <1>4, Layout DEF MagnitudeOf, IsNegative

LEMMA DrumWordIsWord == DrumWord \subseteq Word
  BY DEF DrumWord

-----------------------------------------------------------------------------
(* What one instruction does.                                              *)

\* The halves of a number field, as the adder sees them.
LEMMA NumberField ==
  ASSUME NEW w \in Word
  PROVE  /\ w \div 2 \in 0 .. 2 * MAGNITUDE - 1
         /\ (w \div 2) % MAGNITUDE =
              (IF w \div 2 < MAGNITUDE THEN w \div 2 ELSE (w \div 2) - MAGNITUDE)
         /\ lgp30_word_to_signed(w) =
              (IF w \div 2 < MAGNITUDE THEN w \div 2 ELSE (w \div 2) - 2 * MAGNITUDE)
  <1>1. w \div 2 \in 0 .. 2 * MAGNITUDE - 1
    BY Layout DEF Word, WORD_SIZE
  <1> QED
    BY <1>1, NearMod, Layout DEF lgp30_word_to_signed

\* Signed addition of the numbers u and v stand for is their addition in an
\* adder, where the numbers are congruent to u and v modulo 2 * MAGNITUDE.
LEMMA SignedAddition ==
  ASSUME NEW u \in 0 .. 2 * MAGNITUDE - 1, NEW v \in 0 .. 2 * MAGNITUDE - 1,
         NEW carry \in 0 .. 1, NEW a \in Int, NEW b \in Int,
         a = (IF u < MAGNITUDE THEN u ELSE u - 2 * MAGNITUDE),
         b + carry >= -2 * MAGNITUDE, b + carry <= 2 * MAGNITUDE,
         b = (IF v < MAGNITUDE THEN v ELSE v - 2 * MAGNITUDE),
         Settle(overflows_31bit(a + b + carry), lgp30_word_from_signed(a + b + carry))
  PROVE  Adder(u, v, carry)
  <1> DEFINE t == u + v + carry
             carryIn == (u % MAGNITUDE) + (v % MAGNITUDE) + carry >= MAGNITUDE
             carryOut == t >= 2 * MAGNITUDE
  <1>1. MAGNITUDE \in Int /\ MAGNITUDE > 0
    BY Layout
  <1>2. /\ u % MAGNITUDE = (IF u < MAGNITUDE THEN u ELSE u - MAGNITUDE)
        /\ v % MAGNITUDE = (IF v < MAGNITUDE THEN v ELSE v - MAGNITUDE)
    BY <1>1, NearMod
  <1>3. t % (2 * MAGNITUDE) = (IF carryOut THEN t - 2 * MAGNITUDE ELSE t)
    BY <1>1, NearMod
  <1>4. overflows_31bit(a + b + carry) <=> ~(carryIn <=> carryOut)
    BY <1>1, <1>2 DEF overflows_31bit
  <1>5. ASSUME carryIn <=> carryOut
        PROVE  (a + b + carry) % (2 * MAGNITUDE) = t % (2 * MAGNITUDE)
    <2>1. a + b + carry \in -MAGNITUDE .. MAGNITUDE - 1
      BY <1>1, <1>4, <1>5 DEF overflows_31bit
    <2>2. (a + b + carry) % (2 * MAGNITUDE) =
            (IF a + b + carry < 0 THEN a + b + carry + 2 * MAGNITUDE ELSE a + b + carry)
      BY <1>1, <2>1, NearMod
    <2> QED
      BY <1>1, <1>2, <1>3, <1>5, <2>1, <2>2
  <1>6. CASE carryIn <=> carryOut
    <2>1. status' = "RUNNING" /\ accumulator' = 2 * (t % (2 * MAGNITUDE))
      BY <1>4, <1>5, <1>6 DEF Settle, lgp30_word_from_signed
    <2> QED
      BY <1>6, <2>1 DEF Adder
  <1>7. CASE ~(carryIn <=> carryOut)
    <2>1. status' = "OVERFLOW" /\ accumulator' = accumulator
      BY <1>4, <1>7 DEF Settle
    <2> QED
      BY <1>7, <2>1 DEF Adder
  <1> QED
    BY <1>6, <1>7

LEMMA AddIsAdder ==
  ASSUME accumulator \in Word, NEW x \in DrumWord, Add(x)
  PROVE  Adder(accumulator \div 2, x \div 2, 0)
  <1> DEFINE a == lgp30_word_to_signed(accumulator)
             b == lgp30_word_to_signed(x)
             u == accumulator \div 2
             v == x \div 2
  <1>1. x \in Word
    BY DrumWordIsWord
  <1>2. a \in Number /\ b \in Number /\ MAGNITUDE \in Nat
    BY <1>1, WordToSigned, Layout DEF Number
  <1>3. Settle(overflows_31bit(a + b + 0), lgp30_word_from_signed(a + b + 0))
    <2>1. a + b + 0 = a + b
      BY <1>2 DEF Number
    <2> QED
      BY <2>1 DEF Add
  <1>4. /\ u \in 0 .. 2 * MAGNITUDE - 1
        /\ a = (IF u < MAGNITUDE THEN u ELSE u - 2 * MAGNITUDE)
    BY NumberField
  <1>5. /\ v \in 0 .. 2 * MAGNITUDE - 1
        /\ b = (IF v < MAGNITUDE THEN v ELSE v - 2 * MAGNITUDE)
    BY <1>1, NumberField
  <1>6. a \in Int /\ b \in Int /\ b + 0 >= -2 * MAGNITUDE /\ b + 0 <= 2 * MAGNITUDE
    BY <1>2 DEF Number
  <1> HIDE DEF a, b, u, v
  <1>7. Adder(u, v, 0)
    BY <1>3, <1>4, <1>5, <1>6, SignedAddition
  <1> QED
    BY <1>7 DEF u, v

LEMMA SubtractIsAdder ==
  ASSUME accumulator \in Word, NEW x \in DrumWord, Subtract(x)
  PROVE  Adder(accumulator \div 2, (2 * MAGNITUDE - 1) - (x \div 2), 1)
  <1> DEFINE a == lgp30_word_to_signed(accumulator)
             b == -lgp30_word_to_signed(x) - 1
             u == accumulator \div 2
             v == (2 * MAGNITUDE - 1) - (x \div 2)
  <1>1. x \in Word
    BY DrumWordIsWord
  <1>2. a \in Number /\ lgp30_word_to_signed(x) \in Number /\ MAGNITUDE \in Nat
    BY <1>1, WordToSigned, Layout DEF Number
  <1>3. a + b + 1 = a - lgp30_word_to_signed(x)
    BY <1>2 DEF Number
  <1>4. Settle(overflows_31bit(a + b + 1), lgp30_word_from_signed(a + b + 1))
    BY <1>3 DEF Subtract
  <1>5. /\ u \in 0 .. 2 * MAGNITUDE - 1
        /\ a = (IF u < MAGNITUDE THEN u ELSE u - 2 * MAGNITUDE)
    BY NumberField
  <1>6. /\ v \in 0 .. 2 * MAGNITUDE - 1
        /\ b = (IF v < MAGNITUDE THEN v ELSE v - 2 * MAGNITUDE)
    BY <1>1, <1>2, NumberField
  <1>7. a \in Int /\ b \in Int /\ b + 1 >= -2 * MAGNITUDE /\ b + 1 <= 2 * MAGNITUDE
    BY <1>2 DEF Number
  <1> HIDE DEF a, b, u, v
  <1>8. Adder(u, v, 1)
    BY <1>4, <1>5, <1>6, <1>7, SignedAddition
  <1> QED
    BY <1>8 DEF u, v

\* What every arithmetic instruction leaves: a word, without its spacer unless
\* the instruction overflowed and left the accumulator as it was.
LEMMA ProductHighPartRange ==
  ASSUME NEW a \in Nat, NEW b \in Nat
  PROVE  ProductHighPart(a, b) \in 0 .. MAGNITUDE - 1
  <1>1. a * b \in Nat /\ (a * b) \div MAGNITUDE \in Int
    BY DivMod, Layout
  <1> QED
    BY <1>1, DivMod, Layout DEF ProductHighPart

LEMMA QuotientNatural ==
  ASSUME NEW a \in Nat, NEW b \in Nat \ {0}
  PROVE  Quotient(a, b) \in Nat
  <1>1. a * MAGNITUDE \in Nat
    BY Layout
  <1>2. (a * MAGNITUDE) \div b \in Nat
    BY <1>1, DivNat
  <1> QED
    BY <1>2 DEF Quotient

\* A rounded quotient reaches 1 exactly when the operands say it does.
LEMMA QuotientOverflow ==
  ASSUME NEW a \in Nat, NEW b \in Nat \ {0}
  PROVE  /\ Quotient(a, b) >= MAGNITUDE <=> QuotientReachesOne(a, b)
         /\ -b < 2 * (Quotient(a, b) * b - a * MAGNITUDE)
         /\ 2 * (Quotient(a, b) * b - a * MAGNITUDE) <= b
  <1> DEFINE n == a * MAGNITUDE
             k == n \div b
             r == n % b
             q == Quotient(a, b)
  <1>1. n \in Nat /\ MAGNITUDE \in Nat \ {0}
    BY Layout
  <1>2. k \in Nat /\ r \in 0 .. b - 1 /\ n = b * k + r
    BY <1>1, DivMod, DivNat
  <1>3. q = k + (IF 2 * r >= b THEN 1 ELSE 0)
    BY DEF Quotient
  <1>4. QuotientReachesOne(a, b) <=> 2 * n >= 2 * (MAGNITUDE * b) - b
    <2>1. 2 * a * MAGNITUDE = 2 * n
      BY <1>1
    <2>2. (2 * MAGNITUDE - 1) * b = 2 * (MAGNITUDE * b) - b
      BY <1>1
    <2> QED
      BY <2>1, <2>2 DEF QuotientReachesOne
  <1> HIDE DEF n, k, r, q
  <1>5. b * k \in Nat /\ MAGNITUDE * b \in Nat /\ q * b = b * k + (IF 2 * r >= b THEN b ELSE 0)
    BY <1>1, <1>2, <1>3
  <1>6. -b < 2 * (q * b - n) /\ 2 * (q * b - n) <= b
    BY <1>1, <1>2, <1>5
  <1>7. ASSUME q >= MAGNITUDE PROVE 2 * n >= 2 * (MAGNITUDE * b) - b
    <2>1. q * b >= MAGNITUDE * b
      BY <1>1, <1>2, <1>3, <1>7
    <2> QED
      BY <1>1, <1>5, <1>6, <2>1
  <1>8. ASSUME q < MAGNITUDE PROVE 2 * n < 2 * (MAGNITUDE * b) - b
    <2>1. q + 1 <= MAGNITUDE /\ q \in Nat
      BY <1>1, <1>2, <1>3, <1>8
    <2>2. (q + 1) * b <= MAGNITUDE * b /\ (q + 1) * b = q * b + b
      BY <1>1, <2>1
    <2> QED
      BY <1>1, <1>5, <1>6, <2>2
  <1>9. q \in Nat
    BY <1>2, <1>3
  <1> QED
    BY <1>1, <1>4, <1>5, <1>6, <1>7, <1>8, <1>9 DEF n, q

LEMMA DivideOverflow ==
  ASSUME NEW a \in Nat, NEW b \in Nat
  PROVE  b = 0 \/ Quotient(a, b) >= MAGNITUDE <=> QuotientReachesOne(a, b)
  <1>1. CASE b = 0
    <2>1. MAGNITUDE \in Nat
      BY Layout
    <2>2. a * MAGNITUDE \in Nat /\ 2 * a * MAGNITUDE = 2 * (a * MAGNITUDE)
      BY <2>1
    <2>3. (2 * MAGNITUDE - 1) * 0 = 0
      BY <2>1
    <2>4. 2 * a * MAGNITUDE >= (2 * MAGNITUDE - 1) * b
      BY <1>1, <2>2, <2>3
    <2> QED
      BY <1>1, <2>4 DEF QuotientReachesOne
  <1>2. CASE b # 0
    BY <1>2, QuotientOverflow
  <1> QED
    BY <1>1, <1>2

\* A product reaches MAGNITUDE squared only as that of two most negatives.
LEMMA HighPartOfProduct ==
  ASSUME NEW a \in 0 .. MAGNITUDE, NEW b \in 0 .. MAGNITUDE, ~(a = MAGNITUDE /\ b = MAGNITUDE)
  PROVE  /\ ProductHighPart(a, b) * MAGNITUDE <= a * b
         /\ a * b < (ProductHighPart(a, b) + 1) * MAGNITUDE
  <1> DEFINE p == a * b
             k == p \div MAGNITUDE
             r == p % MAGNITUDE
  <1>1. MAGNITUDE \in Nat \ {0} /\ p \in Nat
    BY Layout
  <1>2. k \in Nat /\ r \in 0 .. MAGNITUDE - 1 /\ p = MAGNITUDE * k + r
    BY <1>1, DivMod, DivNat
  <1>3. p < MAGNITUDE * MAGNITUDE
    <2>1. CASE a < MAGNITUDE
      <3>1. a * b <= a * MAGNITUDE /\ (a + 1) * MAGNITUDE <= MAGNITUDE * MAGNITUDE
        BY <1>1, <2>1
      <3> QED
        BY <1>1, <3>1
    <2>2. CASE b < MAGNITUDE
      <3>1. a * b <= MAGNITUDE * b /\ MAGNITUDE * (b + 1) <= MAGNITUDE * MAGNITUDE
        BY <1>1, <2>2
      <3> QED
        BY <1>1, <3>1
    <2> QED
      BY <1>1, <2>1, <2>2
  <1> HIDE DEF p, k, r
  <1>4. k < MAGNITUDE
    <2>1. SUFFICES ASSUME k >= MAGNITUDE PROVE FALSE
      BY <1>1, <1>2
    <2>2. MAGNITUDE * k >= MAGNITUDE * MAGNITUDE
      BY <1>1, <1>2, <2>1
    <2> QED
      BY <1>1, <1>2, <1>3, <2>2
  <1>5. ProductHighPart(a, b) = k
    <2>1. k % MAGNITUDE = k
      BY <1>1, <1>2, <1>4, NearMod
    <2> QED
      BY <2>1 DEF ProductHighPart, k, p
  <1>6. k * MAGNITUDE = MAGNITUDE * k /\ (k + 1) * MAGNITUDE = MAGNITUDE * k + MAGNITUDE
    BY <1>1, <1>2
  <1> QED
    BY <1>1, <1>2, <1>5, <1>6 DEF p

\* The square of the most negative number is 1, and has no magnitude bits.
LEMMA SquareBetween ==
  ASSUME NEW m \in Nat \ {0}
  PROVE  (0 + 1 * m) * m <= m * m /\ m * m < (0 + 1 * m + 1) * m
  <1>1. 0 + 1 * m = m /\ (m + 1) * m = m * m + m /\ m * m \in Nat
    OBVIOUS
  <1> QED
    BY <1>1

LEMMA SquareLosesItsTop == ProductHighPart(MAGNITUDE, MAGNITUDE) = 0
  <1>1. MAGNITUDE \in Nat \ {0} /\ MAGNITUDE * MAGNITUDE \in Nat
    BY Layout
  <1>2. MAGNITUDE * MAGNITUDE = MAGNITUDE * MAGNITUDE + 0
    BY <1>1
  <1>3. (MAGNITUDE * MAGNITUDE) \div MAGNITUDE = MAGNITUDE
    BY <1>1
  <1>4. MAGNITUDE % MAGNITUDE = 0
    BY <1>1
  <1> QED
    BY <1>3, <1>4 DEF ProductHighPart

LEMMA ArithmeticResult ==
  ASSUME accumulator \in Word, NEW x \in DrumWord,
         \/ Add(x) \/ Subtract(x) \/ MMultiply(x) \/ NMultiply(x) \/ Divide(x) \/ Extract(x)
  PROVE  \/ status' = "RUNNING" /\ accumulator' \in DrumWord
         \/ status' = "OVERFLOW" /\ accumulator' = accumulator
  <1>1. x \in Word /\ x % 2 = 0
    BY DEF DrumWord
  <1>2. CASE Add(x)
    BY <1>1, <1>2, WordToSigned, WordFromSigned, Layout DEF Add, Settle
  <1>3. CASE Subtract(x)
    BY <1>1, <1>3, WordToSigned, WordFromSigned, Layout DEF Subtract, Settle
  <1>4. CASE MMultiply(x)
    <2>1. MagnitudeOf(accumulator) \in Nat /\ MagnitudeOf(x) \in Nat
      BY <1>1, Magnitudes, Layout
    <2>2. (IsNegative(accumulator) # IsNegative(x)) \in BOOLEAN
      OBVIOUS
    <2> QED
      BY <1>4, <2>1, <2>2, ProductHighPartRange, SignedWordParts DEF MMultiply
  <1>5. CASE NMultiply(x)
    <2> DEFINE low == (MagnitudeOf(accumulator) * MagnitudeOf(x)) % (2 * MAGNITUDE)
    <2>1. MagnitudeOf(accumulator) * MagnitudeOf(x) \in Int
      BY <1>1, Magnitudes, Layout
    <2>2. low \in 0 .. 2 * MAGNITUDE - 1
      BY <2>1, DivMod, Layout
    <2>3. accumulator' = 2 * low /\ status' = "RUNNING"
      BY <1>5 DEF NMultiply
    <2> HIDE DEF low
    <2>4. 2 * low \in 0 .. 4 * MAGNITUDE - 1 /\ (2 * low) % 2 = 0
      BY <2>2, Layout
    <2> QED
      BY <2>3, <2>4, Layout DEF DrumWord, Word, WORD_SIZE
  <1>6. CASE Divide(x)
    <2> DEFINE a == MagnitudeOf(accumulator)
               b == MagnitudeOf(x)
    <2>1. a \in Nat /\ b \in Nat
      BY <1>1, Magnitudes, Layout
    <2>2. CASE b = 0 \/ Quotient(a, b) >= MAGNITUDE
      BY <1>6, <2>2 DEF Divide, Settle
    <2>3. CASE ~(b = 0 \/ Quotient(a, b) >= MAGNITUDE)
      <3>1. Quotient(a, b) \in 0 .. MAGNITUDE - 1
        BY <2>1, <2>3, QuotientNatural, Layout
      <3>2. (IsNegative(accumulator) # IsNegative(x)) \in BOOLEAN
        OBVIOUS
      <3>3. SignedWord(IsNegative(accumulator) # IsNegative(x), Quotient(a, b)) \in DrumWord
        BY <3>1, <3>2, SignedWordParts
      <3> QED
        BY <1>6, <2>3, <3>3 DEF Divide, Settle
    <2> QED
      BY <2>2, <2>3
  <1>7. CASE Extract(x)
    BY <1>1, <1>7, BitAndWord DEF Extract, DrumWord
  <1> QED
    BY <1>2, <1>3, <1>4, <1>5, <1>6, <1>7

-----------------------------------------------------------------------------
(* The theorems.                                                           *)

\* The accumulator stays a word and an instruction runs on or overflows, for
\* every operand and every width of a word (cpu.c:163-283).
THEOREM ArithmeticTypeCorrect == ArithmeticSpec => []ArithmeticTypeOK
  <1>1. ArithmeticInit => ArithmeticTypeOK
    BY DEF ArithmeticInit, ArithmeticTypeOK
  <1>2. ArithmeticTypeOK /\ [ArithmeticNext]_arithmeticVars => ArithmeticTypeOK'
    <2> SUFFICES ASSUME ArithmeticTypeOK, [ArithmeticNext]_arithmeticVars
                 PROVE  ArithmeticTypeOK'
      OBVIOUS
    <2>1. CASE ArithmeticNext
      BY <2>1, ArithmeticResult, DrumWordIsWord DEF ArithmeticNext, ArithmeticTypeOK
    <2>2. CASE UNCHANGED arithmeticVars
      BY <2>2 DEF arithmeticVars, ArithmeticTypeOK
    <2> QED
      BY <2>1, <2>2
  <1> QED
    BY <1>1, <1>2, PTL DEF ArithmeticSpec

\* Addition and subtraction are those of a two's complement adder of any
\* width: overflow is the disagreement of its two carries.
THEOREM AddsLikeAnAdderAlways == ArithmeticSpec => AddsLikeAnAdder
  <1>1. ArithmeticTypeOK =>
          [\A x \in DrumWord :
             /\ Add(x) => Adder(accumulator \div 2, x \div 2, 0)
             /\ Subtract(x) =>
                  Adder(accumulator \div 2, (2 * MAGNITUDE - 1) - (x \div 2), 1)]_arithmeticVars
    BY AddIsAdder, SubtractIsAdder DEF ArithmeticTypeOK
  <1> QED
    BY <1>1, ArithmeticTypeCorrect, PTL DEF AddsLikeAnAdder

\* Whatever the width, "m" gives the truncated high half of the product, of which
\* it loses no more than the 1 that is the square of the most negative number, and
\* "n" its low half.
THEOREM MultipliesSplitTheProductAlways == ArithmeticSpec => MultipliesSplitTheProduct
  <1> DEFINE High(x) ==
        \E lost \in {0, 1} :
          /\ TruncatedProduct(x, lost)
          /\ lost = 1 <=> MostNegative(accumulator) /\ MostNegative(x)
      Split(x) ==
        /\ MMultiply(x) => High(x)
        /\ NMultiply(x) =>
             /\ accumulator' % 2 = 0
             /\ \E k \in 0 .. MAGNITUDE :
                  MagnitudeOf(accumulator) * MagnitudeOf(x) = 2 * MAGNITUDE * k + (accumulator' \div 2)
  <1>1. ASSUME accumulator \in Word, NEW x \in DrumWord
        PROVE  Split(x)
    <2> DEFINE a == MagnitudeOf(accumulator)
               b == MagnitudeOf(x)
               p == a * b
    <2>1. x \in Word /\ MAGNITUDE \in Nat \ {0}
      BY DrumWordIsWord, Layout
    <2>2. a \in 0 .. MAGNITUDE /\ b \in 0 .. MAGNITUDE /\ a \in Nat /\ b \in Nat
      BY <1>1, <2>1, Magnitudes
    <2>3. ASSUME MMultiply(x)
          PROVE  High(x)
      <3> DEFINE h == ProductHighPart(a, b)
                 negative == IsNegative(accumulator) # IsNegative(x)
      <3>1. accumulator' = SignedWord(negative, h) /\ negative \in BOOLEAN
        BY <2>3 DEF MMultiply
      <3>2. h \in 0 .. MAGNITUDE - 1
        BY <2>2, ProductHighPartRange
      <3>3. /\ MagnitudeOf(accumulator') = h
            /\ h # 0 => (IsNegative(accumulator') <=> negative)
        BY <3>1, <3>2, SignedWordParts
      <3>4. CASE a = MAGNITUDE /\ b = MAGNITUDE
        <4>1. h = 0
          BY <2>1, <3>4, SquareLosesItsTop
        <4>2. /\ (h + 1 * MAGNITUDE) * MAGNITUDE <= a * b
              /\ a * b < (h + 1 * MAGNITUDE + 1) * MAGNITUDE
          BY <2>1, <3>4, <4>1, SquareBetween
        <4>3. TruncatedProduct(x, 1)
          BY <3>3, <4>2 DEF TruncatedProduct
        <4> QED
          BY <3>4, <4>3 DEF MostNegative
      <3>5. CASE ~(a = MAGNITUDE /\ b = MAGNITUDE)
        <4>1. h * MAGNITUDE <= a * b /\ a * b < (h + 1) * MAGNITUDE
          BY <2>2, <3>5, HighPartOfProduct
        <4>2. 0 * MAGNITUDE = 0 /\ h + 0 = h
          BY <2>1, <3>2
        <4>3. TruncatedProduct(x, 0)
          BY <3>3, <4>1, <4>2 DEF TruncatedProduct
        <4> QED
          BY <3>5, <4>3 DEF MostNegative
      <3> QED
        BY <3>4, <3>5
    <2>4. ASSUME NMultiply(x)
          PROVE  /\ accumulator' % 2 = 0
                 /\ \E k \in 0 .. MAGNITUDE : p = 2 * MAGNITUDE * k + (accumulator' \div 2)
      <3> DEFINE k == p \div (2 * MAGNITUDE)
                 low == p % (2 * MAGNITUDE)
      <3>1. p \in Nat /\ p <= MAGNITUDE * MAGNITUDE
        BY <2>1, <2>2
      <3>2. k \in Nat /\ low \in 0 .. 2 * MAGNITUDE - 1 /\ p = (2 * MAGNITUDE) * k + low
        <4>1. 2 * MAGNITUDE \in Int /\ 2 * MAGNITUDE > 0
          BY <2>1
        <4> DEFINE n == 2 * MAGNITUDE
        <4>2. n \in Int /\ n > 0 /\ p \in Int /\ p \in Nat
          BY <3>1, <4>1
        <4> HIDE DEF p, n
        <4>3. p \div n \in Nat /\ p % n \in 0 .. n - 1 /\ p = n * (p \div n) + (p % n)
          BY <4>2, DivMod, DivNat
        <4> QED
          BY <4>3 DEF n
      <3>3. accumulator' = 2 * low
        BY <2>4 DEF NMultiply
      <3> HIDE DEF k, low, p
      <3>4. accumulator' % 2 = 0 /\ accumulator' \div 2 = low
        BY <3>2, <3>3
      <3>5. k <= MAGNITUDE
        <4>1. SUFFICES ASSUME k > MAGNITUDE PROVE FALSE
          BY <2>1, <3>2
        <4>2. MAGNITUDE * k > MAGNITUDE * MAGNITUDE /\ (2 * MAGNITUDE) * k = MAGNITUDE * k + MAGNITUDE * k
          BY <2>1, <3>2, <4>1
        <4>3. MAGNITUDE * k \in Nat /\ MAGNITUDE * MAGNITUDE \in Nat
          BY <2>1, <3>2
        <4> QED
          BY <3>1, <3>2, <4>2, <4>3
      <3> QED
        BY <3>2, <3>4, <3>5
    <2> QED
      BY <2>3, <2>4
  <1>2. ArithmeticTypeOK => [\A x \in DrumWord : Split(x)]_arithmeticVars
    BY <1>1 DEF ArithmeticTypeOK
  <1> QED
    BY <1>2, ArithmeticTypeCorrect, PTL DEF MultipliesSplitTheProduct

\* Whatever the width, a quotient is the nearest number and overflow is exact.
THEOREM DividesToNearestAlways == ArithmeticSpec => DividesToNearest
  <1> DEFINE Nearest(x) ==
        Divide(x) =>
          LET a == MagnitudeOf(accumulator)
              b == MagnitudeOf(x)
              q == MagnitudeOf(accumulator')
              error == 2 * (q * b - a * MAGNITUDE)
          IN IF QuotientReachesOne(a, b)
             THEN status' = "OVERFLOW" /\ accumulator' = accumulator
             ELSE /\ status' = "RUNNING"
                  /\ -b < error /\ error <= b
                  /\ q # 0 => (IsNegative(accumulator') <=> IsNegative(accumulator) # IsNegative(x))
  <1>1. ASSUME accumulator \in Word, NEW x \in DrumWord
        PROVE  Nearest(x)
    <2> DEFINE a == MagnitudeOf(accumulator)
               b == MagnitudeOf(x)
               negative == IsNegative(accumulator) # IsNegative(x)
    <2>1. x \in Word /\ MAGNITUDE \in Nat \ {0}
      BY DrumWordIsWord, Layout
    <2>2. a \in Nat /\ b \in Nat
      BY <1>1, <2>1, Magnitudes
    <2>3. b = 0 \/ Quotient(a, b) >= MAGNITUDE <=> QuotientReachesOne(a, b)
      BY <2>2, DivideOverflow
    <2>4. SUFFICES ASSUME Divide(x), ~QuotientReachesOne(a, b)
                   PROVE  /\ status' = "RUNNING"
                          /\ -b < 2 * (MagnitudeOf(accumulator') * b - a * MAGNITUDE)
                          /\ 2 * (MagnitudeOf(accumulator') * b - a * MAGNITUDE) <= b
                          /\ MagnitudeOf(accumulator') # 0 => (IsNegative(accumulator') <=> negative)
      BY <2>3 DEF Divide, Settle
    <2>5. status' = "RUNNING" /\ accumulator' = SignedWord(negative, Quotient(a, b))
      BY <2>3, <2>4 DEF Divide, Settle
    <2>6. Quotient(a, b) \in 0 .. MAGNITUDE - 1 /\ negative \in BOOLEAN
      BY <2>1, <2>2, <2>3, <2>4, QuotientNatural
    <2>7. /\ MagnitudeOf(accumulator') = Quotient(a, b)
          /\ Quotient(a, b) # 0 => (IsNegative(accumulator') <=> negative)
      BY <2>5, <2>6, SignedWordParts
    <2> QED
      BY <2>2, <2>3, <2>4, <2>5, <2>7, QuotientOverflow
  <1>2. ArithmeticTypeOK => [\A x \in DrumWord : Nearest(x)]_arithmeticVars
    BY <1>1 DEF ArithmeticTypeOK
  <1> QED
    BY <1>2, ArithmeticTypeCorrect, PTL DEF DividesToNearest

-----------------------------------------------------------------------------
(* The machine.                                                            *)

\* What holds of the machine between two calls, whatever the program does:
\* each part needs the others to be preserved by every step.
IInv == TypeOK /\ DrumSpacerClear /\ InputProtocol

-----------------------------------------------------------------------------
(* Lemmas on the parts of an instruction.                                  *)

LEMMA Rotation ==
  /\ TICKS_PER_REVOLUTION \in Nat \ {0}
  /\ TICKS_PER_SECTOR \in Nat \ {0}
  /\ TICK_RANGE \in Nat \ {0}
  <1>1. TICKS_PER_REVOLUTION \in Nat \ {0}
    BY DrumAssumption, Layout DEF TICKS_PER_REVOLUTION
  <1> QED
    BY <1>1, DrumAssumption

\* The wait is a part of one revolution, and ends at the start of the sector.
LEMMA WaitReachesSector ==
  ASSUME NEW t \in Nat, NEW sector \in 0 .. SECTORS - 1
  PROVE  /\ drum_wait_for_sector(t, sector) \in 0 .. TICKS_PER_REVOLUTION - 1
         /\ Under(t + drum_wait_for_sector(t, sector), sector)
  <1> DEFINE R == TICKS_PER_REVOLUTION
             position == t % R
             target == sector * TICKS_PER_SECTOR
             turns == t \div R
             wait == drum_wait_for_sector(t, sector)
  <1>1. R \in Nat \ {0} /\ TICKS_PER_SECTOR \in Nat \ {0} /\ SECTORS \in Nat \ {0}
    BY Rotation, Layout
  <1>2. target \in 0 .. R - 1
    <2>1. (sector + 1) * TICKS_PER_SECTOR <= SECTORS * TICKS_PER_SECTOR
      BY <1>1
    <2>2. (sector + 1) * TICKS_PER_SECTOR = target + TICKS_PER_SECTOR /\ target \in Nat
      BY <1>1
    <2>3. R = SECTORS * TICKS_PER_SECTOR
      BY <1>1 DEF TICKS_PER_REVOLUTION
    <2> QED
      BY <1>1, <2>1, <2>2, <2>3
  <1>3. turns \in Nat /\ position \in 0 .. R - 1 /\ t = R * turns + position
    BY <1>1, DivMod, DivNat
  <1>4. wait = IF target >= position THEN target - position ELSE R - position + target
    BY DEF drum_wait_for_sector
  <1> HIDE DEF R, position, target, turns, wait
  <1>5. wait \in 0 .. R - 1
    BY <1>1, <1>2, <1>3, <1>4
  <1>6. (t + wait) % R = target
    <2>1. R * turns \in Nat /\ R * (turns + 1) = R * turns + R
      BY <1>1, <1>3
    <2>2. CASE target >= position
      <3>1. t + wait = R * turns + target
        BY <1>2, <1>3, <1>4, <2>1, <2>2
      <3>2. (R * turns + target) % R = target
        BY <1>1, <1>2, <1>3, DivUnique
      <3> QED
        BY <3>1, <3>2
    <2>3. CASE ~(target >= position)
      <3> DEFINE next == turns + 1
      <3>1. t + wait = R * next + target /\ next \in Int
        BY <1>1, <1>2, <1>3, <1>4, <2>1, <2>3
      <3> HIDE DEF next
      <3>2. (R * next + target) % R = target
        BY <1>1, <1>2, <3>1, DivUnique
      <3> QED
        BY <3>1, <3>2
    <2> QED
      BY <2>2, <2>3
  <1> QED
    BY <1>5, <1>6 DEF Under, R, target, wait

\* The head passes a sector once in a revolution.
LEMMA NextVisitUnique ==
  ASSUME NEW t \in Nat, NEW sector,
         NEW u \in t .. t + TICKS_PER_REVOLUTION - 1, Under(u, sector)
  PROVE  NextVisit(t, sector) = u
  <1> DEFINE R == TICKS_PER_REVOLUTION
  <1>1. R \in Nat \ {0}
    BY Rotation
  <1> HIDE DEF R
  <1>2. ASSUME NEW v \in t .. t + R - 1, Under(v, sector)
        PROVE  v = u
    <2> DEFINE i == u \div R
               j == v \div R
               r == u % R
    <2>1. u \in Nat /\ v \in Nat /\ u - v < R /\ v - u < R
      BY <1>1, <1>2 DEF R
    <2>2. v % R = r
      BY <1>2 DEF Under, R
    <2>3. i \in Int /\ j \in Int /\ r \in 0 .. R - 1 /\ u = R * i + r /\ v = R * j + r
      BY <1>1, <2>1, <2>2, DivMod
    <2> HIDE DEF i, j, r
    <2>4. R * i \in Int /\ R * j \in Int
      BY <1>1, <2>3
    <2>5. ASSUME i < j PROVE FALSE
      <3>1. R * (i + 1) <= R * j /\ R * (i + 1) = R * i + R
        BY <1>1, <2>3, <2>5
      <3> QED
        BY <1>1, <2>1, <2>3, <2>4, <3>1
    <2>6. ASSUME j < i PROVE FALSE
      <3>1. R * (j + 1) <= R * i /\ R * (j + 1) = R * j + R
        BY <1>1, <2>3, <2>6
      <3> QED
        BY <1>1, <2>1, <2>3, <2>4, <3>1
    <2>7. i = j
      BY <2>3, <2>5, <2>6
    <2> QED
      BY <2>3, <2>7
  <1> QED
    BY <1>2 DEF NextVisit, R

LEMMA AccessTimeInRange ==
  ASSUME NEW t \in Ticks, NEW a \in Address
  PROVE  AccessTime(t, a) \in Ticks
  <1>1. lgp30_sector_of(a) \in 0 .. SECTORS - 1 /\ t \in Nat
    BY SectorRange, Rotation DEF Ticks
  <1>2. drum_wait_for_sector(t, lgp30_sector_of(a)) \in Nat
    BY <1>1, WaitReachesSector, Rotation
  <1> QED
    BY <1>1, <1>2, DivMod, Rotation DEF AccessTime, Ticks

\* The machine's own arithmetic on addresses and times stays in range.
LEMMA FetchRanges ==
  ASSUME TypeOK
  PROVE  /\ instr \in Word /\ addr \in Address
         /\ memory[addr] \in Word
         /\ nextCounter \in Address
         /\ (nextCounter + 1) % LGP30_MEMORY_WORDS \in Address
         /\ fetchTime \in Ticks /\ operandTime \in Ticks
  <1>1. instr \in Word
    BY DEF TypeOK, instr
  <1>2. addr \in Address
    BY <1>1, FieldRanges DEF addr
  <1>3. \A n \in Int : n % LGP30_MEMORY_WORDS \in Address
    <2>1. LGP30_MEMORY_WORDS \in Int /\ LGP30_MEMORY_WORDS > 0
      BY Layout
    <2> QED
      BY <2>1, DivMod DEF Address
  <1>4. nextCounter \in Address
    <2>1. counter \in Int
      BY Layout DEF TypeOK, Address
    <2> QED
      BY <1>3, <2>1 DEF nextCounter
  <1>5. nextCounter + 1 \in Int
    BY <1>4, Layout DEF Address
  <1>6. fetchTime \in Ticks
    BY AccessTimeInRange DEF TypeOK, fetchTime
  <1>7. operandTime \in Ticks
    BY <1>2, <1>6, AccessTimeInRange DEF operandTime
  <1> QED
    BY <1>1, <1>2, <1>3, <1>4, <1>5, <1>6, <1>7 DEF TypeOK

-----------------------------------------------------------------------------
(* The inductive invariant.  An instruction is one of four kinds by what   *)
(* it changes: it reads an operand into the accumulator, stores a word, or *)
(* transfers control; and `i 0000` asks the reader for a character.        *)

LEMMA OperandReadPreserves ==
  ASSUME IInv, NEW opcode, Executing(opcode), OperandRead,
         accumulator' \in Word, status' \in {"RUNNING", "OVERFLOW"}
  PROVE  IInv'
  <1>1. TypeOK'
    BY FetchRanges DEF IInv, TypeOK, Executing, OperandRead, Accesses, inputVars, Status
  <1>2. DrumSpacerClear'
    BY DEF IInv, DrumSpacerClear, OperandRead
  <1>3. InputProtocol'
    BY DEF IInv, InputProtocol, Executing, OperandRead, inputVars
  <1> QED
    BY <1>1, <1>2, <1>3 DEF IInv

LEMMA StoresPreserves ==
  ASSUME IInv, NEW opcode, Executing(opcode), NEW word \in Word, Stores(word),
         accumulator' \in Word
  PROVE  IInv'
  <1>1. lgp30_mask_spacer(word) \in DrumWord
    BY MaskSpacer
  <1>2. addr \in Address
    BY FetchRanges DEF IInv
  <1>3. DrumSpacerClear'
    BY <1>1, <1>2 DEF IInv, DrumSpacerClear, Stores
  <1>4. TypeOK'
    <2>1. memory' \in [Address -> Word]
      BY <1>3, DrumWordIsWord DEF DrumSpacerClear
    <2> QED
      BY <2>1, FetchRanges DEF IInv, TypeOK, Executing, Stores, Accesses, Runs, inputVars, Status
  <1>5. InputProtocol'
    BY DEF IInv, InputProtocol, Executing, Stores, Runs, inputVars
  <1> QED
    BY <1>3, <1>4, <1>5 DEF IInv

LEMMA TransfersPreserves ==
  ASSUME IInv, NEW opcode, Executing(opcode), NEW destination \in Address,
         Transfers(destination), status' \in {"RUNNING", "STOPPED"},
         printed' \in PrintCode \cup {NoCode}
  PROVE  IInv'
  <1>1. TypeOK'
    BY FetchRanges DEF IInv, TypeOK, Executing, Transfers, inputVars, Status
  <1>2. DrumSpacerClear'
    BY DEF IInv, DrumSpacerClear, Transfers
  <1>3. InputProtocol'
    BY DEF IInv, InputProtocol, Executing, Transfers, inputVars
  <1> QED
    BY <1>1, <1>2, <1>3 DEF IInv

\* One character of a word that has room for it.
LEMMA ShiftedWord ==
  ASSUME NEW a \in Word, NEW c \in Nat
  PROVE  ((a * 16) % WORD_SIZE) + (c % 16) \in Word
  <1> DEFINE s == (a * 16) % WORD_SIZE
             k == (a * 16) \div WORD_SIZE
             j == WORD_SIZE \div 16
  <1>1. WORD_SIZE \in Nat \ {0} /\ a * 16 \in Nat /\ c % 16 \in 0 .. 15
    BY Layout DEF Word
  <1>2. s \in 0 .. WORD_SIZE - 1 /\ k \in Nat /\ a * 16 = WORD_SIZE * k + s
    BY <1>1, DivMod, DivNat
  <1>3. j \in Nat /\ WORD_SIZE = 16 * j
    BY Layout
  <1> HIDE DEF s, k, j
  <1>4. s = 16 * (a - j * k)
    <2>1. WORD_SIZE * k = 16 * (j * k) /\ j * k \in Int /\ a \in Int
      BY <1>2, <1>3 DEF Word
    <2> QED
      BY <1>2, <2>1
  <1>5. s + 16 <= WORD_SIZE
    <2>1. a - j * k \in Int
      BY <1>2, <1>3 DEF Word
    <2> QED
      BY <1>2, <1>3, <1>4, <2>1
  <1> QED
    BY <1>1, <1>2, <1>5 DEF s, Word

LEMMA InputContinuePreserves ==
  ASSUME IInv, NEW count \in 0 .. INPUT_SHIFTS - 1, op_input_continue(count),
         counter' \in Address, instruction_register' \in Word, drum_ticks' \in Ticks,
         UNCHANGED tape
  PROVE  IInv'
  <1>1. INPUT_SHIFTS \in Nat \ {0} /\ Tapes \subseteq Seq(Nat)
    BY MachineAssumption, DigitsAssumption
  <1>2. tape \in Seq(Nat) /\ Len(tape) \in Nat /\ tape_pos \in 0 .. Len(tape)
    BY <1>1 DEF IInv, TypeOK
  <1>3. UNCHANGED <<memory, printed, tape>>
    BY DEF op_input_continue
  <1>4. DrumSpacerClear'
    BY <1>3 DEF IInv, DrumSpacerClear
  <1>5. count \in 0 .. INPUT_SHIFTS /\ count + 1 \in 0 .. INPUT_SHIFTS
    BY <1>1
  <1>6. CASE ReaderBlocks(count)
    <2>1. TypeOK'
      BY <1>1, <1>2, <1>3, <1>5, <1>6 DEF IInv, TypeOK, ReaderBlocks, Status
    <2>2. InputProtocol'
      BY <1>1, <1>6 DEF InputProtocol, ReaderBlocks, Halted
    <2> QED
      BY <1>4, <2>1, <2>2 DEF IInv
  <1>7. CASE ReaderAtEnd(count)
    <2>1. TypeOK'
      BY <1>1, <1>2, <1>3, <1>5, <1>7 DEF IInv, TypeOK, ReaderAtEnd, Status
    <2>2. InputProtocol'
      BY <1>7 DEF InputProtocol, ReaderAtEnd
    <2> QED
      BY <1>4, <2>1, <2>2 DEF IInv
  <1>8. CASE ReaderStops(count)
    <2>1. tape_pos' \in 0 .. Len(tape)
      BY <1>2, <1>8 DEF ReaderStops
    <2>2. TypeOK'
      BY <1>3, <1>5, <1>8, <2>1 DEF IInv, TypeOK, ReaderStops, Runs, Status
    <2>3. InputProtocol'
      BY <1>8 DEF InputProtocol, ReaderStops, Runs
    <2> QED
      BY <1>4, <2>2, <2>3 DEF IInv
  <1>9. CASE ReaderShifts(count)
    <2>1. tape_pos' \in 0 .. Len(tape)
      BY <1>2, <1>9 DEF ReaderShifts
    <2>2. Character \in Nat
      BY <1>2, <1>9 DEF Character, ReaderShifts
    <2>3. accumulator' \in Word
      BY <1>9, <2>2, ShiftedWord DEF IInv, TypeOK, ReaderShifts
    <2>4. TypeOK'
      BY <1>3, <1>5, <1>9, <2>1, <2>3 DEF IInv, TypeOK, ReaderShifts, Runs, Status
    <2>5. InputProtocol'
      BY <1>1, <1>9 DEF InputProtocol, ReaderShifts, Runs, Halted
    <2> QED
      BY <1>4, <2>4, <2>5 DEF IInv
  <1> QED
    BY <1>6, <1>7, <1>8, <1>9 DEF op_input_continue

\* An arithmetic instruction, as the machine executes it.
LEMMA ArithmeticPreserves ==
  ASSUME IInv, NEW opcode, Executing(opcode), OperandRead, NEW x, x = memory[addr],
         \/ Add(x) \/ Subtract(x) \/ MMultiply(x) \/ NMultiply(x) \/ Divide(x) \/ Extract(x)
  PROVE  IInv'
  <1>1. accumulator \in Word /\ x \in DrumWord
    BY FetchRanges DEF IInv, TypeOK, DrumSpacerClear
  <1>2. accumulator' \in Word /\ status' \in {"RUNNING", "OVERFLOW"}
    BY <1>1, ArithmeticResult, DrumWordIsWord
  <1> QED
    BY <1>2, OperandReadPreserves

\* A host may give the machine other words and another place to go on, between
\* two calls.
LEMMA LoadedPreserves ==
  ASSUME IInv, memory' \in [Address -> DrumWord], counter' \in Address,
         UNCHANGED <<accumulator, status, instruction_register, drum_ticks,
                     input_in_progress, input_shift_count, tape_pos, tape, printed>>
  PROVE  IInv'
  <1>1. memory' \in [Address -> Word]
    BY DrumWordIsWord
  <1> QED
    BY <1>1 DEF IInv, TypeOK, DrumSpacerClear, InputProtocol, Halted

LEMMA InitIInv == Init => IInv
  <1> SUFFICES ASSUME Init PROVE IInv
    OBVIOUS
  <1>1. memory \in [Address -> DrumWord] /\ counter \in Address
    BY MachineAssumption DEF Init
  <1>2. 0 \in Word /\ 0 \in Ticks /\ 0 \in 0 .. INPUT_SHIFTS
    BY Layout, Rotation, DigitsAssumption DEF Word, Ticks
  <1>3. tape \in Seq(Nat) /\ 0 \in 0 .. Len(tape)
    BY MachineAssumption DEF Init
  <1>4. memory \in [Address -> Word]
    BY <1>1, DrumWordIsWord
  <1>5. TypeOK
    BY <1>1, <1>2, <1>3, <1>4 DEF Init, TypeOK, Status
  <1>6. DrumSpacerClear /\ InputProtocol
    BY <1>1 DEF Init, DrumSpacerClear, InputProtocol
  <1> QED
    BY <1>5, <1>6 DEF IInv

LEMMA NextIInv == IInv /\ [Next]_vars => IInv'
  <1> SUFFICES ASSUME IInv, [Next]_vars PROVE IInv'
    OBVIOUS
  <1>1. accumulator \in Word
    BY DEF IInv, TypeOK
  <1>2. CASE HaltedStep
    BY <1>2 DEF HaltedStep, vars, drumVars, inputVars, IInv, TypeOK, DrumSpacerClear, InputProtocol, Halted
  <1>3. CASE ContinueInput
    <2>1. input_shift_count \in 0 .. INPUT_SHIFTS - 1
      BY <1>3, DigitsAssumption DEF IInv, TypeOK, InputProtocol, ContinueInput
    <2>2. /\ op_input_continue(input_shift_count)
          /\ counter' \in Address /\ instruction_register' \in Word /\ drum_ticks' \in Ticks
          /\ UNCHANGED tape
      BY <1>3 DEF ContinueInput, drumVars, IInv, TypeOK
    <2> QED
      BY <2>1, <2>2, InputContinuePreserves
  <1>4. CASE op_input
    <2>1. 0 \in 0 .. INPUT_SHIFTS - 1
      BY DigitsAssumption
    <2>2. /\ op_input_continue(0)
          /\ counter' \in Address /\ instruction_register' \in Word /\ drum_ticks' \in Ticks
          /\ UNCHANGED tape
      BY <1>4, FetchRanges DEF op_input, Executing, IInv
    <2> QED
      BY <2>1, <2>2, InputContinuePreserves
  <1>5. CASE op_stop
    <2>1. nextCounter \in Address /\ printed' \in PrintCode \cup {NoCode}
      BY <1>5, FetchRanges DEF op_stop, IInv, TypeOK
    <2> QED
      BY <1>5, <2>1, TransfersPreserves DEF op_stop
  <1>6. CASE op_print
    <2>1. nextCounter \in Address /\ printed' \in PrintCode \cup {NoCode}
      BY <1>6, FetchRanges, SectorRange DEF op_print, IInv, PrintCode
    <2> QED
      BY <1>6, <2>1, TransfersPreserves DEF op_print, Runs
  <1>7. CASE op_unconditional_transfer
    <2>1. addr \in Address /\ printed' \in PrintCode \cup {NoCode}
      BY <1>7, FetchRanges DEF op_unconditional_transfer, IInv, TypeOK
    <2> QED
      BY <1>7, <2>1, TransfersPreserves DEF op_unconditional_transfer, Runs
  <1>8. CASE op_test
    <2>1. /\ (IF SignBit(accumulator) THEN addr ELSE nextCounter) \in Address
          /\ printed' \in PrintCode \cup {NoCode}
      BY <1>8, FetchRanges DEF op_test, IInv, TypeOK
    <2> QED
      BY <1>8, <2>1, TransfersPreserves DEF op_test, Runs
  <1>9. CASE op_bring
    <2>1. accumulator' \in Word
      BY <1>9, FetchRanges DEF op_bring, IInv
    <2> QED
      BY <1>9, <2>1, OperandReadPreserves DEF op_bring, Runs
  <1>10. CASE op_store_address
    <2> DEFINE merged == ReplaceAddress(memory[addr], lgp30_instruction_address(accumulator))
    <2>1. merged \in Word
      BY <1>1, FetchRanges, FieldRanges, ReplaceAddressWord DEF IInv
    <2>2. Executing(2) /\ Stores(merged) /\ accumulator' \in Word
      BY <1>1, <1>10 DEF op_store_address
    <2> HIDE DEF merged
    <2> QED
      BY <2>1, <2>2, StoresPreserves
  <1>11. CASE op_return_address
    <2> DEFINE merged == ReplaceAddress(memory[addr], (nextCounter + 1) % LGP30_MEMORY_WORDS)
    <2>1. merged \in Word
      BY FetchRanges, ReplaceAddressWord DEF IInv
    <2>2. Executing(3) /\ Stores(merged) /\ accumulator' \in Word
      BY <1>1, <1>11 DEF op_return_address
    <2> HIDE DEF merged
    <2> QED
      BY <2>1, <2>2, StoresPreserves
  <1>12. CASE op_hold_and_store
    BY <1>1, <1>12, StoresPreserves DEF op_hold_and_store
  <1>13. CASE op_clear_and_store
    <2>1. 0 \in Word
      BY Layout DEF Word
    <2> QED
      BY <1>1, <1>13, <2>1, StoresPreserves DEF op_clear_and_store
  <1>14. CASE op_add
    BY <1>14, ArithmeticPreserves DEF op_add
  <1>15. CASE op_subtract
    BY <1>15, ArithmeticPreserves DEF op_subtract
  <1>16. CASE op_m_multiply
    BY <1>16, ArithmeticPreserves DEF op_m_multiply
  <1>17. CASE op_n_multiply
    BY <1>17, ArithmeticPreserves DEF op_n_multiply
  <1>18. CASE op_divide
    BY <1>18, ArithmeticPreserves DEF op_divide
  <1>19. CASE op_extract
    BY <1>19, ArithmeticPreserves DEF op_extract
  <1>20. CASE Reset
    <2>1. 0 \in Word /\ 0 \in Ticks /\ 0 \in Address /\ 0 \in 0 .. INPUT_SHIFTS
      BY Layout, Rotation, DigitsAssumption DEF Word, Ticks, Address
    <2> QED
      BY <1>20, <2>1 DEF Reset, IInv, TypeOK, Status, DrumSpacerClear, InputProtocol
  <1>21. CASE UNCHANGED vars
    BY <1>21 DEF vars, drumVars, inputVars, IInv, TypeOK, DrumSpacerClear, InputProtocol, Halted
  <1> QED
    BY <1>2, <1>3, <1>4, <1>5, <1>6, <1>7, <1>8, <1>9, <1>10, <1>11, <1>12, <1>13, <1>14,
       <1>15, <1>16, <1>17, <1>18, <1>19, <1>20, <1>21
    DEF Next, Step

-----------------------------------------------------------------------------
(* The theorems.                                                           *)

LEMMA IInvAlways == Spec => []IInv
  BY InitIInv, NextIInv, PTL DEF Spec

\* Every variable keeps its type: no address, field or count leaves its range,
\* whatever words the program makes and executes.
THEOREM TypeCorrect == Spec => []TypeOK
  BY IInvAlways, PTL DEF IInv

\* No program can put a 1 in the spacer of a word on the drum.
THEOREM SpacerStaysClear == Spec => []DrumSpacerClear
  BY IInvAlways, PTL DEF IInv

\* No order of calls, resets and answers of the reader leaves a halted machine
\* reading, or a waiting one with nothing to wait for.
THEOREM InputProtocolHolds == Spec => []InputProtocol
  BY IInvAlways, PTL DEF IInv

-----------------------------------------------------------------------------
(* The digits of a word in progress.                                       *)

LEMMA DivByOne == ASSUME NEW a \in Int PROVE a \div 1 = a
  <1>1. a \div 1 \in Int /\ a % 1 \in 0 .. 0 /\ a = 1 * (a \div 1) + (a % 1)
    BY DivMod
  <1> QED
    BY <1>1

LEMMA DivDiv ==
  ASSUME NEW b \in Int, NEW d \in 0 .. 15, NEW e \in Nat \ {0}
  PROVE  (16 * b + d) \div (16 * e) = b \div e
  <1> DEFINE q == b \div e
             r == b % e
             n == 16 * e
             low == 16 * r + d
  <1>1. q \in Int /\ r \in 0 .. e - 1 /\ b = e * q + r
    BY DivMod
  <1> HIDE DEF q, r
  <1>2. n \in Int /\ n > 0 /\ low \in 0 .. n - 1
    BY <1>1
  <1>3. 16 * b + d = n * q + low
    <2>1. n * q = 16 * (e * q) /\ e * q \in Int
      BY <1>1
    <2> QED
      BY <1>1, <2>1
  <1> HIDE DEF n, low
  <1>4. (n * q + low) \div n = q
    BY <1>1, <1>2, DivUnique
  <1> QED
    BY <1>3, <1>4 DEF n, q

\* A digit weighs sixteen of the one below it, and divides those above it.
LEMMA Weights ==
  ASSUME NEW k \in 1 .. INPUT_SHIFTS
  PROVE  /\ DIGIT_WEIGHTS[k] = 16 * DIGIT_WEIGHTS[k - 1]
         /\ \A i \in 0 .. k - 1 : DIGIT_WEIGHTS[k] % (16 * DIGIT_WEIGHTS[i]) = 0
  <1> DEFINE W(i) == DIGIT_WEIGHTS[i]
  <1>0. INPUT_SHIFTS \in Nat
    BY DigitsAssumption
  <1>1. ASSUME NEW n \in 1 .. k PROVE W(n) = 16 * W(n - 1) /\ W(n) \in Nat \ {0}
    <2>1. n \in 0 .. INPUT_SHIFTS /\ 1 \in 0 .. n /\ n - 1 \in 0 .. INPUT_SHIFTS
      BY <1>0
    <2> QED
      BY <2>1, DigitsAssumption
  <1>2. ASSUME NEW i \in 0 .. k - 1 PROVE W(k) % (16 * W(i)) = 0
    <2>1. i + 1 \in 1 .. k /\ (i + 1) - 1 = i /\ k \in 0 .. INPUT_SHIFTS /\ k - (i + 1) \in 0 .. INPUT_SHIFTS
      BY <1>0
    <2>2. W(i + 1) = 16 * W(i) /\ W(i + 1) \in Nat \ {0}
      BY <1>1, <2>1
    <2>3. W(k) = W(i + 1) * W(k - (i + 1)) /\ W(k - (i + 1)) \in Nat
      <3>1. i + 1 \in 0 .. k
        BY <2>1
      <3> QED
        BY <2>1, <3>1, DigitsAssumption
    <2> DEFINE n == W(i + 1)
               q == W(k - (i + 1))
    <2>4. n \in Int /\ n > 0 /\ q \in Int /\ W(k) = n * q + 0
      BY <2>2, <2>3
    <2> HIDE DEF n, q
    <2>5. (n * q + 0) % n = 0
      BY <2>4, DivUnique
    <2> QED
      BY <2>2, <2>4, <2>5 DEF n
  <1> QED
    BY <1>1, <1>2

\* A shift moves every digit one place up, but for the one it pushes out.
LEMMA ShiftMovesDigits ==
  ASSUME NEW a \in Word, NEW c \in Nat, NEW w,
         w = ((a * 16) % WORD_SIZE) + (c % 16)
  PROVE  /\ w % 16 = c % 16
         /\ \A k \in 0 .. INPUT_SHIFTS - 2 :
              (w \div DIGIT_WEIGHTS[k + 1]) % 16 = (a \div DIGIT_WEIGHTS[k]) % 16
  <1> DEFINE j == DIGIT_WEIGHTS[INPUT_SHIFTS - 1]
             K == (a * 16) \div WORD_SIZE
             b == a - j * K
             d == c % 16
  <1>1. /\ j \in Nat \ {0} /\ WORD_SIZE = 16 * j /\ WORD_SIZE \in Nat \ {0}
        /\ INPUT_SHIFTS \in Nat \ {0} /\ a \in Nat /\ d \in 0 .. 15
    BY DigitsAssumption, Weights, Layout DEF Word
  <1>2. K \in Nat /\ a * 16 = WORD_SIZE * K + ((a * 16) % WORD_SIZE)
    <2> DEFINE t == a * 16
    <2>1. t \in Nat /\ WORD_SIZE \in Int /\ WORD_SIZE > 0
      BY <1>1
    <2> HIDE DEF t
    <2>2. t \div WORD_SIZE \in Nat /\ t = WORD_SIZE * (t \div WORD_SIZE) + (t % WORD_SIZE)
      BY <2>1, DivMod, DivNat
    <2> QED
      BY <2>2 DEF t
  <1> HIDE DEF j, K, d
  <1>3. j * K \in Int /\ WORD_SIZE * K = 16 * (j * K) /\ (a * 16) % WORD_SIZE \in Int
    BY <1>1, <1>2, DivMod
  <1>4. b \in Int /\ w = 16 * b + d
    BY <1>1, <1>2, <1>3 DEF d
  <1>5. w % 16 = d
    BY <1>1, <1>4
  <1>6. ASSUME NEW k \in 0 .. INPUT_SHIFTS - 2
        PROVE  (w \div DIGIT_WEIGHTS[k + 1]) % 16 = (a \div DIGIT_WEIGHTS[k]) % 16
    <2> DEFINE e == DIGIT_WEIGHTS[k]
               m == j \div (16 * e)
               q == a \div e
               r == a % e
               z == m * K
    <2>1. e \in Nat \ {0} /\ DIGIT_WEIGHTS[k + 1] = 16 * e /\ j % (16 * e) = 0
      <3>1. /\ k \in 0 .. INPUT_SHIFTS /\ k + 1 \in 1 .. INPUT_SHIFTS /\ (k + 1) - 1 = k
            /\ INPUT_SHIFTS - 1 \in 1 .. INPUT_SHIFTS /\ k \in 0 .. (INPUT_SHIFTS - 1) - 1
        BY <1>1
      <3>2. e \in Nat \ {0}
        BY <3>1, DigitsAssumption
      <3>3. DIGIT_WEIGHTS[k + 1] = 16 * DIGIT_WEIGHTS[(k + 1) - 1]
        BY <3>1, Weights
      <3>4. DIGIT_WEIGHTS[INPUT_SHIFTS - 1] % (16 * DIGIT_WEIGHTS[k]) = 0
        BY <3>1, Weights
      <3> QED
        BY <3>1, <3>2, <3>3, <3>4 DEF j
    <2> HIDE DEF e
    <2>2. q \in Nat /\ r \in 0 .. e - 1 /\ a = e * q + r
      BY <1>1, <2>1, DivMod, DivNat
    <2>3. m \in Int /\ j = (16 * e) * m
      <3>1. 16 * e \in Int /\ 16 * e > 0 /\ j \in Int
        BY <1>1, <2>1
      <3> QED
        BY <2>1, <3>1, DivMod
    <2> HIDE DEF e, m, q, r
    <2>4. z \in Int /\ j * K = e * (16 * z)
      BY <1>2, <2>1, <2>3
    <2>5. b = e * (q - 16 * z) + r /\ q - 16 * z \in Int
      <3>1. e * (q - 16 * z) = e * q - e * (16 * z) /\ e * q \in Int /\ e * (16 * z) \in Int
        BY <2>1, <2>2, <2>4
      <3> QED
        BY <2>2, <2>4, <3>1
    <2> DEFINE p == q - 16 * z
    <2>6. p \in Int /\ b = e * p + r
      BY <2>5
    <2>7. p % 16 = q % 16
      BY <2>2, <2>4
    <2> HIDE DEF z, p
    <2>8. (e * p + r) \div e = p
      BY <2>1, <2>2, <2>6, DivUnique
    <2>9. w \div (16 * e) = b \div e
      <3> HIDE DEF b
      <3>1. (16 * b + d) \div (16 * e) = b \div e
        BY <1>1, <1>4, <2>1, DivDiv
      <3> QED
        BY <1>4, <3>1
    <2> QED
      BY <2>1, <2>6, <2>7, <2>8, <2>9 DEF e, q
  <1> QED
    BY <1>5, <1>6 DEF d

\* One answer of the reader keeps the account of the word.
LEMMA InputContinueAccounts ==
  ASSUME IInv, NEW count \in 0 .. INPUT_SHIFTS - 1, op_input_continue(count), UNCHANGED tape,
         count <= tape_pos,
         \A k \in 0 .. count - 1 : /\ (accumulator \div DIGIT_WEIGHTS[k]) % 16 = tape[tape_pos - k] % 16
                                   /\ tape[tape_pos - k] % 64 # INPUT_STOP_CODE
  PROVE  MidWordAccounting'
  <1>1. CASE ReaderBlocks(count)
    BY <1>1 DEF ReaderBlocks, MidWordAccounting
  <1>2. CASE ReaderAtEnd(count)
    BY <1>2 DEF ReaderAtEnd, MidWordAccounting
  <1>3. CASE ReaderStops(count)
    BY <1>3 DEF ReaderStops, MidWordAccounting
  <1>4. CASE ReaderShifts(count) /\ count + 1 < INPUT_SHIFTS
    <2>1. /\ tape_pos' = tape_pos + 1 /\ input_shift_count' = count + 1
          /\ accumulator' = ((accumulator * 16) % WORD_SIZE) + (Character % 16)
          /\ ~IsStopCode(Character) /\ Character = tape[tape_pos + 1]
      BY <1>4 DEF ReaderShifts, Character
    <2>2. tape \in Seq(Nat) /\ tape_pos \in Nat /\ tape_pos + 1 \in 1 .. Len(tape) /\ accumulator \in Word
      BY <1>4, MachineAssumption DEF IInv, TypeOK, ReaderShifts
    <2>3. Character \in Nat
      BY <2>1, <2>2
    <2>4. INPUT_SHIFTS \in Nat /\ count \in Nat /\ DIGIT_WEIGHTS[0] = 1
      BY DigitsAssumption
    <2>5. accumulator' \in Word
      BY <2>1, <2>2, <2>3, ShiftedWord
    <2>6. /\ accumulator' % 16 = Character % 16
          /\ \A k \in 0 .. INPUT_SHIFTS - 2 :
               (accumulator' \div DIGIT_WEIGHTS[k + 1]) % 16 = (accumulator \div DIGIT_WEIGHTS[k]) % 16
      BY <2>1, <2>2, <2>3, ShiftMovesDigits
    <2>7. ASSUME NEW k \in 0 .. count
          PROVE  /\ (accumulator' \div DIGIT_WEIGHTS[k]) % 16 = tape[tape_pos + 1 - k] % 16
                 /\ tape[tape_pos + 1 - k] % 64 # INPUT_STOP_CODE
      <3>1. CASE k = 0
        <4>1. tape_pos + 1 - k = tape_pos + 1
          BY <2>2, <3>1
        <4>2. accumulator' \div 1 = accumulator'
          <5>1. accumulator' \in Int
            BY <2>5, Layout DEF Word
          <5> QED
            BY <5>1, DivByOne
        <4> QED
          BY <2>1, <2>4, <2>6, <3>1, <4>1, <4>2 DEF IsStopCode
      <3>2. CASE k # 0
        <4> DEFINE i == k - 1
        <4>1. i \in 0 .. count - 1 /\ i \in 0 .. INPUT_SHIFTS - 2 /\ k = i + 1 /\ tape_pos + 1 - k = tape_pos - i
          BY <1>4, <2>2, <2>4, <3>2
        <4> HIDE DEF i
        <4> QED
          BY <2>6, <4>1
      <3> QED
        BY <3>1, <3>2
    <2>8. input_shift_count' <= tape_pos' /\ input_shift_count' - 1 = count
      BY <2>1, <2>2, <2>4
    <2>9. tape' = tape
      OBVIOUS
    <2>10. ASSUME NEW k \in 0 .. input_shift_count' - 1
           PROVE  /\ (accumulator' \div DIGIT_WEIGHTS[k]) % 16 = tape'[tape_pos' - k] % 16
                  /\ tape'[tape_pos' - k] % 64 # INPUT_STOP_CODE
      <3>1. k \in 0 .. count /\ tape_pos' - k = tape_pos + 1 - k
        BY <2>1, <2>2, <2>4, <2>8
      <3> QED
        BY <2>7, <2>9, <3>1
    <2> QED
      BY <2>8, <2>10 DEF MidWordAccounting
  <1>5. CASE ReaderShifts(count) /\ ~(count + 1 < INPUT_SHIFTS)
    BY <1>5 DEF ReaderShifts, MidWordAccounting
  <1> QED
    BY <1>1, <1>2, <1>3, <1>4, <1>5 DEF op_input_continue

LEMMA NextMidWord == IInv /\ MidWordAccounting /\ [Next]_vars => MidWordAccounting'
  <1> SUFFICES ASSUME IInv, MidWordAccounting, [Next]_vars PROVE MidWordAccounting'
    OBVIOUS
  <1>1. CASE ContinueInput
    <2>1. /\ input_in_progress /\ op_input_continue(input_shift_count) /\ UNCHANGED tape
      BY <1>1 DEF ContinueInput
    <2>2. input_shift_count \in 0 .. INPUT_SHIFTS - 1
      BY <2>1, DigitsAssumption DEF IInv, TypeOK, InputProtocol
    <2> QED
      BY <2>1, <2>2, InputContinueAccounts DEF MidWordAccounting
  <1>2. CASE op_input
    <2>1. op_input_continue(0) /\ UNCHANGED tape
      BY <1>2 DEF op_input, Executing
    <2>2. 0 \in 0 .. INPUT_SHIFTS - 1 /\ 0 <= tape_pos
      BY DigitsAssumption, MachineAssumption DEF IInv, TypeOK
    <2> QED
      BY <2>1, <2>2, InputContinueAccounts
  <1>3. CASE \/ op_stop \/ op_bring \/ op_store_address \/ op_return_address
             \/ op_divide \/ op_n_multiply \/ op_m_multiply
             \/ op_print \/ op_extract \/ op_unconditional_transfer \/ op_test
             \/ op_hold_and_store \/ op_clear_and_store \/ op_add \/ op_subtract
    <2>1. ~input_in_progress'
      BY <1>3 DEF op_stop, op_bring, op_store_address, op_return_address, op_divide,
         op_n_multiply, op_m_multiply, op_print, op_extract, op_unconditional_transfer, op_test,
         op_hold_and_store, op_clear_and_store, op_add, op_subtract,
         Executing, OperandRead, Stores, Transfers, inputVars
    <2> QED
      BY <2>1 DEF MidWordAccounting
  <1>4. CASE Reset
    BY <1>4 DEF Reset, MidWordAccounting
  <1>5. CASE HaltedStep \/ UNCHANGED vars
    BY <1>5 DEF HaltedStep, vars, inputVars, MidWordAccounting
  <1> QED
    BY <1>1, <1>2, <1>3, <1>4, <1>5 DEF Next, Step

\* In the middle of a word, the accumulator's low digits are the characters
\* read since its `i 0000`: none lost, repeated or reordered, whatever calls,
\* waits and resets came before (cpu.c:128-152).
THEOREM MidWordAccountingAlways == Spec => []MidWordAccounting
  <1>1. Init => MidWordAccounting
    BY DEF Init, MidWordAccounting
  <1> QED
    BY <1>1, NextMidWord, IInvAlways, PTL DEF Spec

-----------------------------------------------------------------------------
(* What a halted machine shows.                                            *)

\* The operands in place after an instruction that left them alone.
LEMMA OverflowShown ==
  ASSUME IInv, NEW opcode, Executing(opcode), OperandRead, accumulator' = accumulator,
         NEW a, NEW b,
         a = lgp30_word_to_signed(accumulator), b = lgp30_word_to_signed(memory[addr]),
         \/ opcode = 14 /\ a + b \notin Number
         \/ opcode = 15 /\ a - b \notin Number
         \/ opcode = 5 /\ QuotientReachesOne(MagnitudeOf(accumulator), MagnitudeOf(memory[addr]))
  PROVE  OverflowIsEvident'
  <1>1. /\ instruction_register' = instr /\ lgp30_opcode(instruction_register') = opcode
        /\ lgp30_instruction_address(instruction_register') = addr
        /\ memory' = memory
    BY DEF Executing, OperandRead, addr
  <1> QED
    BY <1>1 DEF OverflowIsEvident

LEMMA NextOverflow == IInv /\ OverflowIsEvident /\ [Next]_vars => OverflowIsEvident'
  <1> SUFFICES ASSUME IInv, OverflowIsEvident, [Next]_vars PROVE OverflowIsEvident'
    OBVIOUS
  <1> DEFINE x == memory[addr]
             a == lgp30_word_to_signed(accumulator)
             b == lgp30_word_to_signed(x)
  <1>1. x \in Word /\ accumulator \in Word
    BY FetchRanges DEF IInv, TypeOK
  <1>2. a \in Number /\ b \in Number /\ MAGNITUDE \in Nat \ {0}
    BY <1>1, WordToSigned, Layout DEF Number
  <1>3. CASE op_add
    <2>1. CASE overflows_31bit(a + b)
      <3>1. a + b \notin Number
        BY <1>2, <2>1 DEF overflows_31bit, Number
      <3>2. Executing(14) /\ OperandRead /\ accumulator' = accumulator
        BY <1>3, <2>1 DEF op_add, Add, Settle
      <3> QED
        BY <3>1, <3>2, OverflowShown
    <2>2. CASE ~overflows_31bit(a + b)
      BY <1>3, <2>2 DEF op_add, Add, Settle, OverflowIsEvident
    <2> QED
      BY <2>1, <2>2
  <1>4. CASE op_subtract
    <2>1. CASE overflows_31bit(a - b)
      <3>1. a - b \notin Number
        BY <1>2, <2>1 DEF overflows_31bit, Number
      <3>2. Executing(15) /\ OperandRead /\ accumulator' = accumulator
        BY <1>4, <2>1 DEF op_subtract, Subtract, Settle
      <3> QED
        BY <3>1, <3>2, OverflowShown
    <2>2. CASE ~overflows_31bit(a - b)
      BY <1>4, <2>2 DEF op_subtract, Subtract, Settle, OverflowIsEvident
    <2> QED
      BY <2>1, <2>2
  <1>5. CASE op_divide
    <2> DEFINE m == MagnitudeOf(accumulator)
               n == MagnitudeOf(x)
    <2>1. m \in Nat /\ n \in Nat
      BY <1>1, <1>2, Magnitudes
    <2>2. CASE n = 0 \/ Quotient(m, n) >= MAGNITUDE
      <3>1. QuotientReachesOne(m, n)
        BY <2>1, <2>2, DivideOverflow
      <3>2. Executing(5) /\ OperandRead /\ accumulator' = accumulator
        BY <1>5, <2>2 DEF op_divide, Divide, Settle
      <3> QED
        BY <3>1, <3>2, OverflowShown
    <2>3. CASE ~(n = 0 \/ Quotient(m, n) >= MAGNITUDE)
      BY <1>5, <2>3 DEF op_divide, Divide, Settle, OverflowIsEvident
    <2> QED
      BY <2>2, <2>3
  <1>6. CASE \/ op_stop \/ op_bring \/ op_store_address \/ op_return_address
             \/ op_n_multiply \/ op_m_multiply
             \/ op_print \/ op_extract \/ op_unconditional_transfer \/ op_test
             \/ op_hold_and_store \/ op_clear_and_store
    BY <1>6 DEF op_stop, op_bring, op_store_address, op_return_address,
       op_n_multiply, op_m_multiply, op_print, op_extract, op_unconditional_transfer, op_test,
       op_hold_and_store, op_clear_and_store,
       Stores, Runs, NMultiply, MMultiply, Extract, OverflowIsEvident
  <1>7. CASE op_input \/ ContinueInput
    <2>1. PICK count : op_input_continue(count)
      BY <1>7 DEF op_input, ContinueInput
    <2>2. status' # "OVERFLOW"
      BY <2>1 DEF op_input_continue, ReaderBlocks, ReaderAtEnd, ReaderStops, ReaderShifts, Runs
    <2> QED
      BY <2>2 DEF OverflowIsEvident
  <1>8. CASE Reset
    BY <1>8 DEF Reset, OverflowIsEvident
  <1>9. CASE HaltedStep \/ UNCHANGED vars
    BY <1>9 DEF HaltedStep, vars, drumVars, OverflowIsEvident
  <1> QED
    BY <1>3, <1>4, <1>5, <1>6, <1>7, <1>8, <1>9 DEF Next, Step

\* A machine never reports an overflow that the operands it still holds do not
\* show, whatever was executed before (cpu.c:198-214, 258-283).
THEOREM OverflowIsEvidentAlways == Spec => []OverflowIsEvident
  <1>1. Init => OverflowIsEvident
    BY DEF Init, OverflowIsEvident
  <1> QED
    BY <1>1, NextOverflow, IInvAlways, PTL DEF Spec

-----------------------------------------------------------------------------
(* What a step may do to the accumulator and to the clock.                 *)

\* No instruction but an input makes an accumulator with its spacer set.
THEOREM OnlyInputRaisesSpacerAlways == Spec => OnlyInputRaisesSpacer
  <1>1. ASSUME IInv, Next, accumulator' # accumulator, tape_pos' = tape_pos
        PROVE  accumulator' % 2 = 0
    <2>1. memory[addr] \in DrumWord /\ accumulator \in Word /\ tape_pos \in Nat
      BY <1>1, FetchRanges, MachineAssumption DEF IInv, TypeOK, DrumSpacerClear
    <2>2. CASE op_bring
      BY <2>1, <2>2 DEF op_bring, DrumWord
    <2>3. CASE \/ op_add \/ op_subtract \/ op_m_multiply \/ op_n_multiply
               \/ op_divide \/ op_extract
      BY <1>1, <2>1, <2>3, ArithmeticResult
      DEF op_add, op_subtract, op_m_multiply, op_n_multiply, op_divide, op_extract, DrumWord
    <2>4. CASE op_clear_and_store \/ Reset
      BY <2>4 DEF op_clear_and_store, Reset
    <2>5. CASE op_input \/ ContinueInput
      <3>1. PICK count : op_input_continue(count)
        BY <2>5 DEF op_input, ContinueInput
      <3> QED
        BY <1>1, <2>1, <3>1
        DEF op_input_continue, ReaderBlocks, ReaderAtEnd, ReaderStops, ReaderShifts
    <2>6. CASE \/ op_stop \/ op_store_address \/ op_return_address \/ op_print
               \/ op_unconditional_transfer \/ op_test \/ op_hold_and_store \/ HaltedStep
      BY <1>1, <2>6 DEF op_stop, op_store_address, op_return_address, op_print,
         op_unconditional_transfer, op_test, op_hold_and_store, HaltedStep, Transfers, vars
    <2> QED
      BY <1>1, <2>2, <2>3, <2>4, <2>5, <2>6 DEF Next, Step
  <1>2. IInv /\ [Next]_vars =>
          [accumulator' # accumulator /\ tape_pos' = tape_pos => accumulator' % 2 = 0]_vars
    BY <1>1
  <1> QED
    BY <1>2, IInvAlways, PTL DEF Spec, OnlyInputRaisesSpacer

\* What `y` and `r` put on the drum differs from what was there in the address
\* field, and in a spacer that is now clear.
LEMMA MergeKeepsBits ==
  ASSUME NEW w \in Word, NEW a \in Address
  PROVE  BitsOf(lgp30_mask_spacer(ReplaceAddress(w, a))) \ AddressBits =
           BitsOf(w) \ (AddressBits \cup {1})
  <1> DEFINE merged == ReplaceAddress(w, a)
             stored == lgp30_mask_spacer(merged)
  <1>1. merged \in Word
    BY ReplaceAddressWord
  <1>2. ASSUME NEW b \in BIT_WEIGHTS, b \notin AddressBits
        PROVE  (merged \div b) % 2 = (w \div b) % 2
    <2>1. /\ b \in Nat /\ ADDRESS_UNIT \in Nat /\ ADDRESS_UNIT * LGP30_MEMORY_WORDS \in Nat
      BY Layout, LayoutAssumption
    <2>2. b < ADDRESS_UNIT \/ b >= ADDRESS_UNIT * LGP30_MEMORY_WORDS
      BY <1>2, <2>1 DEF AddressBits
    <2> QED
      BY <2>2, ReplaceAddressBits
  <1>3. ASSUME NEW b \in BIT_WEIGHTS
        PROVE  (stored \div b) % 2 = IF b = 1 THEN 0 ELSE (merged \div b) % 2
    BY <1>1, MaskSpacerBits
  <1> HIDE DEF merged, stored
  <1>4. ASSUME NEW b \in BIT_WEIGHTS, b \notin AddressBits
        PROVE  (stored \div b) % 2 = 1 <=> (w \div b) % 2 = 1 /\ b # 1
    BY <1>2, <1>3, <1>4
  <1>5. BitsOf(stored) \ AddressBits = BitsOf(w) \ (AddressBits \cup {1})
    BY <1>4 DEF BitsOf
  <1> QED
    BY <1>5 DEF stored, merged

\* A program that steps the address of an instruction, in a word of any layout,
\* never changes anything else of it.
THEOREM AddressStoresKeepOpcodeAlways == Spec => AddressStoresKeepOpcode
  <1> DEFINE Keeps ==
        lgp30_opcode(instruction_register') \in {2, 3} =>
          \A a \in Address : memory'[a] # memory[a] =>
            /\ a = lgp30_instruction_address(instruction_register')
            /\ BitsOf(memory'[a]) \ AddressBits = BitsOf(memory[a]) \ (AddressBits \cup {1})
  <1>1. ASSUME IInv, Next
        PROVE  Keeps
    <2>1. /\ memory \in [Address -> Word] /\ addr \in Address /\ accumulator \in Word
          /\ nextCounter \in Address /\ (nextCounter + 1) % LGP30_MEMORY_WORDS \in Address
      BY <1>1, FetchRanges DEF IInv, TypeOK
    <2>2. CASE op_store_address \/ op_return_address
      <3>1. PICK target \in Address : Stores(ReplaceAddress(memory[addr], target))
        BY <2>1, <2>2, FieldRanges DEF op_store_address, op_return_address
      <3>2. addr = lgp30_instruction_address(instruction_register')
        BY <2>2 DEF op_store_address, op_return_address, Executing, addr
      <3>3. \A a \in Address : memory'[a] # memory[a] =>
              a = addr /\ memory'[a] = lgp30_mask_spacer(ReplaceAddress(memory[a], target))
        BY <2>1, <3>1 DEF Stores
      <3> QED
        BY <2>1, <3>1, <3>2, <3>3, MergeKeepsBits
    <2>3. CASE op_hold_and_store \/ op_clear_and_store
      BY <2>3 DEF op_hold_and_store, op_clear_and_store, Executing
    <2>4. CASE \/ op_stop \/ op_bring \/ op_input \/ op_divide \/ op_n_multiply \/ op_m_multiply
               \/ op_print \/ op_extract \/ op_unconditional_transfer \/ op_test
               \/ op_add \/ op_subtract \/ HaltedStep \/ ContinueInput \/ Reset
      <3>1. UNCHANGED memory
        BY <2>4 DEF op_stop, op_bring, op_input, op_divide, op_n_multiply, op_m_multiply,
           op_print, op_extract, op_unconditional_transfer, op_test, op_add, op_subtract,
           op_input_continue, HaltedStep, ContinueInput, Reset, OperandRead, Transfers, vars
      <3> QED
        BY <3>1
    <2> QED
      BY <1>1, <2>2, <2>3, <2>4 DEF Next, Step
  <1>2. IInv /\ [Next]_vars => [Keeps]_vars
    BY <1>1
  <1> QED
    BY <1>2, IInvAlways, PTL DEF Spec, AddressStoresKeepOpcode

LEMMA AccessIsNextVisit ==
  ASSUME NEW t \in Nat, t + TICKS_PER_REVOLUTION <= TICK_RANGE, NEW a \in Address
  PROVE  /\ AccessTime(t, a) = NextVisit(t, lgp30_sector_of(a))
         /\ AccessTime(t, a) \in t .. t + TICKS_PER_REVOLUTION - 1
  <1> DEFINE wait == drum_wait_for_sector(t, lgp30_sector_of(a))
  <1>1. lgp30_sector_of(a) \in 0 .. SECTORS - 1
    BY SectorRange
  <1>2. wait \in 0 .. TICKS_PER_REVOLUTION - 1 /\ Under(t + wait, lgp30_sector_of(a))
    BY <1>1, WaitReachesSector
  <1> HIDE DEF wait
  <1>3. t + wait \in t .. t + TICKS_PER_REVOLUTION - 1 /\ t + wait \in 0 .. TICK_RANGE - 1
    BY <1>2, Rotation
  <1>4. AccessTime(t, a) = t + wait
    <2>1. (t + wait) % TICK_RANGE = t + wait
      BY <1>3, NearMod, Rotation
    <2> QED
      BY <2>1 DEF AccessTime, wait
  <1> QED
    BY <1>2, <1>3, <1>4, NextVisitUnique

\* On a drum of any geometry, an instruction takes the time of the next visit
\* of the heads to its sector and then to its operand's.
THEOREM DrumChargesEachAccessAlways == Spec => DrumChargesEachAccess
  <1> DEFINE fetched == NextVisit(drum_ticks, lgp30_sector_of(counter))
             Charges ==
               drum_ticks' =
                 IF lgp30_opcode(memory[counter]) \in OperandOpcodes
                 THEN NextVisit(fetched, lgp30_sector_of(lgp30_instruction_address(memory[counter])))
                 ELSE fetched
             Now == /\ ~Halted /\ ~input_in_progress /\ ~Reset
                    /\ drum_ticks + 2 * TICKS_PER_REVOLUTION <= TICK_RANGE
  <1>1. ASSUME IInv, Next, Now
        PROVE  Charges
    <2>1. drum_ticks \in Nat /\ TICKS_PER_REVOLUTION \in Nat /\ TICK_RANGE \in Nat
      BY <1>1, Rotation DEF IInv, TypeOK, Ticks
    <2>2. counter \in Address /\ addr \in Address
      BY <1>1, FetchRanges DEF IInv, TypeOK
    <2>3. drum_ticks + TICKS_PER_REVOLUTION <= TICK_RANGE
      BY <1>1, <2>1
    <2>4. fetchTime = fetched /\ fetchTime \in drum_ticks .. drum_ticks + TICKS_PER_REVOLUTION - 1
      BY <2>1, <2>2, <2>3, AccessIsNextVisit DEF fetchTime
    <2>5. fetchTime \in Nat /\ fetchTime + TICKS_PER_REVOLUTION <= TICK_RANGE
      BY <1>1, <2>1, <2>4
    <2>6. operandTime = NextVisit(fetched, lgp30_sector_of(addr))
      BY <2>2, <2>4, <2>5, AccessIsNextVisit DEF operandTime
    <2>7. CASE \/ op_bring \/ op_store_address \/ op_return_address \/ op_divide
               \/ op_n_multiply \/ op_m_multiply \/ op_extract \/ op_hold_and_store
               \/ op_clear_and_store \/ op_add \/ op_subtract
      <3>1. drum_ticks' = operandTime /\ lgp30_opcode(instr) \in OperandOpcodes
        BY <2>7 DEF op_bring, op_store_address, op_return_address, op_divide, op_n_multiply,
           op_m_multiply, op_extract, op_hold_and_store, op_clear_and_store, op_add, op_subtract,
           Executing, OperandRead, Stores, Accesses, OperandOpcodes
      <3> QED
        BY <2>6, <3>1 DEF addr, instr
    <2>8. CASE op_stop \/ op_print \/ op_unconditional_transfer \/ op_test \/ op_input
      <3>1. drum_ticks' = fetchTime /\ lgp30_opcode(instr) \notin OperandOpcodes
        BY <2>8 DEF op_stop, op_print, op_unconditional_transfer, op_test, op_input,
           Executing, Transfers, OperandOpcodes
      <3> QED
        BY <2>4, <3>1 DEF instr
    <2>9. CASE HaltedStep \/ ContinueInput
      BY <1>1, <2>9 DEF HaltedStep, ContinueInput
    <2> QED
      BY <1>1, <2>7, <2>8, <2>9 DEF Next, Step
  <1>2. IInv /\ [Next]_vars => [Now => Charges]_vars
    BY <1>1
  <1> QED
    BY <1>2, IInvAlways, PTL DEF Spec, DrumChargesEachAccess
-----------------------------------------------------------------------------
(* What InputTerminates rests on, but for the fairness.                    *)

\* The word has one character more, and still wants some.
WordGrows ==
  /\ input_in_progress'
  /\ input_shift_count' = input_shift_count + 1
  /\ input_shift_count' < INPUT_SHIFTS
  /\ tape_pos' = tape_pos + 1

\* The device has no character to give yet: the word is as it was.
WordWaits == CAN_BLOCK /\ UNCHANGED <<input_in_progress, input_shift_count, accumulator, tape_pos>>

\* In the middle of a word, whatever the tape holds, every step ends the word or adds
\* one of the at most INPUT_SHIFTS characters to it; only a reader that blocks makes
\* the machine wait, and then nothing is lost (cpu.c:128-152).
THEOREM InputAlwaysNearsItsEnd ==
  Spec => [][input_in_progress => ~input_in_progress' \/ WordGrows \/ WordWaits]_vars
  <1> DEFINE Nears == input_in_progress => ~input_in_progress' \/ WordGrows \/ WordWaits
  <1>1. IInv /\ [Next]_vars => [Nears]_vars
    <2> SUFFICES ASSUME IInv, Next, input_in_progress
                 PROVE  ~input_in_progress' \/ WordGrows \/ WordWaits
      OBVIOUS
    <2>1. ~Halted /\ input_shift_count \in Nat /\ INPUT_SHIFTS \in Nat
      BY DigitsAssumption DEF IInv, TypeOK, InputProtocol
    <2>2. ContinueInput \/ Reset
      BY <2>1 DEF Next, Step, HaltedStep, Executing, op_stop, op_bring, op_store_address,
         op_return_address, op_input, op_divide, op_n_multiply, op_m_multiply, op_print,
         op_extract, op_unconditional_transfer, op_test, op_hold_and_store,
         op_clear_and_store, op_add, op_subtract
    <2>3. CASE Reset
      BY <2>3 DEF Reset
    <2>4. CASE ContinueInput
      <3>1. op_input_continue(input_shift_count)
        BY <2>4 DEF ContinueInput
      <3>2. CASE ReaderBlocks(input_shift_count)
        BY <3>2 DEF ReaderBlocks, WordWaits
      <3>3. CASE ReaderAtEnd(input_shift_count) \/ ReaderStops(input_shift_count)
        BY <3>3 DEF ReaderAtEnd, ReaderStops
      <3>4. CASE ReaderShifts(input_shift_count)
        <4>1. /\ input_shift_count' = input_shift_count + 1 /\ tape_pos' = tape_pos + 1
              /\ input_in_progress' = (input_shift_count + 1 < INPUT_SHIFTS)
          BY <3>4 DEF ReaderShifts
        <4>2. CASE input_shift_count + 1 < INPUT_SHIFTS
          BY <4>1, <4>2 DEF WordGrows
        <4>3. CASE ~(input_shift_count + 1 < INPUT_SHIFTS)
          BY <4>1, <4>3
        <4> QED
          BY <4>2, <4>3
      <3> QED
        BY <3>1, <3>2, <3>3, <3>4 DEF op_input_continue
    <2> QED
      BY <2>2, <2>3, <2>4
  <1> QED
    BY <1>1, IInvAlways, PTL DEF Spec
=============================================================================
