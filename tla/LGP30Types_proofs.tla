------------------------- MODULE LGP30Types_proofs -------------------------
(***************************************************************************)
(* What the operators on words return, for every layout of a word that     *)
(* LayoutAssumption allows: that of core/types.h among them.               *)
(***************************************************************************)
EXTENDS LGP30Types, WellFoundedInduction, TLAPS

\* Division, as the proofs below use it.
LEMMA DivMod ==
  ASSUME NEW a \in Int, NEW b \in Int, b > 0
  PROVE  a \div b \in Int /\ a % b \in 0 .. b - 1 /\ a = b * (a \div b) + (a % b)
  OBVIOUS

LEMMA DivNat ==
  ASSUME NEW a \in Nat, NEW b \in Int, b > 0
  PROVE  a \div b \in Nat
  OBVIOUS

\* A set of numbers has a least one: what induction over the numbers comes to,
\* as no theorem of the library that takes an operator can be used.
LEMMA LeastNumber ==
  ASSUME NEW S \in SUBSET Nat, S # {}
  PROVE  \E n \in S : \A m \in S : n <= m
  <1>1. PICK n \in S : \A m \in S : <<m, n>> \notin OpToRel(<, Nat)
    BY WFMin, NatLessThanWellFounded
  <1>2. ASSUME NEW i \in Nat, NEW j \in Nat, i < j
        PROVE  <<i, j>> \in OpToRel(<, Nat)
    BY <1>2 DEF OpToRel
  <1>3. \A m \in S : ~(m < n)
    BY <1>1, <1>2, Zenon
  <1> QED
    BY <1>3

\* Division has one result: what has the form of quotient and remainder is it.
LEMMA DivUnique ==
  ASSUME NEW n \in Int, n > 0, NEW q \in Int, NEW r \in 0 .. n - 1
  PROVE  (n * q + r) % n = r /\ (n * q + r) \div n = q
  <1> DEFINE t == n * q + r
             p == t \div n
             s == t % n
  <1>1. t \in Int /\ n * q \in Int
    OBVIOUS
  <1>2. p \in Int /\ s \in 0 .. n - 1 /\ t = n * p + s
    BY <1>1, DivMod
  <1> HIDE DEF p, s
  <1>3. n * p + s = n * q + r
    BY <1>2
  <1>4. p <= q
    <2>1. SUFFICES ASSUME p >= q + 1 PROVE FALSE
      BY <1>2
    <2>2. n * p >= n * (q + 1) /\ n * (q + 1) = n * q + n /\ n * p \in Int
      BY <1>2, <2>1
    <2> QED
      BY <1>1, <1>2, <1>3, <2>2
  <1>5. q <= p
    <2>1. SUFFICES ASSUME q >= p + 1 PROVE FALSE
      BY <1>2
    <2>2. n * q >= n * (p + 1) /\ n * (p + 1) = n * p + n /\ n * p \in Int
      BY <1>2, <2>1
    <2> QED
      BY <1>1, <1>2, <1>3, <2>2
  <1>6. p = q
    BY <1>2, <1>4, <1>5
  <1>7. s = r
    BY <1>1, <1>2, <1>3, <1>6
  <1> QED
    BY <1>6, <1>7 DEF p, s

\* The remainders of numbers within one modulus of 0.
LEMMA NearMod ==
  ASSUME NEW n \in Int, n > 0, NEW t \in Int
  PROVE  /\ t \in 0 .. n - 1 => t % n = t
         /\ t \in n .. 2 * n - 1 => t % n = t - n
         /\ t \in -n .. -1 => t % n = t + n
         /\ t \in 2 * n .. 3 * n - 1 => t % n = t - 2 * n
         /\ t \in -2 * n .. -n - 1 => t % n = t + 2 * n
  <1>1. ASSUME t \in 0 .. n - 1 PROVE t % n = t
    <2>1. t = n * 0 + t
      OBVIOUS
    <2> QED
      BY <1>1, <2>1, DivUnique
  <1>2. ASSUME t \in n .. 2 * n - 1 PROVE t % n = t - n
    <2>1. t = n * 1 + (t - n) /\ t - n \in 0 .. n - 1
      BY <1>2
    <2> QED
      BY <2>1, DivUnique
  <1>3. ASSUME t \in -n .. -1 PROVE t % n = t + n
    <2>1. t = n * (-1) + (t + n) /\ t + n \in 0 .. n - 1
      BY <1>3
    <2> QED
      BY <2>1, DivUnique
  <1>4. ASSUME t \in 2 * n .. 3 * n - 1 PROVE t % n = t - 2 * n
    <2>1. t = n * 2 + (t - 2 * n) /\ t - 2 * n \in 0 .. n - 1
      BY <1>4
    <2> QED
      BY <2>1, DivUnique
  <1>5. ASSUME t \in -2 * n .. -n - 1 PROVE t % n = t + 2 * n
    <2>1. t = n * (-2) + (t + 2 * n) /\ t + 2 * n \in 0 .. n - 1
      BY <1>5
    <2> QED
      BY <2>1, DivUnique
  <1> QED
    BY <1>1, <1>2, <1>3, <1>4, <1>5

\* The constants are numbers, and the word divides into sixteens.
LEMMA Layout ==
  /\ MAGNITUDE \in Nat \ {0} /\ TRACKS \in Nat \ {0} /\ SECTORS \in Nat \ {0}
  /\ ADDRESS_UNIT \in Nat \ {0} /\ OPCODE_UNIT \in Nat \ {0}
  /\ LGP30_MEMORY_WORDS \in Nat \ {0}
  /\ WORD_SIZE \in Nat \ {0}
  /\ WORD_SIZE % 16 = 0
  <1>1. LGP30_MEMORY_WORDS \in Nat \ {0}
    BY LayoutAssumption DEF LGP30_MEMORY_WORDS
  <1>2. WORD_SIZE % 16 = 0
    <2> DEFINE k == (2 * MAGNITUDE) \div (16 * OPCODE_UNIT)
    <2>a. 2 * MAGNITUDE \in Int /\ 16 * OPCODE_UNIT \in Int /\ 16 * OPCODE_UNIT > 0
      BY LayoutAssumption
    <2>b. (2 * MAGNITUDE) % (16 * OPCODE_UNIT) = 0
      BY LayoutAssumption
    <2>1. k \in Int /\ 2 * MAGNITUDE = (16 * OPCODE_UNIT) * k
      BY <2>a, <2>b, DivMod
    <2>2. WORD_SIZE = 16 * (2 * (OPCODE_UNIT * k))
      BY <2>1, LayoutAssumption DEF WORD_SIZE
    <2>3. OPCODE_UNIT * k \in Int
      BY <2>1, LayoutAssumption
    <2> QED
      BY <2>2, <2>3
  <1> QED
    BY <1>1, <1>2, LayoutAssumption DEF WORD_SIZE

\* The instruction fields are in range, whatever the word.
LEMMA FieldRanges ==
  ASSUME NEW w \in Word
  PROVE  lgp30_opcode(w) \in 0 .. 15 /\ lgp30_instruction_address(w) \in Address
  <1>1. w \in Int /\ w \div OPCODE_UNIT \in Int /\ w \div ADDRESS_UNIT \in Int
    BY DivMod, Layout DEF Word
  <1> QED
    BY <1>1, DivMod, Layout DEF lgp30_opcode, lgp30_instruction_address, Address

LEMMA SectorRange ==
  ASSUME NEW a \in Address
  PROVE  lgp30_sector_of(a) \in 0 .. SECTORS - 1 /\ lgp30_track_of(a) \in 0 .. TRACKS - 1
  <1>1. a \in Int /\ a \div SECTORS \in Int
    BY DivMod, Layout DEF Address
  <1> QED
    BY <1>1, DivMod, Layout DEF lgp30_sector_of, lgp30_track_of

\* What drum_write puts on the drum is a word of the drum.
LEMMA MaskSpacer ==
  ASSUME NEW w \in Word
  PROVE  lgp30_mask_spacer(w) \in DrumWord
  <1>1. w \in Nat /\ w % 2 \in 0 .. 1 /\ w - (w % 2) \in 0 .. w /\ (w - (w % 2)) % 2 = 0
    BY Layout DEF Word
  <1> QED
    BY <1>1, Layout DEF lgp30_mask_spacer, Word, DrumWord

\* A word with another address is a word: the sum never leaves the field.
LEMMA ReplaceAddressWord ==
  ASSUME NEW w \in Word, NEW a \in Address
  PROVE  ReplaceAddress(w, a) \in Word
  <1> DEFINE U == ADDRESS_UNIT
             M == LGP30_MEMORY_WORDS
             q == w \div U
             r == w % U
             k == q \div M
             a0 == q % M
             K == WORD_SIZE \div (U * M)
  <1>1. U \in Nat \ {0} /\ M \in Nat \ {0} /\ U * M \in Nat \ {0} /\ w \in Nat /\ w < WORD_SIZE
    BY Layout DEF Word
  <1>2. q \in Nat /\ r \in 0 .. U - 1 /\ w = U * q + r
    BY <1>1, DivMod, DivNat
  <1>3. k \in Nat /\ a0 \in 0 .. M - 1 /\ q = M * k + a0
    BY <1>1, <1>2, DivMod, DivNat
  <1>4. K \in Nat /\ WORD_SIZE = (U * M) * K
    BY <1>1, DivMod, DivNat, Layout, LayoutAssumption
  <1>5. a \in 0 .. M - 1
    BY DEF Address
  <1> HIDE DEF U, M, q, r, k, a0, K
  <1>6. w = (U * M) * k + U * a0 + r
    BY <1>1, <1>2, <1>3
  <1>7. ReplaceAddress(w, a) = w + U * (a - a0)
    BY DEF ReplaceAddress, lgp30_instruction_address, U, M, q, a0
  <1>8. ReplaceAddress(w, a) = (U * M) * k + (U * a + r)
    <2>1. U * (a - a0) = U * a - U * a0
      BY <1>1, <1>3, <1>5
    <2>2. U * a \in Int /\ U * a0 \in Int /\ (U * M) * k \in Int
      BY <1>1, <1>3, <1>5
    <2> QED
      BY <1>2, <1>6, <1>7, <2>1, <2>2
  <1>9. U * a + r \in 0 .. U * M - 1
    <2>1. U * a \in Nat /\ U * a + U <= U * M
      <3>1. U * (a + 1) <= U * M
        BY <1>1, <1>5
      <3> QED
        BY <3>1, <1>1, <1>5
    <2> QED
      BY <2>1, <1>1, <1>2
  <1>10. k < K
    <2>1. SUFFICES ASSUME K <= k PROVE FALSE
      BY <1>3, <1>4
    <2>2. (U * M) * K <= (U * M) * k
      BY <1>1, <1>3, <1>4, <2>1
    <2>3. U * a0 \in Nat /\ (U * M) * k \in Nat
      BY <1>1, <1>3
    <2> QED
      BY <1>1, <1>2, <1>4, <1>6, <2>2, <2>3
  <1>11. (U * M) * k + U * M <= WORD_SIZE /\ (U * M) * k \in Nat
    <2>1. (U * M) * (k + 1) <= (U * M) * K
      BY <1>1, <1>3, <1>4, <1>10
    <2> QED
      BY <2>1, <1>1, <1>3, <1>4
  <1> QED
    BY <1>1, <1>8, <1>9, <1>11, Layout DEF Word

\* The number in a word is a 31-bit number, and back.
LEMMA WordToSigned ==
  ASSUME NEW w \in Word
  PROVE  lgp30_word_to_signed(w) \in -MAGNITUDE .. MAGNITUDE - 1
  BY Layout DEF Word, WORD_SIZE, lgp30_word_to_signed

LEMMA WordFromSigned ==
  ASSUME NEW value \in Int
  PROVE  lgp30_word_from_signed(value) \in DrumWord
  <1>1. value % (2 * MAGNITUDE) \in 0 .. 2 * MAGNITUDE - 1
    BY DivMod, Layout
  <1> DEFINE v == value % (2 * MAGNITUDE)
  <1> HIDE DEF v
  <1>2. v \in 0 .. 2 * MAGNITUDE - 1 => 2 * v \in 0 .. 4 * MAGNITUDE - 1 /\ (2 * v) % 2 = 0
    BY Layout
  <1> QED
    BY <1>1, <1>2 DEF lgp30_word_from_signed, v, DrumWord, Word, WORD_SIZE

\* A number survives being put in a word and read back.
LEMMA RoundTrip ==
  ASSUME NEW value \in -MAGNITUDE .. MAGNITUDE - 1
  PROVE  lgp30_word_to_signed(lgp30_word_from_signed(value)) = value
  <1> DEFINE v == value % (2 * MAGNITUDE)
  <1>1. v = (IF value < 0 THEN value + 2 * MAGNITUDE ELSE value)
    BY NearMod, Layout
  <1> HIDE DEF v
  <1>2. v \in 0 .. 2 * MAGNITUDE - 1 /\ (2 * v) \div 2 = v
    BY <1>1, Layout
  <1>3. lgp30_word_from_signed(value) = 2 * v
    BY DEF lgp30_word_from_signed, v
  <1> QED
    BY <1>1, <1>2, <1>3, Layout DEF lgp30_word_to_signed

\* A multiple that is not 0 is no smaller.
LEMMA MultipleIsLarger ==
  ASSUME NEW a \in Nat \ {0}, NEW b \in Nat \ {0}, a % b = 0
  PROVE  b <= a /\ \E k \in Nat \ {0} : a = b * k
  <1> DEFINE k == a \div b
  <1>1. k \in Nat /\ a = b * k
    BY DivMod, DivNat
  <1> HIDE DEF k
  <1>2. k # 0
    BY <1>1
  <1>3. b * 1 <= b * k
    BY <1>1, <1>2
  <1> QED
    BY <1>1, <1>2, <1>3

\* A bit of a number does not change with the multiples of a larger weight in it.
LEMMA BitBelow ==
  ASSUME NEW b \in Nat \ {0}, NEW n \in Nat \ {0}, n % (2 * b) = 0,
         NEW q \in Nat, NEW t \in Nat
  PROVE  ((n * q + t) \div b) % 2 = (t \div b) % 2
  <1> DEFINE u == t \div b
             v == t % b
             x == u \div 2
             y == u % 2
  <1>1. u \in Nat /\ v \in 0 .. b - 1 /\ t = b * u + v
    BY DivMod, DivNat
  <1>2. x \in Nat /\ y \in 0 .. 1 /\ u = 2 * x + y
    BY <1>1, DivMod, DivNat
  <1>3. PICK c \in Nat \ {0} : n = (2 * b) * c
    BY MultipleIsLarger
  <1> HIDE DEF u, v, x, y
  <1> DEFINE z == c * q
  <1>4. z \in Nat /\ n * q = b * (2 * z)
    <2>1. z \in Nat
      OBVIOUS
    <2>2. ((2 * b) * c) * q = b * (2 * (c * q))
      BY <1>3
    <2> QED
      BY <1>3, <2>1, <2>2
  <1> HIDE DEF z
  <1>5. n * q + t = b * (2 * z + u) + v
    <2>1. b * (2 * z + u) = b * (2 * z) + b * u /\ b * (2 * z) \in Int /\ b * u \in Int
      BY <1>1, <1>4
    <2> QED
      BY <1>1, <1>4, <2>1
  <1>6. 2 * z + u \in Int /\ (b * (2 * z + u) + v) \div b = 2 * z + u
    BY <1>1, <1>4, DivUnique
  <1>7. 2 * z + u = 2 * (z + x) + y /\ z + x \in Int
    BY <1>2, <1>4
  <1>8. (2 * (z + x) + y) % 2 = y
    BY <1>2, <1>7, DivUnique
  <1> QED
    BY <1>5, <1>6, <1>7, <1>8 DEF u, y

\* The bits above a field do not change with what the field holds.
LEMMA BitAbove ==
  ASSUME NEW n \in Nat \ {0}, NEW b \in Nat \ {0}, b % n = 0, NEW s \in Nat,
         NEW x \in 0 .. n - 1
  PROVE  (n * s + x) \div b = s \div (b \div n)
  <1>1. PICK k \in Nat \ {0} : b = n * k
    BY MultipleIsLarger
  <1>2. b \div n = k
    <2>1. b = n * k + 0
      BY <1>1
    <2> QED
      BY <2>1, DivUnique
  <1> DEFINE z == s \div k
             y == s % k
  <1>3. z \in Nat /\ y \in 0 .. k - 1 /\ s = k * z + y
    BY DivMod, DivNat
  <1> HIDE DEF z, y
  <1> DEFINE low == n * y + x
  <1>4. low \in 0 .. b - 1
    <2>1. n * y <= n * (k - 1) /\ n * (k - 1) = n * k - n /\ n * y \in Nat
      BY <1>3
    <2> QED
      BY <1>1, <2>1
  <1>5. n * s + x = b * z + low
    <2>1. n * (k * z + y) = (n * k) * z + n * y /\ (n * k) * z \in Int /\ n * y \in Int
      BY <1>3
    <2> QED
      BY <1>1, <1>3, <2>1
  <1> HIDE DEF low
  <1>6. (b * z + low) \div b = z
    BY <1>3, <1>4, DivUnique
  <1> QED
    BY <1>2, <1>5, <1>6 DEF z

\* A word with another address differs from it in the address field only.
LEMMA ReplaceAddressBits ==
  ASSUME NEW w \in Word, NEW a \in Address, NEW b \in BIT_WEIGHTS,
         b < ADDRESS_UNIT \/ b >= ADDRESS_UNIT * LGP30_MEMORY_WORDS
  PROVE  (ReplaceAddress(w, a) \div b) % 2 = (w \div b) % 2
  <1> DEFINE U == ADDRESS_UNIT
             M == LGP30_MEMORY_WORDS
             field == U * M
             q == w \div U
             r == w % U
             k == q \div M
             a0 == q % M
             q2 == M * k + a
             low == U * a0 + r
             low2 == U * a + r
  <1>1. /\ U \in Nat \ {0} /\ M \in Nat \ {0} /\ field \in Nat \ {0}
        /\ w \in Nat /\ b \in Nat \ {0}
    BY Layout, LayoutAssumption DEF Word
  <1>2. q \in Nat /\ r \in 0 .. U - 1 /\ w = U * q + r
    BY <1>1, DivMod, DivNat
  <1>3. k \in Nat /\ a0 \in 0 .. M - 1 /\ q = M * k + a0
    BY <1>1, <1>2, DivMod, DivNat
  <1>4. a \in 0 .. M - 1
    BY DEF Address
  <1>5. ReplaceAddress(w, a) = w + U * (a - a0)
    BY DEF ReplaceAddress, lgp30_instruction_address, U, M, q, a0
  <1>6. b < U => U % (2 * b) = 0
    BY BitsAssumption DEF U
  <1>7. b >= field => b % field = 0
    BY BitsAssumption DEF field, U, M
  <1>8. b < U \/ b >= field
    BY DEF field, U, M
  <1> HIDE DEF U, M, q, r, k, a0
  <1>9. U * (a - a0) = U * a - U * a0 /\ U * a \in Nat /\ U * a0 \in Nat
    BY <1>1, <1>3, <1>4
  <1>10. /\ q2 \in Nat /\ (U * M) * k \in Nat
         /\ U * q = (U * M) * k + U * a0 /\ U * q2 = (U * M) * k + U * a
    BY <1>1, <1>3, <1>4
  <1>11. ReplaceAddress(w, a) = U * q2 + r
    BY <1>2, <1>5, <1>9, <1>10
  <1>12. w = field * k + low /\ ReplaceAddress(w, a) = field * k + low2
    BY <1>2, <1>9, <1>10, <1>11
  <1>13. ASSUME NEW i \in 0 .. M - 1
         PROVE  U * i + r \in 0 .. field - 1
    <2>1. U * (i + 1) <= U * M /\ U * (i + 1) = U * i + U /\ U * i \in Nat
      BY <1>1
    <2> QED
      BY <2>1, <1>1, <1>2
  <1>14. low \in 0 .. field - 1 /\ low2 \in 0 .. field - 1
    BY <1>3, <1>4, <1>13
  <1> HIDE DEF field, low, low2, q2
  <1>15. CASE b < U
    <2>0. r \in Nat /\ U % (2 * b) = 0
      BY <1>1, <1>2, <1>6, <1>15
    <2>1. ASSUME NEW p \in Nat PROVE ((U * p + r) \div b) % 2 = (r \div b) % 2
      <3>1. b \in Nat \ {0} /\ U \in Nat \ {0} /\ U % (2 * b) = 0 /\ r \in Nat
        BY <1>1, <2>0
      <3>2. \A t \in Nat : ((U * p + t) \div b) % 2 = (t \div b) % 2
        <4> TAKE t \in Nat
        <4> QED
          BY <3>1, BitBelow
      <3> QED
        BY <3>1, <3>2
    <2>2. ((U * q + r) \div b) % 2 = (r \div b) % 2 /\ ((U * q2 + r) \div b) % 2 = (r \div b) % 2
      BY <1>2, <1>10, <2>1
    <2> QED
      BY <1>2, <1>11, <2>2
  <1>16. CASE b >= field
    <2>1. (field * k + low) \div b = k \div (b \div field)
      BY <1>1, <1>3, <1>7, <1>14, <1>16, BitAbove
    <2>2. (field * k + low2) \div b = k \div (b \div field)
      BY <1>1, <1>3, <1>7, <1>14, <1>16, BitAbove
    <2> QED
      BY <1>12, <2>1, <2>2
  <1> QED
    BY <1>8, <1>15, <1>16

\* Clearing the spacer clears one bit.
LEMMA MaskSpacerBits ==
  ASSUME NEW w \in Word, NEW b \in BIT_WEIGHTS
  PROVE  (lgp30_mask_spacer(w) \div b) % 2 = IF b = 1 THEN 0 ELSE (w \div b) % 2
  <1> DEFINE s == w \div 2
             x == w % 2
  <1>1. w \in Nat /\ b \in Nat \ {0} /\ lgp30_mask_spacer(w) = w - x
    BY Layout, LayoutAssumption DEF Word, lgp30_mask_spacer
  <1>2. s \in Nat /\ x \in 0 .. 1 /\ w = 2 * s + x
    BY <1>1
  <1> HIDE DEF s, x
  <1>3. lgp30_mask_spacer(w) = 2 * s + 0
    BY <1>1, <1>2
  <1>4. CASE b = 1
    BY <1>2, <1>3, <1>4
  <1>5. CASE b # 1
    <2>1. b % 2 = 0
      BY <1>5, BitsAssumption
    <2>2. ASSUME NEW y \in 0 .. 1 PROVE (2 * s + y) \div b = s \div (b \div 2)
      <3>1. 2 \in Nat \ {0} /\ y \in 0 .. 2 - 1
        OBVIOUS
      <3> QED
        BY <1>1, <1>2, <2>1, <3>1, BitAbove
    <2> QED
      BY <1>2, <1>3, <1>5, <2>2
  <1> QED
    BY <1>4, <1>5

\* The fields of an instruction fit in a word above the spacer, and come back
\* as they were put in.
LEMMA InstructionWord ==
  ASSUME NEW opcode \in 0 .. 15, NEW address \in Address
  PROVE  LET word == lgp30_make_instruction(opcode, address)
         IN /\ word \in DrumWord
            /\ lgp30_opcode(word) = opcode
            /\ lgp30_instruction_address(word) = address
  <1> DEFINE O == OPCODE_UNIT
             U == ADDRESS_UNIT
             M == LGP30_MEMORY_WORDS
             word == lgp30_make_instruction(opcode, address)
  <1>1. /\ O \in Nat \ {0} /\ U \in Nat \ {0} /\ M \in Nat \ {0} /\ U * M \in Nat \ {0}
        /\ opcode \in Nat /\ address \in 0 .. M - 1
    BY Layout DEF Address
  <1>2. PICK k \in Nat \ {0} : O = (U * M) * k
    BY <1>1, MultipleIsLarger, LayoutAssumption
  <1>3. PICK u \in Nat \ {0} : U = 2 * u
    BY <1>1, MultipleIsLarger, LayoutAssumption
  <1>4. 16 * O <= 2 * MAGNITUDE
    <2>1. 16 * O \in Nat \ {0} /\ 2 * MAGNITUDE \in Nat \ {0} /\ (2 * MAGNITUDE) % (16 * O) = 0
      BY <1>1, Layout, LayoutAssumption
    <2> QED
      BY <2>1, MultipleIsLarger
  <1>5. word = O * opcode + U * address
    BY <1>1 DEF lgp30_make_instruction
  <1>6. U * M <= O
    <2>1. (U * M) * 1 <= (U * M) * k
      BY <1>1, <1>2
    <2> QED
      BY <1>1, <1>2, <2>1
  <1>7. U * address \in 0 .. U * M - U
    <2>1. U * address \in Nat /\ U * (address + 1) <= U * M /\ U * (address + 1) = U * address + U
      BY <1>1
    <2> QED
      BY <1>1, <2>1
  <1>8. U * address \in 0 .. O - 1
    BY <1>1, <1>6, <1>7
  <1> HIDE DEF O, U, M, word
  <1>9. O * opcode \in 0 .. 15 * O
    BY <1>1
  <1>10. word \in 0 .. 4 * MAGNITUDE - 1
    BY <1>1, <1>4, <1>5, <1>8, <1>9, Layout
  <1>11. word % 2 = 0
    <2> DEFINE half == M * k * opcode + address
    <2>1. half \in Nat /\ M * k * opcode \in Nat
      BY <1>1, <1>2
    <2>2. O * opcode = U * (M * k * opcode)
      BY <1>1, <1>2
    <2>3. word = U * half
      BY <1>1, <1>5, <2>1, <2>2
    <2>4. word = 2 * (u * half) /\ u * half \in Nat
      BY <1>3, <2>1, <2>3
    <2> QED
      BY <2>4
  <1>12. word \div O = opcode
    BY <1>1, <1>5, <1>8, <1>10, DivUnique
  <1>13. word \div U = M * (k * opcode) + address
    <2>1. word = U * (M * (k * opcode) + address) + 0
      <3>1. O * opcode = U * (M * (k * opcode))
        BY <1>1, <1>2
      <3>2. M * (k * opcode) \in Nat
        BY <1>1, <1>2
      <3> QED
        BY <1>1, <1>5, <3>1, <3>2
    <2>2. M * (k * opcode) + address \in Int /\ word \in Int /\ 0 \in 0 .. U - 1
      BY <1>1, <1>2, <1>10, Layout
    <2> QED
      BY <1>1, <2>1, <2>2, DivUnique
  <1>14. (M * (k * opcode) + address) % M = address
    <2>1. k * opcode \in Int /\ M * (k * opcode) + address \in Int
      BY <1>1, <1>2
    <2> QED
      BY <1>1, <2>1, DivUnique
  <1>15. opcode % 16 = opcode
    OBVIOUS
  <1>16. word \in DrumWord
    BY <1>10, <1>11 DEF DrumWord, Word, WORD_SIZE
  <1> QED
    BY <1>12, <1>13, <1>14, <1>15, <1>16
    DEF lgp30_opcode, lgp30_instruction_address, word, O, U, M

\* The and of two words exists, and has no bit that one of them lacks: with a
\* word of the drum it has no spacer.
LEMMA BitAndWord ==
  ASSUME NEW x \in Word, NEW y \in Word
  PROVE  /\ BitAnd(x, y) \in Word
         /\ BitsOf(BitAnd(x, y)) \subseteq BitsOf(x) \cap BitsOf(y)
         /\ y % 2 = 0 => BitAnd(x, y) % 2 = 0
  <1> DEFINE C == CommonParts(x, y)
             Gaps == {y - z : z \in C}
  <1>1. y \in Nat /\ y < WORD_SIZE /\ WORD_SIZE \in Nat
    BY Layout DEF Word
  <1>2. C \subseteq 0 .. y
    BY DEF CommonParts
  <1>3. 0 \in C
    <2>1. BitsOf(0) = {}
      <3>1. \A b \in BIT_WEIGHTS : 0 \div b = 0
        BY LayoutAssumption
      <3> QED
        BY <3>1 DEF BitsOf
    <2> QED
      BY <1>1, <2>1 DEF CommonParts
  <1>4. Gaps \in SUBSET Nat /\ Gaps # {}
    BY <1>1, <1>2, <1>3
  <1>5. \E n \in Gaps : \A m \in Gaps : n <= m
    <2> HIDE DEF Gaps
    <2> QED
      BY <1>4, LeastNumber
  <1>6. \E z \in C : \A u \in C : u <= z
    <2>1. PICK z \in C : \A u \in C : y - z <= y - u
      BY <1>5
    <2>2. \A u \in C : u <= z
      BY <1>1, <1>2, <2>1
    <2> QED
      BY <2>2
  <1>7. BitAnd(x, y) \in C
    <2> HIDE DEF C
    <2> QED
      BY <1>6 DEF BitAnd, C
  <1>8. BitAnd(x, y) \in 0 .. y /\ BitsOf(BitAnd(x, y)) \subseteq BitsOf(x) \cap BitsOf(y)
    BY <1>7 DEF CommonParts
  <1>9. BitAnd(x, y) \in Word
    BY <1>1, <1>8 DEF Word
  <1>10. ASSUME y % 2 = 0 PROVE BitAnd(x, y) % 2 = 0
    <2>1. \A w \in Nat : 1 \in BitsOf(w) <=> w % 2 = 1
      BY LayoutAssumption DEF BitsOf
    <2>2. 1 \notin BitsOf(y)
      BY <1>1, <1>10, <2>1
    <2>3. 1 \notin BitsOf(BitAnd(x, y))
      BY <1>8, <2>2
    <2>4. BitAnd(x, y) \in Nat
      BY <1>1, <1>8
    <2> HIDE DEF C
    <2>5. BitAnd(x, y) % 2 \in 0 .. 1
      BY <2>4
    <2> QED
      BY <2>1, <2>3, <2>4, <2>5
  <1> QED
    BY <1>8, <1>9, <1>10
=============================================================================
