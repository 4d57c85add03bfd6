-------------------------- MODULE SourceText_proofs --------------------------
(***************************************************************************)
(* The assembler makes of a text what its lines say, for every text, every *)
(* layout of the word and every room for a line.                           *)
(***************************************************************************)
EXTENDS SourceText, Assembler_proofs, FiniteSetTheorems

-----------------------------------------------------------------------------
(* Digits and letters.                                                     *)

LEMMA HexDigits ==
  /\ HEX_DIGITS[1] = "0" /\ HEX_DIGITS[2] = "1" /\ HEX_DIGITS[3] = "2" /\ HEX_DIGITS[4] = "3"
  /\ HEX_DIGITS[5] = "4" /\ HEX_DIGITS[6] = "5" /\ HEX_DIGITS[7] = "6" /\ HEX_DIGITS[8] = "7"
  /\ HEX_DIGITS[9] = "8" /\ HEX_DIGITS[10] = "9"
  BY Zenon DEF HEX_DIGITS

LEMMA OpcodeLetters ==
  /\ OPCODE_LETTERS[1] = "z" /\ OPCODE_LETTERS[2] = "b" /\ OPCODE_LETTERS[3] = "y"
  /\ OPCODE_LETTERS[4] = "r" /\ OPCODE_LETTERS[5] = "i" /\ OPCODE_LETTERS[6] = "d"
  /\ OPCODE_LETTERS[7] = "n" /\ OPCODE_LETTERS[8] = "m" /\ OPCODE_LETTERS[9] = "p"
  /\ OPCODE_LETTERS[10] = "e" /\ OPCODE_LETTERS[11] = "u" /\ OPCODE_LETTERS[12] = "t"
  /\ OPCODE_LETTERS[13] = "h" /\ OPCODE_LETTERS[14] = "c" /\ OPCODE_LETTERS[15] = "a"
  /\ OPCODE_LETTERS[16] = "s"
  BY Zenon DEF OPCODE_LETTERS

LEMMA DigitsDiffer ==
  ASSUME NEW d \in 0 .. 9, NEW e \in 0 .. 9, HEX_DIGITS[d + 1] = HEX_DIGITS[e + 1]
  PROVE  d = e
  BY HexDigits

LEMMA LettersDiffer ==
  ASSUME NEW d \in 0 .. 15, NEW e \in 0 .. 15, OPCODE_LETTERS[d + 1] = OPCODE_LETTERS[e + 1]
  PROVE  d = e
  BY OpcodeLetters

\* digit() undoes HEX_DIGITS.
LEMMA DigitOfHex ==
  ASSUME NEW d \in 0 .. 9
  PROVE  HEX_DIGITS[d + 1] \in DecimalDigit /\ digit(HEX_DIGITS[d + 1]) = d
  <1>1. HEX_DIGITS[d + 1] \in DecimalDigit
    BY DEF DecimalDigit
  <1> QED
    BY <1>1, DigitsDiffer DEF digit

LEMMA HexOfDigit ==
  ASSUME NEW c \in DecimalDigit
  PROVE  digit(c) \in 0 .. 9 /\ HEX_DIGITS[digit(c) + 1] = c
  <1>1. PICK e \in 1 .. 10 : c = HEX_DIGITS[e]
    BY DEF DecimalDigit
  <1>2. e - 1 \in 0 .. 9 /\ HEX_DIGITS[(e - 1) + 1] = c
    BY <1>1
  <1> QED
    BY <1>2, DigitOfHex

LEMMA SignsAreNoDigits == "-" \notin DecimalDigit /\ "+" \notin DecimalDigit
  BY HexDigits DEF DecimalDigit

\* A letter is that of one instruction.
LEMMA OpcodeField ==
  ASSUME NEW c
  PROVE  opcode_value(c) \in Field(0 .. 15)
  <1>1. CASE opcode_value(c) = {}
    BY <1>1 DEF Field
  <1>2. ASSUME NEW k \in opcode_value(c) PROVE opcode_value(c) = {k} /\ k \in 0 .. 15
    BY <1>2, LettersDiffer DEF opcode_value
  <1> QED
    BY <1>1, <1>2 DEF Field

-----------------------------------------------------------------------------
(* Addresses: parsing one undoes printing it.                              *)

\* An address is a track and a sector, both of two digits.
LEMMA TrackAndSector ==
  ASSUME NEW a \in Address
  PROVE  LET t == lgp30_track_of(a)
             s == lgp30_sector_of(a)
         IN /\ t \in 0 .. TRACKS - 1 /\ s \in 0 .. SECTORS - 1
            /\ a = t * SECTORS + s
  <1> DEFINE q == a \div SECTORS
             s == a % SECTORS
  <1>1. /\ a \in Int /\ 0 <= a /\ a < TRACKS * SECTORS
        /\ TRACKS \in Int /\ TRACKS > 0 /\ SECTORS \in Int /\ SECTORS > 0
        /\ TRACKS * SECTORS \in Int
    BY Layout DEF Address, LGP30_MEMORY_WORDS
  <1>2. q \in Int /\ s \in 0 .. SECTORS - 1 /\ a = SECTORS * q + s
    BY <1>1, DivMod
  <1> HIDE DEF q, s
  <1>3. SECTORS * q \in Int /\ SECTORS * q = q * SECTORS
    BY <1>1, <1>2
  <1>4. q < TRACKS
    <2>1. SUFFICES ASSUME q >= TRACKS PROVE FALSE
      BY <1>1, <1>2
    <2>2. q * SECTORS >= TRACKS * SECTORS
      BY <1>1, <1>2, <2>1
    <2> QED
      BY <1>1, <1>2, <1>3, <2>2
  <1>5. q >= 0
    <2>1. SUFFICES ASSUME q <= -1 PROVE FALSE
      BY <1>2
    <2>2. q * SECTORS <= -SECTORS
      BY <1>1, <1>2, <2>1
    <2> QED
      BY <1>1, <1>2, <1>3, <2>2
  <1>6. q % TRACKS = q
    BY <1>1, <1>2, <1>4, <1>5, NearMod
  <1> QED
    BY <1>1, <1>2, <1>3, <1>4, <1>5, <1>6 DEF q, s, lgp30_track_of, lgp30_sector_of

\* A track and a sector are an address.
LEMMA FromTrackAndSector ==
  ASSUME NEW t \in 0 .. TRACKS - 1, NEW s \in 0 .. SECTORS - 1
  PROVE  LET a == lgp30_address_from_track_sector(t, s)
         IN /\ a \in Address
            /\ lgp30_track_of(a) = t /\ lgp30_sector_of(a) = s
            /\ a = t * SECTORS + s
  <1> DEFINE n == t * SECTORS + s
  <1>1. /\ TRACKS \in Int /\ TRACKS > 0 /\ SECTORS \in Int /\ SECTORS > 0 /\ t \in Int /\ s \in Int
        /\ t <= TRACKS - 1 /\ t >= 0 /\ s >= 0 /\ s <= SECTORS - 1
    BY Layout
  <1>2. /\ t * SECTORS \in Int /\ TRACKS * SECTORS \in Int /\ t * SECTORS >= 0
        /\ t * SECTORS <= (TRACKS - 1) * SECTORS
        /\ (TRACKS - 1) * SECTORS = TRACKS * SECTORS - SECTORS
        /\ t * SECTORS = SECTORS * t
    BY <1>1
  <1>3. n \in 0 .. TRACKS * SECTORS - 1 /\ n \in Int /\ TRACKS * SECTORS > 0
    BY <1>1, <1>2
  <1>4. n % (TRACKS * SECTORS) = n
    <2> HIDE DEF n
    <2> QED
      BY <1>2, <1>3, NearMod
  <1>5. n % SECTORS = s /\ n \div SECTORS = t
    BY <1>1, <1>2, DivUnique
  <1>6. t % TRACKS = t
    BY <1>1, NearMod
  <1> HIDE DEF n
  <1>7. lgp30_address_from_track_sector(t, s) = n
    BY <1>4 DEF n, lgp30_address_from_track_sector, LGP30_MEMORY_WORDS
  <1> QED
    BY <1>3, <1>5, <1>6, <1>7 DEF n, Address, LGP30_MEMORY_WORDS, lgp30_track_of, lgp30_sector_of

\* A number below 100 and its two digits.
LEMMA TwoDigits ==
  ASSUME NEW n \in 0 .. 99
  PROVE  n \div 10 \in 0 .. 9 /\ n % 10 \in 0 .. 9 /\ n = 10 * (n \div 10) + (n % 10)
  OBVIOUS

LEMMA OfTwoDigits ==
  ASSUME NEW d \in 0 .. 9, NEW e \in 0 .. 9
  PROVE  (10 * d + e) \div 10 = d /\ (10 * d + e) % 10 = e
  OBVIOUS

\* How an address is printed, character by character.
LEMMA PrintedAddress ==
  ASSUME NEW a
  PROVE  LET t == lgp30_track_of(a)
             s == lgp30_sector_of(a)
         IN lgp30_format_address(a) =
              <<HEX_DIGITS[(t \div 10) + 1], HEX_DIGITS[(t % 10) + 1],
                HEX_DIGITS[(s \div 10) + 1], HEX_DIGITS[(s % 10) + 1]>>
  <1>1. ASSUME NEW c1, NEW c2, NEW c3, NEW c4
        PROVE  <<c1, c2>> \o <<c3, c4>> = <<c1, c2, c3, c4>>
    <2> DEFINE S == {c1, c2, c3, c4}
               x == <<c1, c2>>
               y == <<c3, c4>>
               z == <<c1, c2, c3, c4>>
    <2>1. x \in Seq(S) /\ y \in Seq(S) /\ z \in Seq(S)
      OBVIOUS
    <2>2. /\ Len(x) = 2 /\ x[1] = c1 /\ x[2] = c2
          /\ Len(y) = 2 /\ y[1] = c3 /\ y[2] = c4
          /\ Len(z) = 4 /\ z[1] = c1 /\ z[2] = c2 /\ z[3] = c3 /\ z[4] = c4
      OBVIOUS
    <2> HIDE DEF S, x, y, z
    <2>3. /\ x \o y \in Seq(S) /\ Len(x \o y) = Len(x) + Len(y)
          /\ \A i \in 1 .. Len(x) + Len(y) :
               (x \o y)[i] = IF i <= Len(x) THEN x[i] ELSE y[i - Len(x)]
      BY <2>1, ConcatProperties, Zenon
    <2>4. \A i \in 1 .. 4 : (x \o y)[i] = z[i]
      <3>1. \A i \in 1 .. 4 : i = 1 \/ i = 2 \/ i = 3 \/ i = 4
        OBVIOUS
      <3> QED
        BY <2>2, <2>3, <3>1
    <2>5. x \o y = z
      BY <2>1, <2>2, <2>3, <2>4, SeqEqual
    <2> QED
      BY <2>5 DEF x, y, z
  <1> QED
    BY <1>1, Zenon DEF lgp30_format_address

\* A field that is told to be an address is the one that is printed so.
LEMMA AddressesMeanTheirText ==
  ASSUME NEW field \in Seq(STRING)
  PROVE  /\ parse_location_token(field) = AddressNamed(field)
         /\ AddressNamed(field) \in Field(Address)
  <1> DEFINE track  == 10 * digit(field[1]) + digit(field[2])
             sector == 10 * digit(field[3]) + digit(field[4])
             Accepts == /\ Len(field) = 4
                        /\ \A i \in 1 .. 4 : field[i] \in DecimalDigit
                        /\ track < TRACKS /\ sector < SECTORS
  <1>1. parse_location_token(field) =
          IF Accepts THEN {lgp30_address_from_track_sector(track, sector)} ELSE {}
    BY Zenon DEF parse_location_token, lgp30_parse_address
  <1>2. ASSUME NEW a \in Address, field = lgp30_format_address(a)
        PROVE  Accepts /\ a = lgp30_address_from_track_sector(track, sector)
    <2> DEFINE t == lgp30_track_of(a)
               s == lgp30_sector_of(a)
    <2>1. /\ t \in 0 .. TRACKS - 1 /\ s \in 0 .. SECTORS - 1 /\ a = t * SECTORS + s
          /\ TRACKS \in Nat /\ SECTORS \in Nat
      BY TrackAndSector, Layout
    <2>2. field = <<HEX_DIGITS[(t \div 10) + 1], HEX_DIGITS[(t % 10) + 1],
                    HEX_DIGITS[(s \div 10) + 1], HEX_DIGITS[(s % 10) + 1]>>
      BY <1>2, PrintedAddress
    <2> HIDE DEF t, s
    <2>3. t \in 0 .. 99 /\ s \in 0 .. 99
      BY <2>1, NotationAssumption
    <2>4. /\ t \div 10 \in 0 .. 9 /\ t % 10 \in 0 .. 9 /\ t = 10 * (t \div 10) + (t % 10)
          /\ s \div 10 \in 0 .. 9 /\ s % 10 \in 0 .. 9 /\ s = 10 * (s \div 10) + (s % 10)
      BY <2>3, TwoDigits
    <2> DEFINE h1 == HEX_DIGITS[(t \div 10) + 1]
               h2 == HEX_DIGITS[(t % 10) + 1]
               h3 == HEX_DIGITS[(s \div 10) + 1]
               h4 == HEX_DIGITS[(s % 10) + 1]
    <2>5. /\ h1 \in DecimalDigit /\ digit(h1) = t \div 10
          /\ h2 \in DecimalDigit /\ digit(h2) = t % 10
          /\ h3 \in DecimalDigit /\ digit(h3) = s \div 10
          /\ h4 \in DecimalDigit /\ digit(h4) = s % 10
      BY <2>4, DigitOfHex
    <2> HIDE DEF h1, h2, h3, h4
    <2>6. field = <<h1, h2, h3, h4>>
      BY <2>2 DEF h1, h2, h3, h4
    <2>7. Len(field) = 4 /\ field[1] = h1 /\ field[2] = h2 /\ field[3] = h3 /\ field[4] = h4
      BY <2>6
    <2>8. track = t /\ sector = s
      BY <2>4, <2>5, <2>7
    <2>9. \A i \in 1 .. 4 : field[i] \in DecimalDigit
      <3>1. \A i \in 1 .. 4 : i = 1 \/ i = 2 \/ i = 3 \/ i = 4
        OBVIOUS
      <3> QED
        BY <2>5, <2>7, <3>1
    <2>10. a = lgp30_address_from_track_sector(t, s)
      BY <2>1, FromTrackAndSector
    <2> QED
      BY <2>1, <2>7, <2>8, <2>9, <2>10
  <1>3. ASSUME Accepts
        PROVE  /\ lgp30_address_from_track_sector(track, sector) \in Address
               /\ field = lgp30_format_address(lgp30_address_from_track_sector(track, sector))
    <2>1. /\ field[1] \in DecimalDigit /\ field[2] \in DecimalDigit
          /\ field[3] \in DecimalDigit /\ field[4] \in DecimalDigit
      BY <1>3
    <2> DEFINE d1 == digit(field[1])
               d2 == digit(field[2])
               d3 == digit(field[3])
               d4 == digit(field[4])
               a == lgp30_address_from_track_sector(track, sector)
    <2>2. /\ d1 \in 0 .. 9 /\ HEX_DIGITS[d1 + 1] = field[1]
          /\ d2 \in 0 .. 9 /\ HEX_DIGITS[d2 + 1] = field[2]
          /\ d3 \in 0 .. 9 /\ HEX_DIGITS[d3 + 1] = field[3]
          /\ d4 \in 0 .. 9 /\ HEX_DIGITS[d4 + 1] = field[4]
      BY <2>1, HexOfDigit
    <2>3. track = 10 * d1 + d2 /\ sector = 10 * d3 + d4 /\ track < TRACKS /\ sector < SECTORS
      BY <1>3
    <2> HIDE DEF d1, d2, d3, d4, track, sector
    <2>4. /\ track \div 10 = d1 /\ track % 10 = d2 /\ sector \div 10 = d3 /\ sector % 10 = d4
      BY <2>2, <2>3, OfTwoDigits
    <2>5. track \in 0 .. TRACKS - 1 /\ sector \in 0 .. SECTORS - 1
      BY <2>2, <2>3, Layout
    <2>6. a \in Address /\ lgp30_track_of(a) = track /\ lgp30_sector_of(a) = sector
      BY <2>5, FromTrackAndSector
    <2> HIDE DEF a
    <2>7. lgp30_format_address(a) = <<field[1], field[2], field[3], field[4]>>
      BY <2>2, <2>4, <2>6, PrintedAddress
    <2>8. field = <<field[1], field[2], field[3], field[4]>>
      BY <1>3
    <2> QED
      BY <2>6, <2>7, <2>8 DEF a
  <1>4. \A a : a \in AddressNamed(field) <=> a \in Address /\ field = lgp30_format_address(a)
    BY DEF AddressNamed, Spellings
  <1> HIDE DEF Accepts, track, sector
  <1>5. AddressNamed(field) =
          IF Accepts THEN {lgp30_address_from_track_sector(track, sector)} ELSE {}
    BY <1>2, <1>3, <1>4
  <1> QED
    BY <1>1, <1>3, <1>5 DEF Field

-----------------------------------------------------------------------------
(* Numbers: the value that the digits come to, and the digits of a value.  *)

\* Induction over the first numbers, for the set of those that have a property.
LEMMA UpTo ==
  ASSUME NEW n \in Nat, NEW P, 0 \in P, \A i \in 1 .. n : i - 1 \in P => i \in P
  PROVE  0 .. n \subseteq P
  <1> DEFINE without == {i \in Nat : i \in 0 .. n /\ i \notin P}
  <1>1. SUFFICES ASSUME without # {} PROVE FALSE
    BY <1>1
  <1>2. PICK least \in without : \A i \in without : least <= i
    BY <1>1, LeastNumber
  <1>3. least \in 1 .. n /\ least - 1 \in Nat /\ least - 1 \in 0 .. n /\ least - 1 \notin without
    BY <1>2
  <1>4. least - 1 \in P /\ least \notin P
    BY <1>2, <1>3
  <1> QED
    BY <1>3, <1>4

\* Sums built up digit by digit.
BuiltUp(sum, n, first, add) ==
  /\ sum \in [0 .. n -> Nat]
  /\ sum[0] = first
  /\ \A k \in 1 .. n : sum[k] = 10 * sum[k - 1] + add[k]

LEMMA BuiltUpExists ==
  ASSUME NEW n \in Nat, NEW first \in Nat, NEW add \in [1 .. n -> Nat]
  PROVE  \E sum : BuiltUp(sum, n, first, add)
  <1> DEFINE P == {i \in 0 .. n : \E sum : BuiltUp(sum, i, first, add)}
  <1>1. 0 \in P
    <2> DEFINE sum == [i \in 0 .. 0 |-> first]
    <2>1. BuiltUp(sum, 0, first, add)
      BY DEF BuiltUp
    <2> QED
      BY <2>1
  <1>2. ASSUME NEW i \in 1 .. n, i - 1 \in P PROVE i \in P
    <2>1. i \in Nat /\ i - 1 \in Nat /\ i \in 0 .. n
      BY <1>2
    <2>2. PICK sum : BuiltUp(sum, i - 1, first, add)
      BY <1>2
    <2> DEFINE longer == [k \in 0 .. i |-> IF k = i THEN 10 * sum[i - 1] + add[i] ELSE sum[k]]
    <2>3. sum \in [0 .. i - 1 -> Nat] /\ sum[0] = first /\ sum[i - 1] \in Nat /\ add[i] \in Nat
      BY <2>1, <2>2 DEF BuiltUp
    <2>4. \A k \in 1 .. i - 1 : sum[k] = 10 * sum[k - 1] + add[k]
      BY <2>2 DEF BuiltUp
    <2>5. /\ longer \in [0 .. i -> Nat]
          /\ longer[i] = 10 * sum[i - 1] + add[i]
          /\ \A k \in 0 .. i - 1 : longer[k] = sum[k]
      BY <2>1, <2>3
    <2> HIDE DEF longer
    <2>6. longer[0] = first
      BY <2>1, <2>3, <2>5
    <2>7. ASSUME NEW k \in 1 .. i PROVE longer[k] = 10 * longer[k - 1] + add[k]
      <3>1. k - 1 \in 0 .. i - 1 /\ longer[k - 1] = sum[k - 1]
        BY <2>1, <2>5
      <3>2. CASE k = i
        BY <2>5, <3>1, <3>2, Zenon
      <3>3. CASE k # i
        <4>1. k \in 1 .. i - 1 /\ longer[k] = sum[k]
          BY <2>1, <2>5, <3>3
        <4> QED
          BY <2>4, <3>1, <4>1, Zenon
      <3> QED
        BY <3>2, <3>3
    <2> QED
      BY <2>1, <2>5, <2>6, <2>7 DEF BuiltUp
  <1> HIDE DEF P
  <1>3. 0 .. n \subseteq P
    BY <1>1, <1>2, UpTo, Zenon
  <1>4. n \in P
    BY <1>3
  <1> QED
    BY <1>4 DEF P

\* Tens(n) is 1, 10, 100, ...
IsTens(tens, n) == tens = [k \in 0 .. n |-> IF k = 0 THEN 1 ELSE 10 * tens[k - 1]]

LEMMA TensGrow ==
  ASSUME NEW n \in Nat
  PROVE  /\ Tens(n) \in [0 .. n -> Nat \ {0}]
         /\ Tens(n)[0] = 1
         /\ \A k \in 1 .. n : Tens(n)[k] = 10 * Tens(n)[k - 1]
  <1> DEFINE none == [k \in 1 .. n |-> 0]
             t == Tens(n)
  <1>1. PICK sum : BuiltUp(sum, n, 1, none)
    BY BuiltUpExists
  <1>2. sum \in [0 .. n -> Nat] /\ sum[0] = 1 /\ \A k \in 1 .. n : sum[k] = 10 * sum[k - 1]
    BY <1>1 DEF BuiltUp
  <1>3. \A k \in 0 .. n : sum[k] = IF k = 0 THEN 1 ELSE 10 * sum[k - 1]
    BY <1>2
  <1>4. IsTens(sum, n)
    BY <1>2, <1>3 DEF IsTens
  <1>5. IsTens(t, n)
    <2>1. t = CHOOSE tens : IsTens(tens, n)
      BY Zenon DEF Tens, IsTens
    <2> QED
      BY <1>4, <2>1, Zenon
  <1> HIDE DEF t
  <1>6. t[0] = 1 /\ \A k \in 1 .. n : t[k] = 10 * t[k - 1]
    <2>1. DOMAIN t = 0 .. n /\ \A k \in 0 .. n : t[k] = IF k = 0 THEN 1 ELSE 10 * t[k - 1]
      BY <1>5 DEF IsTens
    <2>2. 0 \in 0 .. n /\ \A k \in 1 .. n : k \in 0 .. n /\ k # 0
      OBVIOUS
    <2> QED
      BY <2>1, <2>2, Zenon
  <1> DEFINE P == {k \in 0 .. n : t[k] \in Nat \ {0}}
  <1>7. 0 \in P /\ \A i \in 1 .. n : i - 1 \in P => i \in P
    <2>1. ASSUME NEW i \in 1 .. n, i - 1 \in P PROVE i \in P
      <3>1. t[i] = 10 * t[i - 1] /\ t[i - 1] \in Nat \ {0} /\ i \in 0 .. n
        BY <1>6, <2>1
      <3> QED
        BY <3>1
    <2> QED
      BY <1>6, <2>1
  <1>8. \A k \in 0 .. n : t[k] \in Nat \ {0}
    <2> HIDE DEF P
    <2>1. 0 .. n \subseteq P
      BY <1>7, UpTo
    <2> QED
      BY <2>1 DEF P
  <1>9. t = [k \in 0 .. n |-> t[k]]
    BY <1>5 DEF IsTens
  <1> QED
    BY <1>6, <1>8, <1>9 DEF t

\* ValuesOf(digits) is what each digit makes of the value before it.
IsValues(value, digits) ==
  value = [i \in 0 .. Len(digits) |-> IF i = 0 THEN 0 ELSE 10 * value[i - 1] + digit(digits[i])]

LEMMA ValuesGrow ==
  ASSUME NEW digits \in Seq(DecimalDigit)
  PROVE  BuiltUp(ValuesOf(digits), Len(digits), 0, [i \in 1 .. Len(digits) |-> digit(digits[i])])
  <1> DEFINE n == Len(digits)
             add == [i \in 1 .. n |-> digit(digits[i])]
             v == ValuesOf(digits)
  <1>1. n \in Nat /\ \A i \in 1 .. n : digits[i] \in DecimalDigit
    BY LenProperties, ElementOfSeq
  <1>2. add \in [1 .. n -> Nat] /\ \A i \in 1 .. n : add[i] = digit(digits[i])
    BY <1>1, HexOfDigit
  <1> HIDE DEF add
  <1>3. PICK sum : BuiltUp(sum, n, 0, add)
    BY <1>1, <1>2, BuiltUpExists
  <1>4. \A i \in 0 .. n : sum[i] = IF i = 0 THEN 0 ELSE 10 * sum[i - 1] + digit(digits[i])
    BY <1>1, <1>2, <1>3 DEF BuiltUp
  <1>5. IsValues(sum, digits)
    BY <1>3, <1>4 DEF BuiltUp, IsValues
  <1>6. IsValues(v, digits)
    <2>1. v = CHOOSE value : IsValues(value, digits)
      BY Zenon DEF ValuesOf, IsValues
    <2> QED
      BY <1>5, <2>1, Zenon
  <1> HIDE DEF v
  <1>7. v[0] = 0 /\ \A i \in 1 .. n : v[i] = 10 * v[i - 1] + add[i]
    <2>1. /\ DOMAIN v = 0 .. n
          /\ \A i \in 0 .. n : v[i] = IF i = 0 THEN 0 ELSE 10 * v[i - 1] + digit(digits[i])
      BY <1>6 DEF IsValues
    <2>2. 0 \in 0 .. n /\ \A i \in 1 .. n : i \in 0 .. n /\ i # 0
      BY <1>1
    <2> QED
      BY <1>2, <2>1, <2>2, Zenon
  <1> DEFINE P == {i \in 0 .. n : v[i] \in Nat}
  <1>8. 0 \in P /\ \A i \in 1 .. n : i - 1 \in P => i \in P
    <2>1. ASSUME NEW i \in 1 .. n, i - 1 \in P PROVE i \in P
      <3>1. /\ v[i] = 10 * v[i - 1] + add[i] /\ v[i - 1] \in Nat /\ add[i] \in Nat
            /\ i \in 0 .. n
        BY <1>1, <1>2, <1>7, <2>1
      <3> QED
        BY <3>1
    <2> QED
      BY <1>1, <1>7, <2>1
  <1>9. \A i \in 0 .. n : v[i] \in Nat
    <2> HIDE DEF P
    <2>1. 0 .. n \subseteq P
      BY <1>1, <1>8, UpTo
    <2> QED
      BY <2>1 DEF P
  <1>10. v = [i \in 0 .. n |-> v[i]]
    BY <1>6 DEF IsValues
  <1> QED
    BY <1>7, <1>9, <1>10 DEF BuiltUp, v, add

\* A digit and what is below it, as one remainder.
LEMMA ShiftDigit ==
  ASSUME NEW w \in Nat, NEW d \in 0 .. 9, NEW T \in Nat \ {0}, NEW r \in 0 .. T - 1,
         NEW x, x = (10 * w + d) * T + r, NEW U, U = 10 * T
  PROVE  U \in Nat \ {0} /\ \E s \in 0 .. U - 1 : x = w * U + s
  <1>1. /\ w * T \in Nat /\ d * T \in Nat /\ (10 * w + d) * T = 10 * (w * T) + d * T
        /\ w * U = 10 * (w * T)
    OBVIOUS
  <1>2. d * T <= 9 * T
    OBVIOUS
  <1>3. d * T + r \in 0 .. U - 1 /\ x = w * U + (d * T + r) /\ U \in Nat \ {0}
    BY <1>1, <1>2
  <1> QED
    BY <1>3

LEMMA Quotient ==
  ASSUME NEW q \in Nat, NEW T \in Nat \ {0}, NEW r \in 0 .. T - 1, NEW x, x = q * T + r
  PROVE  x \div T = q
  <1>1. q * T = T * q /\ T \in Int /\ T > 0
    OBVIOUS
  <1> QED
    BY <1>1, DivUnique

LEMMA LastDigit ==
  ASSUME NEW w \in Nat, NEW d \in 0 .. 9, NEW x, x = 10 * w + d
  PROVE  x % 10 = d /\ x \div 10 = w
  OBVIOUS

\* The digits of a value are those that it was read from, and what the digits come
\* to never falls.
LEMMA ValueHasItsDigits ==
  ASSUME NEW digits \in Seq(DecimalDigit), digits # <<>>
  PROVE  LET n == Len(digits)
             v == ValuesOf(digits)
         IN /\ v[n] \in Nat
            /\ IsDecimal(digits, v[n])
            /\ \A i \in 1 .. n : v[i] <= v[n]
  <1> DEFINE n == Len(digits)
             v == ValuesOf(digits)
             t == Tens(n)
             d == [i \in 1 .. n |-> digit(digits[i])]
  <1>1. /\ n \in Nat /\ n > 0 /\ DOMAIN digits = 1 .. n
        /\ \A i \in 1 .. n : digits[i] \in DecimalDigit
    BY LenProperties, ElementOfSeq, EmptySeq
  <1>2. \A i \in 1 .. n : d[i] \in 0 .. 9 /\ HEX_DIGITS[d[i] + 1] = digits[i]
    BY <1>1, HexOfDigit
  <1>3. BuiltUp(v, n, 0, d)
    BY ValuesGrow
  <1>4. t \in [0 .. n -> Nat \ {0}] /\ t[0] = 1 /\ \A k \in 1 .. n : t[k] = 10 * t[k - 1]
    BY <1>1, TensGrow
  <1> HIDE DEF n, v, t, d
  <1>5. v \in [0 .. n -> Nat] /\ v[0] = 0 /\ \A i \in 1 .. n : v[i] = 10 * v[i - 1] + d[i]
    BY <1>3 DEF BuiltUp
  <1> DEFINE P == {j \in 0 .. n : \E r \in 0 .. t[j] - 1 : v[n] = v[n - j] * t[j] + r}
  <1>6. 0 \in P
    <2>1. v[n - 0] = v[n] /\ v[n] \in Nat
      BY <1>1, <1>5
    <2>2. 0 \in 0 .. t[0] - 1 /\ v[n] = v[n - 0] * t[0] + 0
      BY <1>4, <2>1
    <2> QED
      BY <1>1, <2>2
  <1>7. ASSUME NEW j \in 1 .. n, j - 1 \in P PROVE j \in P
    <2>1. PICK r \in 0 .. t[j - 1] - 1 : v[n] = v[n - (j - 1)] * t[j - 1] + r
      BY <1>7
    <2> DEFINE i == n - (j - 1)
    <2>2. i \in 1 .. n /\ i - 1 = n - j /\ j \in 0 .. n /\ j - 1 \in 0 .. n /\ i - 1 \in 0 .. n
      BY <1>1
    <2> HIDE DEF i
    <2>3. /\ v[i] = 10 * v[i - 1] + d[i] /\ v[i - 1] \in Nat /\ d[i] \in 0 .. 9
          /\ t[j] = 10 * t[j - 1] /\ t[j - 1] \in Nat \ {0}
      BY <1>2, <1>4, <1>5, <2>2
    <2>4. v[n] = (10 * v[i - 1] + d[i]) * t[j - 1] + r
      BY <2>1, <2>3, Zenon DEF i
    <2> DEFINE T == t[j - 1]
               U == t[j]
               x == v[n]
               w == v[i - 1]
               e == d[i]
    <2>5. /\ x = (10 * w + e) * T + r /\ U = 10 * T /\ T \in Nat \ {0} /\ r \in 0 .. T - 1
          /\ w \in Nat /\ e \in 0 .. 9
      BY <2>1, <2>3, <2>4, Zenon
    <2> HIDE DEF T, U, x, w, e
    <2>6. PICK s \in 0 .. U - 1 : x = w * U + s
      BY <2>5, ShiftDigit
    <2> QED
      BY <2>2, <2>6, Zenon DEF U, x, w
  <1>8. 0 .. n \subseteq P
    <2> HIDE DEF P
    <2> QED
      BY <1>1, <1>6, <1>7, UpTo, Zenon
  <1>9. ASSUME NEW i \in 0 .. n
        PROVE  \E r \in 0 .. t[n - i] - 1 : v[n] = v[i] * t[n - i] + r
    <2>1. n - i \in 0 .. n /\ n - (n - i) = i
      BY <1>1
    <2>2. n - i \in P
      BY <1>8, <2>1
    <2> QED
      BY <2>1, <2>2
  <1> HIDE DEF P
  <1>10. v[n] \in Nat
    BY <1>1, <1>5
  <1>11. v[n] < t[n]
    <2>1. 0 \in 0 .. n /\ n - 0 = n
      BY <1>1
    <2>2. PICK r \in 0 .. t[n] - 1 : v[n] = v[0] * t[n] + r
      BY <1>9, <2>1
    <2>3. t[n] \in Nat
      BY <1>1, <1>4
    <2> QED
      BY <1>5, <2>2, <2>3
  <1>12. ASSUME NEW i \in 1 .. n
         PROVE  /\ v[i] <= v[n]
                /\ digits[i] = HEX_DIGITS[((v[n] \div t[n - i]) % 10) + 1]
    <2>1. i \in 0 .. n /\ i - 1 \in 0 .. n /\ n - i \in 0 .. n
      BY <1>1
    <2>2. PICK r \in 0 .. t[n - i] - 1 : v[n] = v[i] * t[n - i] + r
      BY <1>9, <2>1
    <2> DEFINE T == t[n - i]
               x == v[i]
    <2>3. /\ T \in Nat \ {0} /\ x \in Nat /\ v[i - 1] \in Nat /\ d[i] \in 0 .. 9
          /\ x = 10 * v[i - 1] + d[i]
      BY <1>2, <1>4, <1>5, <2>1
    <2> HIDE DEF T, x
    <2>4. v[n] = x * T + r /\ r \in 0 .. T - 1
      BY <2>2 DEF T, x
    <2>5. v[n] \div T = x
      BY <2>3, <2>4, Quotient, Zenon
    <2>6. x % 10 = d[i]
      BY <2>3, LastDigit, Zenon
    <2>7. x * T >= x /\ x * T \in Nat
      BY <2>3
    <2>8. x <= v[n]
      BY <2>3, <2>4, <2>7
    <2>9. digits[i] = HEX_DIGITS[((v[n] \div T) % 10) + 1]
      BY <1>2, <2>5, <2>6, Zenon
    <2> QED
      BY <2>8, <2>9 DEF T, x
  <1>13. IsDecimal(digits, v[n])
    <2>1. 0 <= v[n]
      BY <1>10
    <2> QED
      BY <1>1, <1>11, <1>12, <2>1 DEF IsDecimal, n, t
  <1> QED
    BY <1>10, <1>12, <1>13 DEF n, v

\* The digits of a number come to it.
LEMMA DigitsComeToTheirNumber ==
  ASSUME NEW digits \in Seq(STRING), NEW number \in Int, IsDecimal(digits, number)
  PROVE  /\ digits \in Seq(DecimalDigit) /\ digits # <<>> /\ number \in Nat
         /\ ValuesOf(digits)[Len(digits)] = number
  <1> DEFINE n == Len(digits)
             v == ValuesOf(digits)
             t == Tens(n)
             q == [i \in 0 .. n |-> number \div t[n - i]]
             d == [i \in 1 .. n |-> digit(digits[i])]
  <1>1. n \in Nat /\ DOMAIN digits = 1 .. n /\ digits \in [1 .. n -> STRING]
    BY LenProperties
  <1>2. digits # <<>> /\ n > 0
    BY EmptySeq DEF IsDecimal
  <1>3. t \in [0 .. n -> Nat \ {0}] /\ t[0] = 1 /\ \A k \in 1 .. n : t[k] = 10 * t[k - 1]
    BY <1>1, TensGrow
  <1>4. /\ 0 <= number /\ number < t[n]
        /\ \A i \in 1 .. n : digits[i] = HEX_DIGITS[((number \div t[n - i]) % 10) + 1]
    BY <1>1 DEF IsDecimal
  <1>5. number \in Nat
    BY <1>4
  <1> HIDE DEF n, t
  <1>6. ASSUME NEW i \in 0 .. n
        PROVE  t[n - i] \in Nat \ {0} /\ q[i] = number \div t[n - i] /\ q[i] \in Nat
    <2>1. n - i \in 0 .. n
      BY <1>1
    <2>2. t[n - i] \in Nat \ {0} /\ t[n - i] \in Int /\ t[n - i] > 0
      BY <1>3, <2>1
    <2>3. q[i] = number \div t[n - i]
      OBVIOUS
    <2> QED
      BY <1>5, <2>2, <2>3, DivNat, Zenon
  <1> HIDE DEF q
  <1>7. ASSUME NEW i \in 1 .. n
        PROVE  /\ digits[i] \in DecimalDigit
               /\ d[i] = q[i] % 10
    <2>1. i \in 0 .. n
      BY <1>1
    <2>2. q[i] % 10 \in 0 .. 9 /\ digits[i] = HEX_DIGITS[(q[i] % 10) + 1]
      BY <1>4, <1>6, <2>1
    <2> QED
      BY <2>2, DigitOfHex
  <1>8. digits \in Seq(DecimalDigit)
    <2>1. digits \in [1 .. n -> DecimalDigit]
      BY <1>1, <1>7
    <2> QED
      BY <1>1, <2>1
  <1>9. BuiltUp(v, n, 0, d)
    BY <1>8, ValuesGrow DEF n
  <1> HIDE DEF v, d
  <1>10. v \in [0 .. n -> Nat] /\ v[0] = 0 /\ \A i \in 1 .. n : v[i] = 10 * v[i - 1] + d[i]
    BY <1>9 DEF BuiltUp
  <1>11. q[0] = 0
    <2>1. n - 0 = n /\ 0 \in 0 .. n /\ t[n] \in Nat \ {0}
      BY <1>1, <1>3
    <2>2. number = t[n] * 0 + number /\ number \in 0 .. t[n] - 1
      BY <1>4, <1>5, <2>1
    <2>3. number \div t[n] = 0
      BY <2>1, <2>2, DivUnique
    <2> QED
      BY <1>6, <2>1, <2>3
  <1>12. ASSUME NEW i \in 1 .. n PROVE q[i] = 10 * q[i - 1] + (q[i] % 10)
    <2>1. /\ i \in 0 .. n /\ i - 1 \in 0 .. n /\ n - (i - 1) \in 1 .. n
          /\ (n - (i - 1)) - 1 = n - i
      BY <1>1
    <2> DEFINE T == t[n - i]
               x == q[i]
               y == x \div 10
               e == x % 10
               r == number % T
    <2>2. T \in Nat \ {0} /\ x = number \div T /\ x \in Nat
      BY <1>6, <2>1
    <2>3. t[n - (i - 1)] = 10 * T
      BY <1>3, <2>1
    <2>4. q[i - 1] = number \div (10 * T)
      BY <1>6, <2>1, <2>3
    <2> HIDE DEF T, x
    <2>5. y \in Nat /\ e \in 0 .. 9 /\ x = 10 * y + e
      BY <2>2
    <2>6. r \in 0 .. T - 1 /\ number = T * x + r
      BY <1>5, <2>2, DivMod
    <2> HIDE DEF y, e, r
    <2>7. number = (10 * y + e) * T + r
      <3>1. T * x = x * T
        BY <2>2
      <3> QED
        BY <2>5, <2>6, <3>1
    <2> DEFINE U == 10 * T
    <2> HIDE DEF U
    <2>8. U \in Nat \ {0} /\ \E s \in 0 .. U - 1 : number = y * U + s
      BY <2>2, <2>5, <2>6, <2>7, ShiftDigit DEF U
    <2>9. number \div U = y
      BY <2>5, <2>8, Quotient
    <2> QED
      BY <2>4, <2>5, <2>9 DEF x, e, U
  <1> DEFINE P == {i \in 0 .. n : v[i] = q[i]}
  <1>13. 0 \in P
    BY <1>1, <1>10, <1>11
  <1>14. ASSUME NEW i \in 1 .. n, i - 1 \in P PROVE i \in P
    <2>1. v[i] = 10 * v[i - 1] + d[i] /\ v[i - 1] = q[i - 1] /\ d[i] = q[i] % 10 /\ i \in 0 .. n
      BY <1>1, <1>7, <1>10, <1>14
    <2> QED
      BY <1>12, <2>1, Zenon
  <1>15. v[n] = q[n]
    <2> HIDE DEF P
    <2>1. 0 .. n \subseteq P
      BY <1>1, <1>13, <1>14, UpTo, Zenon
    <2> QED
      BY <1>1, <2>1 DEF P
  <1>16. q[n] = number
    <2>1. n \in 0 .. n /\ n - n = 0
      BY <1>1
    <2>2. q[n] = number \div 1
      BY <1>3, <1>6, <2>1
    <2> QED
      BY <1>5, <2>2
  <1> QED
    BY <1>2, <1>5, <1>8, <1>15, <1>16 DEF v, n

LEMMA DecimalIsValue ==
  ASSUME NEW digits \in Seq(STRING), NEW number \in Int
  PROVE  IsDecimal(digits, number) <=>
           /\ digits # <<>> /\ digits \in Seq(DecimalDigit)
           /\ number = ValuesOf(digits)[Len(digits)]
  BY ValueHasItsDigits, DigitsComeToTheirNumber

\* Some of the numbers are one number or none.
LEMMA OneOrNone ==
  ASSUME NEW S, NEW T, NEW e, NEW c \in BOOLEAN,
         S \subseteq T, \A n \in T : n \in S <=> c /\ n = e, c => e \in T
  PROVE  S = (IF c THEN {e} ELSE {}) /\ S \in Field(T)
  BY DEF Field

\* A number is what its sign and its digits say.
LEMMA NumbersMeanTheirText ==
  ASSUME NEW field \in Seq(STRING), field # <<>>
  PROVE  /\ parse_signed_integer(field) = NumberNamed(field)
         /\ NumberNamed(field) \in Field(Integer)
  <1> DEFINE digits == DigitsOf(field)
             n == Len(digits)
             v == ValuesOf(digits)
             negative == field[1] = "-"
             reads == digits # <<>> /\ digits \in Seq(DecimalDigit)
             number == IF negative THEN -v[n] ELSE v[n]
             accepts == reads /\ v[n] <= GUARD
  <1>1. Tail(field) \in Seq(STRING) /\ field[1] \in STRING
    BY HeadTailProperties, ElementOfSeq, LenProperties, EmptySeq
  <1>2. digits \in Seq(STRING)
    BY <1>1 DEF DigitsOf
  <1>3. GUARD \in Nat /\ Integer = -GUARD .. GUARD
    BY Layout DEF GUARD, Integer
  <1>4. ASSUME NEW m \in Int, IsDecimal(field, m) PROVE field[1] # "-" /\ field[1] # "+"
    <2>1. field \in Seq(DecimalDigit)
      BY <1>4, DecimalIsValue
    <2>2. field[1] \in DecimalDigit
      BY <2>1, ElementOfSeq, LenProperties, EmptySeq
    <2> QED
      BY <2>2, SignsAreNoDigits
  <1>5. ASSUME NEW m \in Integer
        PROVE  m \in NumberNamed(field) <=> IsDecimal(digits, IF negative THEN -m ELSE m)
    <2>1. m \in Int
      BY <1>3
    <2>2. m \in NumberNamed(field) <=>
            \/ field[1] = "-" /\ IsDecimal(Tail(field), -m)
            \/ field[1] = "+" /\ IsDecimal(Tail(field), m)
            \/ IsDecimal(field, m)
      BY DEF NumberNamed
    <2>3. CASE field[1] = "-"
      <3>1. digits = Tail(field) /\ field[1] # "+" /\ ~IsDecimal(field, m)
        BY <1>4, <2>1, <2>3 DEF DigitsOf
      <3> QED
        BY <2>2, <2>3, <3>1, Zenon
    <2>4. CASE field[1] = "+"
      <3>1. digits = Tail(field) /\ field[1] # "-" /\ ~IsDecimal(field, m)
        BY <1>4, <2>1, <2>4 DEF DigitsOf
      <3> QED
        BY <2>2, <2>4, <3>1, Zenon
    <2>5. CASE field[1] \notin {"-", "+"}
      <3>1. digits = field /\ field[1] # "-" /\ field[1] # "+"
        BY <2>5 DEF DigitsOf
      <3> QED
        BY <2>2, <3>1, Zenon
    <2> QED
      BY <2>3, <2>4, <2>5
  <1> HIDE DEF digits
  <1>6. reads => /\ v[n] \in Nat
                 /\ \A i \in 1 .. n : v[i] <= v[n]
                 /\ n \in 1 .. n /\ DOMAIN digits = 1 .. n
                 /\ \A i \in 1 .. n : digits[i] \in DecimalDigit /\ v[i] \in Nat
    <2> SUFFICES ASSUME reads
                 PROVE  /\ v[n] \in Nat
                        /\ \A i \in 1 .. n : v[i] <= v[n]
                        /\ n \in 1 .. n /\ DOMAIN digits = 1 .. n
                        /\ \A i \in 1 .. n : digits[i] \in DecimalDigit /\ v[i] \in Nat
      OBVIOUS
    <2>1. v[n] \in Nat /\ \A i \in 1 .. n : v[i] <= v[n]
      BY ValueHasItsDigits
    <2>2. n \in 1 .. n /\ DOMAIN digits = 1 .. n /\ \A i \in 1 .. n : digits[i] \in DecimalDigit
      BY LenProperties, ElementOfSeq, EmptySeq
    <2>3. v \in [0 .. n -> Nat]
      BY ValuesGrow DEF BuiltUp
    <2> QED
      BY <2>1, <2>2, <2>3
  <1>7. ASSUME NEW m \in Integer
        PROVE  m \in NumberNamed(field) <=> accepts /\ m = number
    <2>1. m \in Int /\ -m \in Int
      BY <1>3
    <2>2. m \in NumberNamed(field) <=> reads /\ (IF negative THEN -m ELSE m) = v[n]
      BY <1>2, <1>5, <2>1, DecimalIsValue
    <2>3. ASSUME reads
          PROVE  (IF negative THEN -m ELSE m) = v[n] <=> v[n] <= GUARD /\ m = number
      <3>1. v[n] \in Nat
        BY <1>6, <2>3
      <3> HIDE DEF v, n
      <3> QED
        BY <1>3, <2>1, <3>1
    <2> QED
      BY <2>2, <2>3
  <1>8. accepts => number \in Integer
    <2>1. accepts => v[n] \in Nat /\ v[n] <= GUARD
      BY <1>6
    <2> HIDE DEF v, n
    <2> QED
      BY <1>3, <2>1
  <1>9. NumberNamed(field) \subseteq Integer
    BY DEF NumberNamed
  <1>10. parse_signed_integer(field) = IF accepts THEN {number} ELSE {}
    <2>1. /\ digits # <<>>
          /\ \A i \in DOMAIN digits : digits[i] \in DecimalDigit /\ v[i] <= GUARD
          <=> accepts
      <3>1. ASSUME accepts
            PROVE  \A i \in DOMAIN digits : digits[i] \in DecimalDigit /\ v[i] <= GUARD
        <4>1. SUFFICES ASSUME NEW i \in 1 .. n PROVE v[i] <= GUARD
          BY <1>6, <3>1
        <4>2. v[i] \in Nat /\ v[n] \in Nat /\ v[i] <= v[n] /\ v[n] <= GUARD
          BY <1>6, <3>1
        <4> QED
          BY <1>3, <4>2
      <3>2. ASSUME digits # <<>>,
                   \A i \in DOMAIN digits : digits[i] \in DecimalDigit /\ v[i] <= GUARD
            PROVE  accepts
        <4>1. n \in Nat /\ DOMAIN digits = 1 .. n /\ digits \in [1 .. n -> STRING] /\ n # 0
          BY <1>2, <3>2, LenProperties, EmptySeq
        <4>2. digits \in [1 .. n -> DecimalDigit]
          BY <3>2, <4>1
        <4>3. digits \in Seq(DecimalDigit)
          BY <4>1, <4>2
        <4> QED
          BY <3>2, <4>1, <4>3
      <3> QED
        BY <3>1, <3>2
    <2> HIDE DEF accepts
    <2> QED
      BY <2>1, Zenon DEF parse_signed_integer, digits
  <1> HIDE DEF accepts, number
  <1>11. accepts \in BOOLEAN
    BY DEF accepts
  <1> QED
    BY <1>7, <1>8, <1>9, <1>10, <1>11, OneOrNone

-----------------------------------------------------------------------------
(* Scanning: the first of some positions.                                  *)

IsFirst(q, n, from, positions) ==
  /\ q \in from .. n + 1
  /\ q = n + 1 \/ q \in positions
  /\ \A r \in from .. q - 1 : r \notin positions

LEMMA FirstExists ==
  ASSUME NEW n \in Nat, NEW from \in 1 .. n + 1, NEW positions
  PROVE  \E q \in from .. n + 1 : IsFirst(q, n, from, positions)
  <1> DEFINE S == {q \in Nat : q \in from .. n + 1 /\ (q = n + 1 \/ q \in positions)}
  <1>1. n + 1 \in S
    OBVIOUS
  <1>2. PICK q \in S : \A r \in S : q <= r
    BY <1>1, LeastNumber
  <1>3. ASSUME NEW r \in from .. q - 1 PROVE r \notin positions
    <2>1. SUFFICES ASSUME r \in positions PROVE FALSE
      OBVIOUS
    <2>2. r \in S
      BY <1>2, <1>3, <2>1
    <2> QED
      BY <1>2, <1>3, <2>2
  <1> QED
    BY <1>2, <1>3 DEF IsFirst

LEMMA FirstOfIsFirst ==
  ASSUME NEW chars \in Seq(STRING), NEW from \in 1 .. Len(chars) + 1, NEW positions
  PROVE  IsFirst(FirstOf(chars, from, positions), Len(chars), from, positions)
  <1> DEFINE n == Len(chars)
  <1>1. n \in Nat
    BY LenProperties
  <1>2. FirstOf(chars, from, positions) =
          CHOOSE q \in from .. n + 1 : IsFirst(q, n, from, positions)
    <2>1. \A q \in from .. n + 1 :
            IsFirst(q, n, from, positions) <=>
              /\ q = n + 1 \/ q \in positions
              /\ \A r \in from .. q - 1 : r \notin positions
      BY DEF IsFirst
    <2> QED
      BY <2>1, Zenon DEF FirstOf
  <1> HIDE DEF n
  <1>3. \E q \in from .. n + 1 : IsFirst(q, n, from, positions)
    BY <1>1, FirstExists DEF n
  <1>4. IsFirst(FirstOf(chars, from, positions), n, from, positions)
    BY <1>2, <1>3, Zenon
  <1> QED
    BY <1>4 DEF n

\* A line without its comment holds what a reader takes for text, at the same
\* positions.
LEMMA CodeHoldsTheText ==
  ASSUME NEW chars \in Seq(STRING)
  PROVE  LET code == Code(chars)
         IN /\ code \in Seq(STRING)
            /\ Len(code) <= Len(chars)
            /\ \A i \in 1 .. Len(code) : code[i] = chars[i]
            /\ TextIn(chars) = (1 .. Len(code)) \ BlanksIn(code)
  <1> DEFINE n == Len(chars)
             positions == Positions(chars, {COMMENT})
             q == FirstOf(chars, 1, positions)
             code == Code(chars)
  <1>1. n \in Nat /\ DOMAIN chars = 1 .. n /\ chars \in [1 .. n -> STRING]
    BY LenProperties
  <1>2. IsFirst(q, n, 1, positions)
    <2>1. 1 \in 1 .. n + 1
      BY <1>1
    <2> QED
      BY <2>1, FirstOfIsFirst, Zenon
  <1>3. code = SubSeq(chars, 1, q - 1)
    BY DEF Code
  <1> HIDE DEF n, q, code
  <1>4. /\ q \in 1 .. n + 1
        /\ q = n + 1 \/ chars[q] = COMMENT
        /\ \A r \in 1 .. q - 1 : chars[r] # COMMENT
    BY <1>1, <1>2 DEF IsFirst, Positions
  <1>5. /\ code \in Seq(STRING) /\ Len(code) = q - 1
        /\ \A i \in 1 .. q - 1 : code[i] = chars[i]
    <2>1. q - 1 \in Int /\ \A i \in 1 .. q - 1 : chars[i] \in STRING
      BY <1>1, <1>4
    <2>2. /\ code \in Seq(STRING) /\ Len(code) = IF 1 <= q - 1 THEN (q - 1) - 1 + 1 ELSE 0
          /\ \A i \in 1 .. (q - 1) - 1 + 1 : code[i] = chars[1 + i - 1]
      BY <1>3, <2>1, SubSeqProperties
    <2> QED
      BY <1>4, <2>2
  <1>6. DOMAIN code = 1 .. q - 1
    BY <1>5, LenProperties
  <1>7. BlanksIn(code) = {i \in 1 .. q - 1 : chars[i] \in BLANKS}
    BY <1>5, <1>6 DEF BlanksIn, Positions
  <1>8. TextIn(chars) = {i \in 1 .. n : chars[i] \notin BLANKS /\ \A j \in 1 .. i : chars[j] # COMMENT}
    BY <1>1, Zenon DEF TextIn, BLANKS
  <1>9. \A i \in 1 .. n : i \in 1 .. q - 1 <=> \A j \in 1 .. i : chars[j] # COMMENT
    BY <1>1, <1>4
  <1>10. TextIn(chars) = {i \in 1 .. q - 1 : chars[i] \notin BLANKS}
    BY <1>1, <1>4, <1>8, <1>9
  <1> QED
    BY <1>1, <1>4, <1>5, <1>7, <1>10 DEF code, n

\* Of a finite set of numbers no two have as many below them.
LEMMA RankIsUnique ==
  ASSUME NEW S \in SUBSET Nat, IsFiniteSet(S), NEW i \in S, NEW j \in S,
         Cardinality({r \in S : r <= i}) = Cardinality({r \in S : r <= j})
  PROVE  i = j
  <1>1. ASSUME NEW a \in S, NEW b \in S, a < b
        PROVE  Cardinality({r \in S : r <= a}) # Cardinality({r \in S : r <= b})
    <2> DEFINE A == {r \in S : r <= a}
               B == {r \in S : r <= b}
    <2>1. A \subseteq B /\ B \subseteq S /\ b \in B /\ b \notin A
      <3>1. \A r \in S : r \in Nat
        OBVIOUS
      <3>2. a \in Nat /\ b \in Nat /\ ~(b <= a) /\ b <= b
        BY <1>1, <3>1
      <3>3. ASSUME NEW r \in A PROVE r \in B
        <4>1. r \in Nat /\ r \in S /\ r <= a
          BY <3>1
        <4> QED
          BY <1>1, <3>2, <4>1
      <3>4. b \in B /\ b \notin A
        BY <3>2
      <3> QED
        BY <3>3, <3>4
    <2> HIDE DEF A, B
    <2>2. IsFiniteSet(B)
      BY <2>1, FS_Subset
    <2>3. Cardinality(B) = Cardinality(A) => A = B
      BY <2>1, <2>2, FS_Subset
    <2> QED
      BY <2>1, <2>3 DEF A, B
  <1> QED
    BY <1>1

-----------------------------------------------------------------------------
(* Fields: what the scanner takes one after another is what a reader sees. *)

\* The positions in T that follow none; those before e, and those up to i.
Begins(T) == {i \in T : i - 1 \notin T}

Before(F, e) == {s \in F : s < e}

AsFarAs(F, i) == {s \in F : s <= i}

\* From e, between two fields, the scanner finds the next, up to its end; or none.
LEMMA NextField ==
  ASSUME NEW n \in Nat, NEW T \in SUBSET (1 .. n), NEW e \in 1 .. n + 1, e = 1 \/ e \notin T,
         NEW start, IsFirst(start, n, e, T),
         NEW end, IsFirst(end, n, start, (1 .. n) \ T),
         NEW F, F = Begins(T)
  PROVE  /\ start \in 1 .. n + 1 /\ end \in 1 .. n + 1 /\ end \notin T
         /\ start <= n =>
              /\ start \in F
              /\ Cardinality(AsFarAs(F, start)) = Cardinality(Before(F, e)) + 1
              /\ Cardinality(Before(F, end)) = Cardinality(Before(F, e)) + 1
              /\ start < end /\ start .. end - 1 \subseteq T
         /\ start = n + 1 => Before(F, e) = F /\ Before(F, end) = F
  <1>1. /\ start \in e .. n + 1 /\ (start = n + 1 \/ start \in T)
        /\ \A r \in e .. start - 1 : r \notin T
    BY DEF IsFirst
  <1>2. /\ end \in start .. n + 1 /\ (end = n + 1 \/ end \in (1 .. n) \ T)
        /\ \A r \in start .. end - 1 : r \notin (1 .. n) \ T
    BY DEF IsFirst
  <1>3. F \in SUBSET (1 .. n) /\ F \subseteq T /\ IsFiniteSet(F)
    <2>1. F \subseteq T /\ F \in SUBSET (1 .. n)
      BY DEF Begins
    <2>2. IsFiniteSet(1 .. n)
      BY FS_Interval
    <2> QED
      BY <2>1, <2>2, FS_Subset
  <1>4. start \in 1 .. n + 1 /\ end \in 1 .. n + 1 /\ end \notin T
    BY <1>1, <1>2
  <1>5. ASSUME start <= n
        PROVE  /\ start \in F
               /\ Cardinality(AsFarAs(F, start)) = Cardinality(Before(F, e)) + 1
               /\ Cardinality(Before(F, end)) = Cardinality(Before(F, e)) + 1
               /\ start < end /\ start .. end - 1 \subseteq T
    <2>1. start \in T
      BY <1>1, <1>5
    <2>2. start - 1 \notin T
      <3>1. CASE start = e
        <4>1. e = 1
          BY <2>1, <3>1
        <4> QED
          BY <3>1, <4>1
      <3>2. CASE start # e
        BY <1>1, <3>2
      <3> QED
        BY <3>1, <3>2
    <2>3. start \in F
      BY <2>1, <2>2 DEF Begins
    <2>4. start < end /\ start .. end - 1 \subseteq T
      <3>1. end # start
        BY <1>2, <1>5, <2>1
      <3>2. \A r \in start .. end - 1 : r \in 1 .. n
        BY <1>1, <1>2
      <3> QED
        BY <1>1, <1>2, <3>1, <3>2
    <2>5. AsFarAs(F, start) = Before(F, e) \cup {start}
      <3>1. ASSUME NEW s \in F, s <= start PROVE s < e \/ s = start
        <4>1. s \in T /\ s \in 1 .. n
          BY <1>3
        <4> QED
          BY <1>1, <3>1, <4>1
      <3>2. ASSUME NEW s \in F, s < e PROVE s <= start
        <4>1. s \in 1 .. n
          BY <1>3
        <4> QED
          BY <1>1, <3>2, <4>1
      <3>3. start <= start
        BY <1>1
      <3> QED
        BY <2>3, <3>1, <3>2, <3>3 DEF Before, AsFarAs
    <2>6. Before(F, end) = AsFarAs(F, start)
      <3>1. ASSUME NEW s \in F, s < end PROVE s <= start
        <4>1. s \in 1 .. n /\ s - 1 \notin T
          BY <1>3 DEF Begins
        <4>2. SUFFICES ASSUME s > start PROVE FALSE
          BY <1>1, <4>1
        <4>3. s - 1 \in start .. end - 1
          BY <1>1, <1>2, <3>1, <4>1, <4>2
        <4> QED
          BY <2>4, <4>1, <4>3
      <3>2. ASSUME NEW s \in F, s <= start PROVE s < end
        <4>1. s \in 1 .. n
          BY <1>3
        <4> QED
          BY <1>1, <1>2, <2>4, <3>2, <4>1
      <3> QED
        BY <3>1, <3>2 DEF Before, AsFarAs
    <2>7. Cardinality(Before(F, e) \cup {start}) = Cardinality(Before(F, e)) + 1
      <3>1. IsFiniteSet(Before(F, e))
        BY <1>3, FS_Subset DEF Before
      <3>2. start \notin Before(F, e)
        BY <1>1 DEF Before
      <3> QED
        BY <3>1, <3>2, FS_AddElement
    <2> QED
      BY <2>3, <2>4, <2>5, <2>6, <2>7
  <1>6. ASSUME start = n + 1 PROVE Before(F, e) = F /\ Before(F, end) = F
    <2>1. ASSUME NEW s \in F PROVE s < e /\ s < end
      <3>1. s \in T /\ s \in 1 .. n
        BY <1>3
      <3> QED
        BY <1>1, <1>2, <1>6, <3>1
    <2> QED
      BY <2>1 DEF Before
  <1> QED
    BY <1>4, <1>5, <1>6

\* Where the next field begins and ends, from e.
SpanAfter(chars, e) ==
  LET start == FirstOf(chars, e, DOMAIN chars \ BlanksIn(chars))
  IN [column |-> start, end |-> FirstOf(chars, start, BlanksIn(chars))]

IsSpans(span, chars, n) ==
  span = [k \in 0 .. n |-> IF k = 0 THEN [column |-> 1, end |-> 1]
                           ELSE SpanAfter(chars, span[k - 1].end)]

LEMMA SpansExist ==
  ASSUME NEW chars, NEW n \in Nat
  PROVE  \E span : IsSpans(span, chars, n)
  <1> DEFINE P == {i \in 0 .. n : \E span : IsSpans(span, chars, i)}
             zeroth == [column |-> 1, end |-> 1]
  <1>1. 0 \in P
    <2> DEFINE span == [k \in 0 .. 0 |-> zeroth]
    <2>1. IsSpans(span, chars, 0)
      <3>1. \A k \in 0 .. 0 : k = 0
        OBVIOUS
      <3>2. span = [k \in 0 .. 0 |-> IF k = 0 THEN zeroth ELSE SpanAfter(chars, span[k - 1].end)]
        BY <3>1, Zenon
      <3> QED
        BY <3>2, Zenon DEF IsSpans
    <2> QED
      BY <2>1
  <1>2. ASSUME NEW i \in 1 .. n, i - 1 \in P PROVE i \in P
    <2>1. i \in Nat /\ i - 1 \in Nat /\ i \in 0 .. n
      BY <1>2
    <2>2. PICK span : IsSpans(span, chars, i - 1)
      BY <1>2
    <2> DEFINE longer == [k \in 0 .. i |-> IF k = i THEN SpanAfter(chars, span[i - 1].end) ELSE span[k]]
    <2>3. \A k \in 0 .. i - 1 : /\ span[k] = IF k = 0 THEN zeroth ELSE SpanAfter(chars, span[k - 1].end)
                                /\ k \in 0 .. i /\ k # i
      <3>1. \A k \in 0 .. i - 1 : k \in 0 .. i /\ k # i
        BY <2>1
      <3>2. \A k \in 0 .. i - 1 : span[k] = IF k = 0 THEN zeroth ELSE SpanAfter(chars, span[k - 1].end)
        BY <2>2, Zenon DEF IsSpans
      <3> QED
        BY <3>1, <3>2, Zenon
    <2>4. /\ longer = [k \in 0 .. i |-> longer[k]]
          /\ longer[i] = SpanAfter(chars, span[i - 1].end)
          /\ \A k \in 0 .. i - 1 : longer[k] = span[k]
      <3>1. i \in 0 .. i
        BY <2>1
      <3> QED
        BY <2>3, <3>1, Zenon
    <2> HIDE DEF longer
    <2>5. ASSUME NEW k \in 0 .. i
          PROVE  longer[k] = IF k = 0 THEN zeroth ELSE SpanAfter(chars, longer[k - 1].end)
      <3>1. k # 0 => k - 1 \in 0 .. i - 1
        BY <2>1
      <3>2. CASE k = i
        <4>1. k # 0 /\ k - 1 = i - 1
          BY <1>2, <3>2
        <4> QED
          BY <2>4, <3>1, <3>2, <4>1, Zenon
      <3>3. CASE k # i
        <4>1. k \in 0 .. i - 1
          BY <2>1, <3>3
        <4> QED
          BY <2>3, <2>4, <3>1, <4>1, Zenon
      <3> QED
        BY <3>2, <3>3
    <2>6. IsSpans(longer, chars, i)
      BY <2>4, <2>5, Zenon DEF IsSpans
    <2> QED
      BY <2>1, <2>6
  <1> HIDE DEF P
  <1>3. 0 .. n \subseteq P
    BY <1>1, <1>2, UpTo, Zenon
  <1>4. n \in P
    BY <1>3
  <1> QED
    BY <1>4 DEF P

LEMMA SpansUnfold ==
  ASSUME NEW chars, NEW n \in Nat
  PROVE  /\ Spans(chars, n)[0] = [column |-> 1, end |-> 1]
         /\ \A k \in 1 .. n : Spans(chars, n)[k] = SpanAfter(chars, Spans(chars, n)[k - 1].end)
  <1>1. Spans(chars, n) = CHOOSE span : IsSpans(span, chars, n)
    BY Zenon DEF Spans, IsSpans, SpanAfter
  <1>2. IsSpans(Spans(chars, n), chars, n)
    BY <1>1, SpansExist, Zenon
  <1>3. 0 \in 0 .. n /\ \A k \in 1 .. n : k \in 0 .. n /\ k # 0
    OBVIOUS
  <1> QED
    BY <1>2, <1>3, Zenon DEF IsSpans

\* The text of a line, as the positions that are not blank, and its fields.
LEMMA SpansFollowFields ==
  ASSUME NEW code \in Seq(STRING)
  PROVE  LET n == Len(code)
             T == (1 .. n) \ BlanksIn(code)
             F == Begins(T)
             c == Cardinality(F)
             span == Spans(code, 4)
         IN /\ c \in Nat /\ IsFiniteSet(F)
            /\ \A k \in 1 .. 4 :
                 /\ span[k].column \in 1 .. n + 1
                 /\ span[k].column <= n <=> k <= c
                 /\ k <= c =>
                      /\ span[k].column \in F
                      /\ Cardinality(AsFarAs(F, span[k].column)) = k
                      /\ span[k].end \in 1 .. n + 1 /\ span[k].end \notin T
                      /\ span[k].column < span[k].end
                      /\ span[k].column .. span[k].end - 1 \subseteq T
  <1> DEFINE n == Len(code)
             B == BlanksIn(code)
             T == (1 .. n) \ B
             F == Begins(T)
             c == Cardinality(F)
             span == Spans(code, 4)
             \* After k fields, or all there are.
             After(k, e) ==
               /\ e \in 1 .. n + 1 /\ (e = 1 \/ e \notin T)
               /\ Cardinality(Before(F, e)) = IF k <= c THEN k ELSE c
             Found(k, start, end) ==
               /\ start \in 1 .. n + 1
               /\ start <= n <=> k <= c
               /\ k <= c =>
                    /\ start \in F
                    /\ Cardinality(AsFarAs(F, start)) = k
                    /\ end \in 1 .. n + 1 /\ end \notin T
                    /\ start < end
                    /\ start .. end - 1 \subseteq T
  <1>1. n \in Nat /\ DOMAIN code = 1 .. n /\ B \subseteq 1 .. n
    BY LenProperties DEF BlanksIn, Positions
  <1>2. (1 .. n) \ T = B /\ DOMAIN code \ B = T /\ T \in SUBSET (1 .. n)
    BY <1>1
  <1>3. F \in SUBSET (1 .. n) /\ IsFiniteSet(F) /\ c \in Nat
    <2>1. F \in SUBSET (1 .. n)
      BY <1>2 DEF Begins
    <2>2. IsFiniteSet(1 .. n)
      BY <1>1, FS_Interval
    <2> HIDE DEF F
    <2>3. IsFiniteSet(F)
      BY <2>1, <2>2, FS_Subset
    <2> QED
      BY <2>1, <2>3, FS_CardinalityType
  <1> HIDE DEF n, B, T
  <1>4. ASSUME NEW k \in 1 .. 4, NEW e, After(k - 1, e),
               NEW start, start = FirstOf(code, e, T), NEW end, end = FirstOf(code, start, B)
        PROVE  After(k, end) /\ Found(k, start, end)
    <2>1. IsFirst(start, n, e, T)
      BY <1>4, FirstOfIsFirst, Zenon DEF n
    <2>2. start \in 1 .. n + 1
      BY <1>1, <1>4, <2>1 DEF IsFirst
    <2>3. IsFirst(end, n, start, B)
      BY <1>4, <2>2, FirstOfIsFirst, Zenon DEF n
    <2>4. IsFirst(end, n, start, (1 .. n) \ T)
      BY <1>2, <2>3
    <2>5. /\ end \in 1 .. n + 1 /\ end \notin T
          /\ start <= n =>
               /\ start \in F
               /\ Cardinality(AsFarAs(F, start)) = Cardinality(Before(F, e)) + 1
               /\ Cardinality(Before(F, end)) = Cardinality(Before(F, e)) + 1
               /\ start < end /\ start .. end - 1 \subseteq T
          /\ start = n + 1 => Before(F, e) = F /\ Before(F, end) = F
      <3>1. e \in 1 .. n + 1 /\ (e = 1 \/ e \notin T)
        BY <1>4
      <3>2. F = Begins(T)
        OBVIOUS
      <3> HIDE DEF After, Found, F
      <3> QED
        BY <1>1, <1>2, <2>1, <2>4, <3>1, <3>2, NextField, SMT
    <2>6. AsFarAs(F, start) \in SUBSET F /\ Cardinality(AsFarAs(F, start)) <= c
      BY <1>3, FS_Subset DEF AsFarAs
    <2>7. CASE k <= c
      <3>1. Cardinality(Before(F, e)) = k - 1 /\ k - 1 # c
        BY <1>3, <1>4, <2>7
      <3>2. start # n + 1
        BY <2>5, <3>1
      <3>3. start <= n
        BY <1>1, <2>2, <3>2
      <3> QED
        BY <2>2, <2>5, <2>7, <3>1, <3>3
    <2>8. CASE k > c
      <3>1. Cardinality(Before(F, e)) = c
        BY <1>3, <1>4, <2>8
      <3>2. ~(start <= n)
        BY <1>3, <2>5, <2>6, <3>1
      <3>3. start = n + 1
        BY <1>1, <2>2, <3>2
      <3> QED
        BY <1>1, <1>3, <2>2, <2>5, <2>8, <3>1, <3>3
    <2> QED
      BY <1>3, <2>7, <2>8
  <1>5. /\ span[0] = [column |-> 1, end |-> 1]
        /\ \A k \in 1 .. 4 : span[k] = SpanAfter(code, span[k - 1].end)
    BY SpansUnfold
  <1> HIDE DEF span
  <1>6. ASSUME NEW k \in 1 .. 4
        PROVE  /\ span[k].column = FirstOf(code, span[k - 1].end, T)
               /\ span[k].end = FirstOf(code, span[k].column, B)
    <2>1. span[k] = SpanAfter(code, span[k - 1].end)
      BY <1>5
    <2>2. FirstOf(code, span[k - 1].end, T) = FirstOf(code, span[k - 1].end, DOMAIN code \ B)
      BY <1>2, Zenon
    <2> QED
      BY <2>1, <2>2 DEF SpanAfter, B
  <1>7. After(0, span[0].end)
    <2>1. span[0].end = 1
      BY <1>5
    <2>2. Before(F, 1) = {}
      BY <1>1, <1>3 DEF Before
    <2>3. Cardinality(Before(F, 1)) = 0
      BY <2>2, FS_EmptySet
    <2> QED
      BY <1>1, <1>3, <2>1, <2>3
  <1> HIDE DEF After, Found
  <1>8. ASSUME NEW k \in 1 .. 4, After(k - 1, span[k - 1].end)
        PROVE  After(k, span[k].end) /\ Found(k, span[k].column, span[k].end)
    BY <1>4, <1>6, <1>8, Zenon
  <1> DEFINE P == {k \in 0 .. 4 : After(k, span[k].end)}
  <1>9. 0 \in P /\ \A k \in 1 .. 4 : k - 1 \in P => k \in P
    BY <1>7, <1>8
  <1>10. \A k \in 0 .. 4 : After(k, span[k].end)
    <2> HIDE DEF P
    <2>1. 0 .. 4 \subseteq P
      BY <1>9, UpTo
    <2> QED
      BY <2>1 DEF P
  <1>11. \A k \in 1 .. 4 : Found(k, span[k].column, span[k].end)
    <2>1. \A k \in 1 .. 4 : k - 1 \in 0 .. 4
      OBVIOUS
    <2> QED
      BY <1>8, <1>10, <2>1, Zenon
  <1> QED
    BY <1>3, <1>11, Zenon DEF Found, span, T, B, n

\* A field that begins at `start` and ends before `end`.
LEMMA FieldIsItsSpan ==
  ASSUME NEW chars \in Seq(STRING), NEW start \in 1 .. Len(Code(chars)),
         NEW end \in 1 .. Len(Code(chars)) + 1, start < end,
         start .. end - 1 \subseteq TextIn(chars), end \notin TextIn(chars)
  PROVE  /\ FieldAt(chars, start) = SubSeq(Code(chars), start, end - 1)
         /\ FieldAt(chars, start) \in Seq(STRING)
         /\ FieldAt(chars, start) # <<>>
  <1> DEFINE code == Code(chars)
             n == Len(code)
             T == TextIn(chars)
             field == {j \in T : start <= j /\ start .. j \subseteq T}
             sub == SubSeq(code, start, end - 1)
             m == end - start
  <1>1. /\ code \in Seq(STRING) /\ n <= Len(chars) /\ \A i \in 1 .. n : code[i] = chars[i]
        /\ T \subseteq 1 .. n
    BY CodeHoldsTheText
  <1>2. n \in Nat /\ code \in [1 .. n -> STRING]
    BY <1>1, LenProperties
  <1>3. /\ start \in 1 .. n /\ end \in 1 .. n + 1 /\ start < end
        /\ start .. end - 1 \subseteq T /\ end \notin T
    OBVIOUS
  <1> HIDE DEF code, n, T
  <1>4. field = start .. end - 1
    <2>1. ASSUME NEW j \in T, start <= j, start .. j \subseteq T PROVE j \in start .. end - 1
      <3>1. j \in Int
        BY <1>1, <1>2, <2>1
      <3>2. SUFFICES ASSUME j >= end PROVE FALSE
        BY <1>3, <2>1, <3>1
      <3>3. end \in start .. j
        BY <1>3, <3>1, <3>2
      <3> QED
        BY <1>3, <2>1, <3>3
    <2>2. ASSUME NEW j \in start .. end - 1 PROVE j \in T /\ start <= j /\ start .. j \subseteq T
      <3>1. start .. j \subseteq start .. end - 1
        BY <1>3
      <3> QED
        BY <1>3, <3>1
    <2> QED
      BY <2>1, <2>2
  <1>5. m \in Nat /\ m > 0 /\ Cardinality(field) = m
    <2>1. Cardinality(start .. end - 1) = IF start > end - 1 THEN 0 ELSE (end - 1) - start + 1
      BY <1>3, FS_Interval
    <2>2. m \in Nat /\ m > 0 /\ Cardinality(start .. end - 1) = m
      BY <1>3, <2>1
    <2> QED
      BY <1>4, <2>2, Zenon
  <1>6. sub \in Seq(STRING) /\ Len(sub) = m /\ \A i \in 1 .. m : sub[i] = code[start + i - 1]
    <2>1. /\ start \in Int /\ end - 1 \in Int /\ \A i \in start .. end - 1 : code[i] \in STRING
          /\ start <= end - 1 /\ (end - 1) - start + 1 = m
      BY <1>2, <1>3
    <2>2. /\ sub \in Seq(STRING)
          /\ Len(sub) = IF start <= end - 1 THEN (end - 1) - start + 1 ELSE 0
          /\ \A i \in 1 .. (end - 1) - start + 1 : sub[i] = code[start + i - 1]
      BY <2>1, SubSeqProperties
    <2> HIDE DEF sub, m
    <2> QED
      BY <2>1, <2>2
  <1>7. FieldAt(chars, start) = [k \in 1 .. m |-> chars[start + k - 1]]
    BY <1>5, Zenon DEF FieldAt, T
  <1> HIDE DEF sub, m
  <1>8. \A k \in 1 .. m : chars[start + k - 1] = sub[k]
    <2>1. m = end - start
      BY DEF m
    <2>2. \A k \in 1 .. m : start + k - 1 \in 1 .. n
      BY <1>2, <1>3, <2>1
    <2> QED
      BY <1>1, <1>6, <2>2
  <1>9. sub = [k \in 1 .. m |-> sub[k]] /\ sub # <<>>
    BY <1>5, <1>6, LenProperties, EmptySeq
  <1>10. FieldAt(chars, start) = sub
    BY <1>7, <1>8, <1>9, Zenon
  <1> QED
    BY <1>6, <1>9, <1>10 DEF sub, code

\* The tokens are the first four fields, at their columns.
LEMMA TokensAreFields ==
  ASSUME NEW chars \in Seq(STRING)
  PROVE  LET tokens == tokenize(Code(chars), 4)
             f == FieldsOf(chars)
             c == Cardinality(FieldStarts(chars))
             m == IF c <= 4 THEN c ELSE 4
         IN /\ c \in Nat
            /\ f = [k \in 1 .. c |-> f[k]]
            /\ DOMAIN tokens = 1 .. m
            /\ \A k \in 1 .. m :
                 /\ tokens[k].column = FieldStart(chars, k)
                 /\ FieldStart(chars, k) \in Nat \ {0}
                 /\ tokens[k].chars = f[k]
                 /\ f[k] \in Seq(STRING) /\ f[k] # <<>>
  <1> DEFINE code == Code(chars)
             n == Len(code)
             tokens == tokenize(code, 4)
             T == (1 .. n) \ BlanksIn(code)
             F == Begins(T)
             f == FieldsOf(chars)
             c == Cardinality(F)
             m == IF c <= 4 THEN c ELSE 4
             span == Spans(code, 4)
  <1>1. code \in Seq(STRING) /\ TextIn(chars) = T
    BY CodeHoldsTheText
  <1>2. n \in Nat
    BY <1>1, LenProperties
  <1>3. FieldStarts(chars) = F
    BY <1>1, Zenon DEF FieldStarts, Begins
  <1>4. /\ c \in Nat /\ IsFiniteSet(F)
        /\ \A k \in 1 .. 4 :
             /\ span[k].column \in 1 .. n + 1
             /\ span[k].column <= n <=> k <= c
             /\ k <= c =>
                  /\ span[k].column \in F
                  /\ Cardinality(AsFarAs(F, span[k].column)) = k
                  /\ span[k].end \in 1 .. n + 1 /\ span[k].end \notin T
                  /\ span[k].column < span[k].end
                  /\ span[k].column .. span[k].end - 1 \subseteq T
    BY <1>1, SpansFollowFields, Zenon
  <1>5. F \in SUBSET Nat
    BY <1>2 DEF Begins
  <1>6. m \in 0 .. 4 /\ m \in Nat /\ \A k \in 1 .. 4 : k <= c <=> k \in 1 .. m
    <2> HIDE DEF c
    <2> QED
      BY <1>4
  <1>7. CountOf(span, code, 4) = m
    <2>1. {k \in 1 .. 4 : span[k].column <= n} = 1 .. m
      <3> HIDE DEF m, c, n
      <3> QED
        BY <1>4, <1>6
    <2>2. Cardinality(1 .. m) = m
      <3> HIDE DEF m
      <3> QED
        BY <1>6, FS_Interval
    <2> QED
      BY <2>1, <2>2, Zenon DEF CountOf
  <1>8. tokens = [k \in 1 .. m |->
                    [column |-> span[k].column,
                     chars |-> SubSeq(code, span[k].column, span[k].end - 1)]]
    BY <1>7, Zenon DEF tokenize
  <1>9. f = [k \in 1 .. c |-> FieldAt(chars, FieldStart(chars, k))]
    BY <1>3, Zenon DEF FieldsOf
  <1> HIDE DEF tokens, f, span, m
  <1>10. ASSUME NEW k \in 1 .. m
         PROVE  /\ tokens[k].column = FieldStart(chars, k)
                /\ FieldStart(chars, k) \in Nat \ {0}
                /\ tokens[k].chars = f[k]
                /\ f[k] \in Seq(STRING) /\ f[k] # <<>>
    <2> DEFINE start == span[k].column
               end == span[k].end
    <2>1. k \in 1 .. 4 /\ k <= c /\ k \in 1 .. c
      <3> HIDE DEF c
      <3> QED
        BY <1>4, <1>6
    <2>2. /\ start \in 1 .. n + 1 /\ start <= n /\ start \in F
          /\ Cardinality(AsFarAs(F, start)) = k
          /\ end \in 1 .. n + 1 /\ end \notin T /\ start < end /\ start .. end - 1 \subseteq T
      BY <1>4, <2>1, Zenon
    <2>3. tokens[k] = [column |-> start, chars |-> SubSeq(code, start, end - 1)]
      BY <1>8, Zenon
    <2> HIDE DEF start, end
    <2>4. FieldStart(chars, k) = start
      <3>1. FieldStart(chars, k) = CHOOSE i \in F : Cardinality(AsFarAs(F, i)) = k
        BY <1>3, Zenon DEF FieldStart, AsFarAs
      <3>2. \A i, j \in F :
              Cardinality(AsFarAs(F, i)) = Cardinality(AsFarAs(F, j)) => i = j
        <4> HIDE DEF F
        <4> QED
          BY <1>4, <1>5, RankIsUnique, Zenon DEF AsFarAs
      <3> HIDE DEF F
      <3> QED
        BY <2>2, <3>1, <3>2, Zenon
    <2>5. /\ FieldAt(chars, start) = SubSeq(code, start, end - 1)
          /\ FieldAt(chars, start) \in Seq(STRING)
          /\ FieldAt(chars, start) # <<>>
      <3>1. start \in 1 .. Len(Code(chars)) /\ end \in 1 .. Len(Code(chars)) + 1
        <4>1. start \in 1 .. n /\ end \in 1 .. n + 1
          <5> HIDE DEF n
          <5> QED
            BY <1>2, <2>2
        <4> QED
          BY <4>1
      <3> HIDE DEF T
      <3> QED
        BY <1>1, <2>2, <3>1, FieldIsItsSpan
    <2>6. f[k] = FieldAt(chars, start)
      BY <1>9, <2>1, <2>4, Zenon
    <2>7. tokens[k].column = start /\ tokens[k].chars = SubSeq(code, start, end - 1)
      <3>1. \A a, b : [column |-> a, chars |-> b].column = a /\ [column |-> a, chars |-> b].chars = b
        OBVIOUS
      <3> QED
        BY <2>3, <3>1, Zenon
    <2>8. start \in Nat \ {0}
      <3> HIDE DEF n
      <3> QED
        BY <1>2, <2>2
    <2> QED
      BY <2>4, <2>5, <2>6, <2>7, <2>8
  <1>11. f = [k \in 1 .. c |-> f[k]] /\ DOMAIN tokens = 1 .. m
    BY <1>8, <1>9
  <1> QED
    BY <1>3, <1>4, <1>10, <1>11, Zenon DEF m, tokens, f

-----------------------------------------------------------------------------
(* Lines: what the assembler makes of one is what its fields say.          *)

\* The instruction that a field of one letter names.
OpcodeNamed(field) == {k \in 0 .. 15 : field = <<OPCODE_LETTERS[k + 1]>>}

LEMMA OpcodesMeanTheirText ==
  ASSUME NEW field \in Seq(STRING)
  PROVE  /\ (IF Len(field) = 1 THEN opcode_value(field[1]) ELSE {}) = OpcodeNamed(field)
         /\ OpcodeNamed(field) \in Field(0 .. 15)
  <1>1. ASSUME NEW k \in 0 .. 15
        PROVE  field = <<OPCODE_LETTERS[k + 1]>> <=> Len(field) = 1 /\ OPCODE_LETTERS[k + 1] = field[1]
    <2> DEFINE letter == OPCODE_LETTERS[k + 1]
    <2> HIDE DEF letter
    <2>1. Len(<<letter>>) = 1 /\ <<letter>>[1] = letter
      OBVIOUS
    <2>2. ASSUME Len(field) = 1, letter = field[1] PROVE field = <<letter>>
      <3>1. DOMAIN field = 1 .. 1 /\ field = [i \in 1 .. 1 |-> field[i]]
        BY <2>2, LenProperties
      <3> QED
        BY <2>2, <3>1
    <2> QED
      BY <2>1, <2>2 DEF letter
  <1>2. CASE Len(field) = 1
    <2>1. OpcodeNamed(field) = opcode_value(field[1])
      BY <1>1, <1>2 DEF OpcodeNamed, opcode_value
    <2> QED
      BY <1>2, <2>1, OpcodeField
  <1>3. CASE Len(field) # 1
    <2>1. OpcodeNamed(field) = {}
      BY <1>1, <1>3 DEF OpcodeNamed
    <2> QED
      BY <1>3, <2>1 DEF Field
  <1> QED
    BY <1>2, <1>3

\* What a line of c fields f is made of.
IsMadeOf(l, c, f, columns) ==
  /\ c = 0 => l = [form |-> "blank"]
  /\ c > 3 => l = [form |-> "too_many_fields", columns |-> columns]
  /\ c = 2 /\ f[1] = START => l = [form |-> "start", columns |-> columns, address |-> AddressNamed(f[2])]
  /\ c = 3 /\ f[2] = DW =>
       l = [form |-> "dw", columns |-> columns, location |-> AddressNamed(f[1]), value |-> NumberNamed(f[3])]
  /\ c = 3 /\ f[2] # DW =>
       l = [form |-> "instruction", columns |-> columns, location |-> AddressNamed(f[1]),
            opcode |-> OpcodeNamed(f[2]), operand |-> AddressNamed(f[3])]
  /\ c = 1 \/ (c = 2 /\ f[1] # START) => l = [form |-> "unrecognised"]

\* What the assembler makes of the first four fields of a line.
LEMMA LineOfFields ==
  ASSUME NEW c \in Nat, NEW f, NEW m, m = (IF c <= 4 THEN c ELSE 4),
         \A k \in 1 .. m : f[k] \in Seq(STRING) /\ f[k] # <<>>,
         NEW fields, Len(fields) = m, \A k \in 1 .. m : fields[k] = f[k],
         NEW columns, NEW l, l = LineOf(fields, columns)
  PROVE  IsMadeOf(l, c, f, columns)
  <1> DEFINE n == Len(fields)
             locationOf(k) == parse_location_token(fields[k])
             opcode == IF Len(fields[2]) = 1 THEN opcode_value(fields[2][1]) ELSE {}
             value == parse_signed_integer(fields[3])
  <1>1. l = CASE n = 0 -> [form |-> "blank"]
              [] n = 4 -> [form |-> "too_many_fields", columns |-> columns]
              [] n = 2 /\ fields[1] = START -> [form |-> "start", columns |-> columns, address |-> locationOf(2)]
              [] n = 3 /\ fields[2] = DW ->
                   [form |-> "dw", columns |-> columns, location |-> locationOf(1), value |-> value]
              [] n = 3 /\ fields[2] # DW ->
                   [form |-> "instruction", columns |-> columns, location |-> locationOf(1),
                    opcode |-> opcode, operand |-> locationOf(3)]
              [] OTHER -> [form |-> "unrecognised"]
    BY Zenon DEF LineOf
  <1>2. ASSUME NEW k \in 1 .. m
        PROVE  fields[k] = f[k] /\ locationOf(k) = AddressNamed(f[k])
    BY <1>2, AddressesMeanTheirText
  <1>3. CASE m = 3
    <2>1. /\ fields[1] = f[1] /\ locationOf(1) = AddressNamed(f[1])
          /\ fields[2] = f[2] /\ f[2] \in Seq(STRING)
          /\ fields[3] = f[3] /\ locationOf(3) = AddressNamed(f[3])
          /\ f[3] \in Seq(STRING) /\ f[3] # <<>>
      <3>1. 1 \in 1 .. m /\ 2 \in 1 .. m /\ 3 \in 1 .. m
        BY <1>3
      <3> HIDE DEF locationOf
      <3> QED
        BY <1>2, <3>1, Zenon
    <2>2. value = NumberNamed(f[3])
      BY <2>1, NumbersMeanTheirText, Zenon
    <2>3. opcode = OpcodeNamed(f[2])
      BY <2>1, OpcodesMeanTheirText, Zenon
    <2>4. c = 3 /\ n = 3
      BY <1>3
    <2> HIDE DEF n, locationOf, value, opcode
    <2>5. f[2] = DW =>
            l = [form |-> "dw", columns |-> columns, location |-> AddressNamed(f[1]), value |-> NumberNamed(f[3])]
      BY <1>1, <2>1, <2>2, <2>4
    <2>6. f[2] # DW =>
            l = [form |-> "instruction", columns |-> columns, location |-> AddressNamed(f[1]),
                 opcode |-> OpcodeNamed(f[2]), operand |-> AddressNamed(f[3])]
      BY <1>1, <2>1, <2>3, <2>4
    <2> QED
      BY <2>4, <2>5, <2>6 DEF IsMadeOf
  <1>4. CASE m = 2
    <2>1. fields[1] = f[1] /\ locationOf(2) = AddressNamed(f[2])
      <3>1. 1 \in 1 .. m /\ 2 \in 1 .. m
        BY <1>4
      <3> HIDE DEF locationOf
      <3> QED
        BY <1>2, <3>1, Zenon
    <2>2. c = 2 /\ n = 2
      BY <1>4
    <2> HIDE DEF n, locationOf, value, opcode
    <2>3. /\ f[1] = START => l = [form |-> "start", columns |-> columns, address |-> AddressNamed(f[2])]
          /\ f[1] # START => l = [form |-> "unrecognised"]
      BY <1>1, <2>1, <2>2
    <2> QED
      BY <2>2, <2>3 DEF IsMadeOf
  <1>5. CASE m \in {0, 1, 4}
    <2>1. n = m /\ m = (IF c <= 4 THEN c ELSE 4)
      OBVIOUS
    <2> HIDE DEF n, locationOf, value, opcode
    <2>2. /\ m = 0 => l = [form |-> "blank"]
          /\ m = 4 => l = [form |-> "too_many_fields", columns |-> columns]
          /\ m = 1 => l = [form |-> "unrecognised"]
      BY <1>1, <2>1
    <2>3. c = 0 => l = [form |-> "blank"]
      BY <2>1, <2>2
    <2>4. c > 3 => l = [form |-> "too_many_fields", columns |-> columns]
      BY <1>5, <2>1, <2>2
    <2>5. c = 1 => l = [form |-> "unrecognised"]
      BY <2>1, <2>2
    <2>6. c # 2 /\ c # 3
      BY <1>5, <2>1
    <2> QED
      BY <2>3, <2>4, <2>5, <2>6 DEF IsMadeOf
  <1>6. m = 3 \/ m = 2 \/ m \in {0, 1, 4}
    OBVIOUS
  <1> QED
    BY <1>3, <1>4, <1>5, <1>6

\* MeansItsText, of a line of c fields f.
SaysFields(l, c, f) ==
  /\ l.form # "too_long"
  /\ l.form = "blank" <=> c = 0
  /\ l.form = "too_many_fields" <=> c > 3
  /\ l.form = "start" <=> c = 2 /\ f[1] = START
  /\ l.form = "dw" <=> c = 3 /\ f[2] = DW
  /\ l.form = "instruction" <=> c = 3 /\ f[2] # DW
  /\ l.form = "start" => l.address = AddressNamed(f[2])
  /\ l.form \in {"dw", "instruction"} => l.location = AddressNamed(f[1])
  /\ l.form = "dw" => l.value = NumberNamed(f[3])
  /\ l.form = "instruction" =>
       /\ l.opcode = OpcodeNamed(f[2])
       /\ l.operand = AddressNamed(f[3])

\* The columns of a line that has fields.
HasColumns(l, columns) ==
  l.form \in {"too_many_fields", "start", "dw", "instruction"} => l.columns = columns

LEMMA LineSaysFields ==
  ASSUME NEW c \in Nat, NEW f, NEW m, m = (IF c <= 4 THEN c ELSE 4),
         \A k \in 1 .. m : f[k] \in Seq(STRING) /\ f[k] # <<>>,
         NEW fields, Len(fields) = m, \A k \in 1 .. m : fields[k] = f[k],
         NEW columns \in [1 .. m -> Nat \ {0}],
         NEW l, l = LineOf(fields, columns)
  PROVE  l \in Line /\ SaysFields(l, c, f) /\ HasColumns(l, columns)
  <1>1. IsMadeOf(l, c, f, columns)
    BY LineOfFields
  <1>2. ASSUME NEW k \in 1 .. m
        PROVE  /\ AddressNamed(f[k]) \in Field(Address)
               /\ NumberNamed(f[k]) \in Field(Integer)
               /\ OpcodeNamed(f[k]) \in Field(0 .. 15)
    BY AddressesMeanTheirText, NumbersMeanTheirText, OpcodesMeanTheirText, Zenon
  <1>3. CASE c = 3
    <2>1. /\ AddressNamed(f[1]) \in Field(Address) /\ AddressNamed(f[3]) \in Field(Address)
          /\ NumberNamed(f[3]) \in Field(Integer) /\ OpcodeNamed(f[2]) \in Field(0 .. 15)
      <3>1. 1 \in 1 .. m /\ 2 \in 1 .. m /\ 3 \in 1 .. m
        BY <1>3
      <3> QED
        BY <1>2, <3>1, Zenon
    <2>4. columns \in Columns(3)
      BY <1>3 DEF Columns
    <2>2. CASE f[2] = DW
      <3>1. l = [form |-> "dw", columns |-> columns, location |-> AddressNamed(f[1]), value |-> NumberNamed(f[3])]
        BY <1>1, <1>3, <2>2 DEF IsMadeOf
      <3>2. l \in Line
        BY <2>1, <2>4, <3>1 DEF Line
      <3>3. SaysFields(l, c, f) /\ HasColumns(l, columns)
        BY <1>3, <2>2, <3>1 DEF SaysFields, HasColumns
      <3> QED
        BY <3>2, <3>3
    <2>3. CASE f[2] # DW
      <3>1. l = [form |-> "instruction", columns |-> columns, location |-> AddressNamed(f[1]),
                  opcode |-> OpcodeNamed(f[2]), operand |-> AddressNamed(f[3])]
        BY <1>1, <1>3, <2>3 DEF IsMadeOf
      <3>2. l \in Line
        BY <2>1, <2>4, <3>1 DEF Line
      <3>3. SaysFields(l, c, f) /\ HasColumns(l, columns)
        BY <1>3, <2>3, <3>1 DEF SaysFields, HasColumns
      <3> QED
        BY <3>2, <3>3
    <2> QED
      BY <2>2, <2>3
  <1>4. CASE c = 2 /\ f[1] = START
    <2>1. AddressNamed(f[2]) \in Field(Address)
      <3>1. 2 \in 1 .. m
        BY <1>4
      <3> QED
        BY <1>2, <3>1, Zenon
    <2>2. l = [form |-> "start", columns |-> columns, address |-> AddressNamed(f[2])]
      BY <1>1, <1>4 DEF IsMadeOf
    <2>3. l \in Line
      <3>1. columns \in Columns(2)
        BY <1>4 DEF Columns
      <3> QED
        BY <2>1, <2>2, <3>1 DEF Line
    <2>4. SaysFields(l, c, f) /\ HasColumns(l, columns)
      BY <1>4, <2>2 DEF SaysFields, HasColumns
    <2> QED
      BY <2>3, <2>4
  <1>5. CASE c # 3 /\ ~(c = 2 /\ f[1] = START)
    <2>1. \/ c = 0 /\ l = [form |-> "blank"]
          \/ c > 3 /\ l = [form |-> "too_many_fields", columns |-> columns]
          \/ (c = 1 \/ (c = 2 /\ f[1] # START)) /\ l = [form |-> "unrecognised"]
      BY <1>1, <1>5 DEF IsMadeOf
    <2>2. l \in Line
      <3>1. c > 3 => columns \in Columns(4)
        <4>1. c > 3 => m = 4
          OBVIOUS
        <4> QED
          BY <4>1, Zenon DEF Columns
      <3> QED
        BY <2>1, <3>1 DEF Line
    <2>3. SaysFields(l, c, f) /\ HasColumns(l, columns)
      BY <1>5, <2>1 DEF SaysFields, HasColumns
    <2> QED
      BY <2>2, <2>3
  <1> QED
    BY <1>3, <1>4, <1>5

\* The columns of a line are those at which the fields of its text begin.
ColumnsStand(l, chars) ==
  /\ l.form = "too_many_fields" => l.columns[4] = FieldStart(chars, 4)
  /\ l.form \in {"start", "dw", "instruction"} =>
       l.columns[1] = FieldStart(chars, 1) /\ l.columns[2] = FieldStart(chars, 2)
  /\ l.form \in {"dw", "instruction"} => l.columns[3] = FieldStart(chars, 3)

LEMMA ScanMeansItsText ==
  ASSUME NEW chars \in Seq(STRING)
  PROVE  /\ scan(chars) \in Line
         /\ MeansItsText(scan(chars), chars)
         /\ ColumnsStand(scan(chars), chars)
  <1> DEFINE l == scan(chars)
  <1>1. CASE Len(chars) >= LINE_CAPACITY
    <2>1. l = [form |-> "too_long"]
      BY <1>1 DEF scan
    <2>2. l \in Line
      BY <2>1 DEF Line
    <2> HIDE DEF l
    <2>3. MeansItsText(l, chars)
      BY <1>1, <2>1 DEF MeansItsText
    <2>4. ColumnsStand(l, chars)
      BY <2>1 DEF ColumnsStand
    <2> QED
      BY <2>2, <2>3, <2>4 DEF l
  <1>2. CASE ~(Len(chars) >= LINE_CAPACITY)
    <2> DEFINE tokens == tokenize(Code(chars), 4)
               f == FieldsOf(chars)
               c == Cardinality(FieldStarts(chars))
               m == IF c <= 4 THEN c ELSE 4
               fields == [k \in DOMAIN tokens |-> tokens[k].chars]
               columns == [k \in DOMAIN tokens |-> tokens[k].column]
    <2>1. /\ c \in Nat
          /\ f = [k \in 1 .. c |-> f[k]]
          /\ DOMAIN tokens = 1 .. m
          /\ \A k \in 1 .. m :
               /\ tokens[k].column = FieldStart(chars, k)
               /\ FieldStart(chars, k) \in Nat \ {0}
               /\ tokens[k].chars = f[k]
               /\ f[k] \in Seq(STRING) /\ f[k] # <<>>
      BY TokensAreFields, Zenon
    <2>2. l = LineOf(fields, columns)
      BY <1>2, Zenon DEF scan
    <2> HIDE DEF l, tokens, f, c
    <2>3. m \in Nat
      BY <2>1
    <2>4. fields = [k \in 1 .. m |-> tokens[k].chars]
      BY <2>1, Zenon
    <2>5. \A k \in 1 .. m : fields[k] = f[k]
      BY <2>1, <2>4, Zenon
    <2>6. Len(fields) = m
      <3> HIDE DEF m
      <3>1. Len([k \in 1 .. m |-> tokens[k].chars]) = m
        BY <2>3
      <3> QED
        BY <2>4, <3>1, Zenon
    <2>10. columns = [k \in 1 .. m |-> FieldStart(chars, k)]
      BY <2>1, Zenon
    <2>11. columns \in [1 .. m -> Nat \ {0}]
      BY <2>1, <2>10, Zenon
    <2> HIDE DEF fields, columns
    <2>7. l \in Line /\ SaysFields(l, c, f) /\ HasColumns(l, columns)
      <3>1. c \in Nat /\ m = (IF c <= 4 THEN c ELSE 4)
        BY <2>1
      <3>2. \A k \in 1 .. m : f[k] \in Seq(STRING) /\ f[k] # <<>>
        BY <2>1, Zenon
      <3> HIDE DEF m
      <3> QED
        BY <2>2, <2>5, <2>6, <2>11, <3>1, <3>2, LineSaysFields, Zenon
    <2>12. ColumnsStand(l, chars)
      <3>1. /\ l.form = "too_many_fields" => m = 4
            /\ l.form = "start" => m = 2
            /\ l.form \in {"dw", "instruction"} => m = 3
        BY <2>1, <2>7 DEF SaysFields
      <3>2. \A k \in 1 .. m : columns[k] = FieldStart(chars, k)
        BY <2>10, Zenon
      <3> HIDE DEF m
      <3>3. l.form \in {"too_many_fields", "start", "dw", "instruction"} => l.columns = columns
        BY <2>7 DEF HasColumns
      <3> QED
        BY <3>1, <3>2, <3>3 DEF ColumnsStand
    <2>8. Len(f) = c /\ (f = <<>> <=> c = 0)
      <3>1. \A g : f = [k \in 1 .. c |-> g[k]] => Len(f) = c /\ (f = <<>> <=> c = 0)
        BY <2>1
      <3> QED
        BY <2>1, <3>1, Zenon
    <2> HIDE DEF m
    <2>9. MeansItsText(l, chars)
      BY <1>2, <2>7, <2>8, Zenon DEF MeansItsText, SaysFields, f, OpcodeNamed
    <2> QED
      BY <2>7, <2>9, <2>12 DEF l
  <1> QED
    BY <1>1, <1>2

-----------------------------------------------------------------------------
(* The text: its lines, one after another.                                 *)

LEMMA BodyIsInterval ==
  ASSUME text \in Seq(STRING)
  PROVE  LET b == Cardinality(Body)
         IN /\ b \in 0 .. Len(text)
            /\ Body = 1 .. b
            /\ b < Len(text) => text[b + 1] = NUL
            /\ \A i \in 1 .. b : text[i] # NUL
  <1> DEFINE n == Len(text)
             end == FirstOf(text, 1, Positions(text, {NUL}))
             c == end - 1
  <1>1. n \in Nat /\ DOMAIN text = 1 .. n
    BY LenProperties
  <1>2. IsFirst(end, n, 1, Positions(text, {NUL}))
    <2>1. 1 \in 1 .. n + 1
      BY <1>1
    <2> QED
      BY <2>1, FirstOfIsFirst, Zenon
  <1> HIDE DEF end, n
  <1>3. c \in 0 .. n /\ (c < n => text[c + 1] = NUL) /\ \A i \in 1 .. c : text[i] # NUL
    BY <1>1, <1>2 DEF IsFirst, Positions
  <1> HIDE DEF c
  <1>4. Body = 1 .. c
    BY <1>1, <1>3 DEF Body
  <1>5. Cardinality(1 .. c) = c
    BY <1>1, <1>3, FS_Interval
  <1> QED
    BY <1>3, <1>4, <1>5, Zenon DEF n

LEMMA StartsAreFinite ==
  ASSUME text \in Seq(STRING)
  PROVE  LineStarts \in SUBSET Nat /\ LineStarts \in SUBSET Body /\ IsFiniteSet(LineStarts)
  <1>1. Body = 1 .. Cardinality(Body) /\ Cardinality(Body) \in Nat
    <2>1. Len(text) \in Nat
      BY LenProperties
    <2> QED
      BY <2>1, BodyIsInterval
  <1>2. IsFiniteSet(Body)
    BY <1>1, FS_Interval
  <1>3. LineStarts \in SUBSET Body
    BY DEF LineStarts
  <1> QED
    BY <1>1, <1>2, <1>3, FS_Subset

\* Where the code takes the line at s to end.
LineEnd(s) == FirstOf(text, s, Positions(text, {NEWLINE, NUL}))

\* The line at s, as the code takes it from the text.
LEMMA LineIsItsSpan ==
  ASSUME text \in Seq(STRING), NEW s \in LineStarts,
         NEW end, end = LineEnd(s)
  PROVE  /\ end \in s .. Cardinality(Body) + 1
         /\ end <= Cardinality(Body) => text[end] = NEWLINE
         /\ \A r \in s .. end - 1 : text[r] # NEWLINE
         /\ LineAt(s) = SubSeq(text, s, end - 1)
         /\ LineAt(s) \in Seq(STRING)
  <1> DEFINE n == Len(text)
             b == Cardinality(Body)
             m == end - s
             sub == SubSeq(text, s, end - 1)
  <1>1. n \in Nat /\ DOMAIN text = 1 .. n /\ text \in [1 .. n -> STRING]
    BY LenProperties
  <1>2. /\ b \in 0 .. n /\ Body = 1 .. b /\ (b < n => text[b + 1] = NUL)
        /\ \A i \in 1 .. b : text[i] # NUL
    BY BodyIsInterval, Zenon
  <1>3. s \in 1 .. b
    BY <1>2, StartsAreFinite, Zenon
  <1>4. IsFirst(end, n, s, Positions(text, {NEWLINE, NUL}))
    <2>1. s \in 1 .. n + 1
      BY <1>1, <1>2, <1>3
    <2> QED
      BY <2>1, FirstOfIsFirst, Zenon DEF LineEnd
  <1> HIDE DEF n, b
  <1>5. end \in s .. n + 1 /\ (end <= n => text[end] \in {NEWLINE, NUL})
    BY <1>1, <1>3, <1>4 DEF IsFirst, Positions
  <1>6. \A r \in s .. end - 1 : text[r] # NEWLINE /\ text[r] # NUL
    BY <1>1, <1>2, <1>3, <1>4, <1>5 DEF IsFirst, Positions
  <1>7. end <= b + 1 /\ s \in Int /\ end \in Int /\ s <= end /\ 1 <= s /\ end - 1 <= n
    <2>1. b \in Nat /\ n \in Nat /\ b <= n /\ s \in Nat /\ 1 <= s /\ s <= b
      BY <1>1, <1>2, <1>3
    <2>2. end \in Nat /\ s <= end /\ end <= n + 1
      BY <1>5, <2>1
    <2>3. end > b + 1 => b < n /\ b + 1 \in s .. end - 1
      BY <2>1, <2>2
    <2>4. ~(end > b + 1)
      BY <1>2, <1>6, <2>3
    <2> QED
      BY <2>1, <2>2, <2>4
  <1>8. end <= b => text[end] = NEWLINE
    BY <1>1, <1>2, <1>3, <1>5
  <1>9. LineFrom(s) = s .. end - 1
    <2>1. ASSUME NEW i \in Body, s <= i, \A j \in s .. i : text[j] # NEWLINE
          PROVE  i \in s .. end - 1
      <3>1. SUFFICES ASSUME end <= i PROVE FALSE
        BY <1>1, <1>2, <1>3, <1>5, <2>1
      <3>2. end \in s .. i /\ end <= b
        BY <1>1, <1>2, <1>3, <1>5, <2>1, <3>1
      <3> QED
        BY <1>8, <2>1, <3>2
    <2>2. ASSUME NEW i \in s .. end - 1
          PROVE  i \in Body /\ s <= i /\ \A j \in s .. i : text[j] # NEWLINE
      BY <1>1, <1>2, <1>3, <1>5, <1>6, <1>7
    <2> QED
      BY <2>1, <2>2 DEF LineFrom
  <1>10. m \in Nat /\ Cardinality(LineFrom(s)) = m
    <2>1. Cardinality(s .. end - 1) = IF s > end - 1 THEN 0 ELSE (end - 1) - s + 1
      <3>1. end - 1 \in Int
        BY <1>7
      <3> QED
        BY <1>7, <3>1, FS_Interval, Zenon
    <2>2. m \in Nat /\ Cardinality(s .. end - 1) = m
      BY <1>7, <2>1
    <2> QED
      BY <1>9, <2>2, Zenon
  <1>11. sub \in Seq(STRING) /\ Len(sub) = m /\ \A i \in 1 .. m : sub[i] = text[s + i - 1]
    <2>1. s \in Int /\ end - 1 \in Int /\ \A i \in s .. end - 1 : text[i] \in STRING
      <3>1. \A i \in s .. end - 1 : i \in 1 .. n
        BY <1>1, <1>7
      <3> QED
        BY <1>1, <1>7, <3>1
    <2>2. /\ sub \in Seq(STRING)
          /\ Len(sub) = IF s <= end - 1 THEN (end - 1) - s + 1 ELSE 0
          /\ \A i \in 1 .. (end - 1) - s + 1 : sub[i] = text[s + i - 1]
      BY <2>1, SubSeqProperties
    <2>3. (end - 1) - s + 1 = m /\ (IF s <= end - 1 THEN (end - 1) - s + 1 ELSE 0) = m
      BY <1>7
    <2> HIDE DEF sub, m
    <2> QED
      BY <2>2, <2>3, Zenon
  <1>12. LineAt(s) = [k \in 1 .. m |-> text[s + k - 1]]
    BY <1>10, Zenon DEF LineAt
  <1> HIDE DEF sub, m
  <1>13. sub = [k \in 1 .. m |-> sub[k]]
    BY <1>11, LenProperties
  <1>14. LineAt(s) = sub
    BY <1>11, <1>12, <1>13, Zenon
  <1> QED
    <2>1. end \in s .. b + 1
      <3>1. b \in Int
        BY <1>1, <1>2
      <3> QED
        BY <1>7, <3>1
    <2>2. \A r \in s .. end - 1 : text[r] # NEWLINE
      BY <1>6
    <2> QED
      BY <1>8, <1>11, <1>14, <2>1, <2>2, Zenon DEF b, sub

LEMMA TextLineIs ==
  ASSUME text \in Seq(STRING), NEW s \in LineStarts
  PROVE  TextLine(LineNumber(s)) = LineAt(s)
  <1>1. \A r \in LineStarts : LineNumber(r) = LineNumber(s) => r = s
    BY StartsAreFinite, RankIsUnique DEF LineNumber
  <1>2. (CHOOSE r \in LineStarts : LineNumber(r) = LineNumber(s)) = s
    BY <1>1, Zenon
  <1> QED
    BY <1>2, Zenon DEF TextLine

\* The next line, and what is left of the text after it.
LEMMA NextLine ==
  ASSUME text \in Seq(STRING), NEW s \in LineStarts,
         NEW end, end = LineEnd(s),
         NEW q, q = (IF end <= Len(text) /\ text[end] = NEWLINE THEN end + 1 ELSE end)
  PROVE  /\ q \in 1 .. Cardinality(Body) + 1
         /\ q \in LineStarts \/ q = Cardinality(Body) + 1
         /\ LineNumber(s) = Cardinality(Before(LineStarts, s)) + 1
         /\ Cardinality(Before(LineStarts, q)) = Cardinality(Before(LineStarts, s)) + 1
  <1> DEFINE n == Len(text)
             b == Cardinality(Body)
  <1>1. n \in Nat /\ b \in 0 .. n /\ Body = 1 .. b /\ (b < n => text[b + 1] = NUL)
    BY LenProperties, BodyIsInterval, Zenon
  <1>2. /\ end \in s .. b + 1
        /\ end <= b => text[end] = NEWLINE
        /\ \A r \in s .. end - 1 : text[r] # NEWLINE
    BY LineIsItsSpan, Zenon
  <1>3. s \in 1 .. b
    BY <1>1, StartsAreFinite, Zenon
  <1>4. NUL # NEWLINE
    BY DEF NUL, NEWLINE
  <1> HIDE DEF n, b
  <1>5. \/ end <= b /\ q = end + 1 /\ text[end] = NEWLINE
        \/ end = b + 1 /\ q = b + 1
    BY <1>1, <1>2, <1>3, <1>4 DEF n
  <1>6. q \in 1 .. b + 1 /\ s < q
    BY <1>1, <1>2, <1>3, <1>5
  <1>7. q \in LineStarts \/ q = b + 1
    <2>1. SUFFICES ASSUME q # b + 1 PROVE q \in LineStarts
      OBVIOUS
    <2>2. q \in Body /\ q - 1 = end
      BY <1>1, <1>2, <1>3, <1>5, <1>6, <2>1
    <2> QED
      BY <1>5, <2>1, <2>2 DEF LineStarts
  <1>8. LineStarts \in SUBSET (1 .. b) /\ IsFiniteSet(LineStarts)
    BY <1>1, StartsAreFinite, Zenon
  <1>9. Before(LineStarts, q) = Before(LineStarts, s) \cup {s}
    <2>1. ASSUME NEW r \in LineStarts, s < r, r < q PROVE FALSE
      <3>1. r \in 1 .. b /\ r # 1 /\ r - 1 \in s .. end - 1
        BY <1>1, <1>2, <1>3, <1>5, <1>8, <2>1
      <3> QED
        BY <1>2, <3>1 DEF LineStarts
    <2>2. \A r \in LineStarts : r < q <=> r < s \/ r = s
      <3>1. s \in Int /\ q \in Int /\ s < q /\ \A r \in LineStarts : r \in Int
        BY <1>1, <1>3, <1>6, <1>8
      <3> QED
        BY <2>1, <3>1
    <2> QED
      BY <2>2 DEF Before
  <1>10. AsFarAs(LineStarts, s) = Before(LineStarts, s) \cup {s}
    <2>1. \A r \in LineStarts : r <= s <=> r < s \/ r = s
      BY <1>1, <1>3, <1>8
    <2> QED
      BY <2>1 DEF Before, AsFarAs
  <1>11. Before(LineStarts, s) \in SUBSET LineStarts /\ s \notin Before(LineStarts, s)
    BY <1>1, <1>3 DEF Before
  <1>12. IsFiniteSet(Before(LineStarts, s))
    BY <1>8, <1>11, FS_Subset
  <1>13. Cardinality(Before(LineStarts, s) \cup {s}) = Cardinality(Before(LineStarts, s)) + 1
    BY <1>11, <1>12, FS_AddElement
  <1>14. LineNumber(s) = Cardinality(AsFarAs(LineStarts, s))
    BY Zenon DEF LineNumber, AsFarAs
  <1> QED
    BY <1>6, <1>7, <1>9, <1>10, <1>13, <1>14, Zenon DEF b
-----------------------------------------------------------------------------
(* From text to words.                                                     *)

\* What has been taken of the text: the lines before p, in their order.
LinesInv ==
  /\ text \in Seq(STRING)
  /\ p \in 1 .. Cardinality(Body) + 1
  /\ p \in LineStarts \/ p = Cardinality(Body) + 1
  /\ Len(source) = Cardinality(Before(LineStarts, p))
  /\ \A i \in DOMAIN source :
       \E s \in LineStarts : LineNumber(s) = i /\ source[i] = scan(LineAt(s))

TextInv == AsmInv /\ ImageInv /\ LinesInv

LEMMA InitTextInv == TextInit => TextInv
  <1> SUFFICES ASSUME TextInit PROVE TextInv
    OBVIOUS
  <1>1. AsmInv /\ ImageInv
    BY InitAsmInv, InitImageInv DEF TextInit
  <1>2. text \in Seq(STRING) /\ source = <<>> /\ p = 1
    BY TextAssumption DEF TextInit, AsmInit
  <1> DEFINE b == Cardinality(Body)
  <1>3. b \in Nat /\ Body = 1 .. b /\ LineStarts \in SUBSET Nat
    <2>1. Len(text) \in Nat
      BY <1>2, LenProperties
    <2> QED
      BY <1>2, <2>1, BodyIsInterval, StartsAreFinite
  <1>4. LineStarts \in SUBSET Body /\ (1 \in Body => 1 \in LineStarts)
    BY DEF LineStarts
  <1>5. p \in 1 .. b + 1 /\ (p \in LineStarts \/ p = b + 1)
    <2> HIDE DEF b
    <2> QED
      BY <1>2, <1>3, <1>4
  <1>6. Cardinality(Before(LineStarts, p)) = 0
    <2>1. Before(LineStarts, p) = {}
      <3> HIDE DEF b
      <3>1. \A s \in LineStarts : s \in Nat /\ 1 <= s
        BY <1>3, <1>4
      <3> QED
        BY <1>2, <3>1 DEF Before
    <2> QED
      BY <2>1, FS_EmptySet
  <1>7. Len(source) = 0 /\ DOMAIN source = {}
    BY <1>2
  <1> QED
    BY <1>1, <1>2, <1>5, <1>6, <1>7 DEF TextInv, LinesInv

\* A line that is only appended changes nothing of what was said of the others.
LEMMA AppendKeepsImage ==
  ASSUME AsmInv, ImageInv, line_no = Len(source),
         NEW l \in Line, source' = Append(source, l),
         UNCHANGED <<line_no, imageVars, errorVars>>
  PROVE  AsmInv' /\ ImageInv'
  <1>1. /\ source \in Seq(Line) /\ Len(source) \in Nat /\ line_no \in Nat
        /\ source' \in Seq(Line) /\ Len(source') = line_no + 1
        /\ \A i \in 1 .. line_no : source'[i] = source[i]
    <2>1. source \in Seq(Line)
      BY DEF AsmInv, AsmTypeOK
    <2> QED
      BY <2>1, LenProperties, AppendProperties
  <1>2. UNCHANGED <<line_no, memory, assigned, start_address, has_start_address,
                    errors, error_capacity, lost>>
    BY DEF imageVars, errorVars
  <1>3. AsmInv'
    <2>1. line_no' \in 0 .. Len(source')
      BY <1>1, <1>2
    <2> QED
      BY <1>1, <1>2, <2>1 DEF AsmInv, AsmTypeOK, ImageHasNoSpacer, ErrorsFitTheirBuffer
  <1> DEFINE First(i) == WellFormed(source[i]) /\ ~Repeats(i)
             FirstNow(i) ==
               /\ WellFormed(source'[i])
               /\ ~(/\ source'[i].form \in {"start", "dw", "instruction"}
                    /\ \E j \in 1 .. i - 1 :
                         WellFormed(source'[j]) /\ SameTarget(source'[j], source'[i]))
  <1>4. Accepted = {i \in 1 .. line_no : First(i)} /\ Accepted \in SUBSET (1 .. line_no)
    BY DEF Accepted
  <1>5. Accepted' = {i \in 1 .. line_no : FirstNow(i)}
    BY <1>2 DEF Accepted, Repeats, WellFormed, SameTarget
  <1>6. \A i \in 1 .. line_no : First(i) = FirstNow(i)
    <2>1. \A i \in 1 .. line_no : \A j \in 1 .. i - 1 : j \in 1 .. line_no
      BY <1>1
    <2> QED
      BY <1>1, <2>1, Zenon DEF Repeats
  <1> HIDE DEF First, FirstNow
  <1>7. Accepted' = Accepted
    BY <1>4, <1>5, <1>6
  <1>8. ImageHoldsAcceptedLines'
    <2>1. \A i \in Accepted : source'[i] = source[i]
      BY <1>1, <1>4
    <2>2. \A word, k : ReadsBack(word, k)' = ReadsBack(word, k)
      BY DEF ReadsBack
    <2>3. ASSUME NEW a \in Address
          PROVE  /\ assigned[a] <=> \E i \in Accepted :
                                     source'[i].form # "start" /\ source'[i].location = {a}
                 /\ ~assigned[a] => memory[a] = 0
      BY <2>1, Zenon DEF ImageInv, ImageHoldsAcceptedLines
    <2>4. has_start_address <=> \E i \in Accepted : source'[i].form = "start"
      BY <2>1, Zenon DEF ImageInv, ImageHoldsAcceptedLines
    <2>5. ASSUME NEW i \in Accepted
          PROVE  IF source'[i].form = "start" THEN source'[i].address = {start_address}
                 ELSE \A a \in source'[i].location : ReadsBack(memory[a], source'[i])
      BY <2>1, Zenon DEF ImageInv, ImageHoldsAcceptedLines
    <2>6. /\ assigned' = assigned /\ memory' = memory
          /\ has_start_address' = has_start_address /\ start_address' = start_address
      BY <1>2
    <2> QED
      BY <1>7, <2>2, <2>3, <2>4, <2>5, <2>6, Zenon DEF ImageHoldsAcceptedLines
  <1>9. EarlierLinesTake'
    BY <1>1, <1>2 DEF ImageInv, EarlierLinesTake, Taken, IsAssigned, WellFormed
  <1>10. EveryLineIsAccountedFor'
    BY <1>1, <1>2, <1>7 DEF ImageInv, EveryLineIsAccountedFor
  <1> QED
    BY <1>3, <1>8, <1>9, <1>10 DEF ImageInv

LEMMA ScansLineKeeps ==
  ASSUME TextInv, ScansLine
  PROVE  TextInv'
  <1> DEFINE b == Cardinality(Body)
             end == LineEnd(p)
             l == scan(LineAt(p))
  <1>1. /\ text \in Seq(STRING) /\ p \in 1 .. b + 1
        /\ p \in LineStarts \/ p = b + 1
        /\ Len(source) = Cardinality(Before(LineStarts, p))
        /\ \A i \in DOMAIN source :
             \E s \in LineStarts : LineNumber(s) = i /\ source[i] = scan(LineAt(s))
    BY DEF TextInv, LinesInv
  <1>2. /\ line_no = Len(source)
        /\ p \in DOMAIN text /\ text[p] # NUL
        /\ source' = Append(source, scan(SubSeq(text, p, end - 1)))
        /\ p' = IF end <= Len(text) /\ text[end] = NEWLINE THEN end + 1 ELSE end
        /\ UNCHANGED <<line_no, imageVars, errorVars, text>>
    BY Zenon DEF ScansLine, EndsText, LineEnd
  <1>3. p \in LineStarts
    <2>1. Len(text) \in Nat /\ DOMAIN text = 1 .. Len(text)
      BY <1>1, LenProperties
    <2>2. b \in 0 .. Len(text) /\ (b < Len(text) => text[b + 1] = NUL)
      BY <1>1, BodyIsInterval, Zenon
    <2> HIDE DEF b
    <2> QED
      BY <1>1, <1>2, <2>1, <2>2
  <1>4. LineAt(p) = SubSeq(text, p, end - 1) /\ LineAt(p) \in Seq(STRING)
    BY <1>1, <1>3, LineIsItsSpan, Zenon
  <1>5. l \in Line /\ source' = Append(source, l)
    BY <1>2, <1>4, ScanMeansItsText, Zenon
  <1>6. /\ p' \in 1 .. b + 1
        /\ p' \in LineStarts \/ p' = b + 1
        /\ LineNumber(p) = Len(source) + 1
        /\ Cardinality(Before(LineStarts, p')) = Len(source) + 1
    BY <1>1, <1>2, <1>3, NextLine, Zenon
  <1> HIDE DEF b, l
  <1>7. AsmInv' /\ ImageInv'
    BY <1>2, <1>5, AppendKeepsImage DEF TextInv
  <1>8. /\ source \in Seq(Line) /\ Len(source) \in Nat /\ DOMAIN source = 1 .. Len(source)
        /\ source' \in Seq(Line) /\ Len(source') = Len(source) + 1
        /\ DOMAIN source' = 1 .. Len(source) + 1
        /\ source'[Len(source) + 1] = l
        /\ \A i \in DOMAIN source : source'[i] = source[i]
    <2>1. source \in Seq(Line)
      BY DEF TextInv, AsmInv, AsmTypeOK
    <2> QED
      BY <1>5, <2>1, LenProperties, AppendProperties
  <1>9. ASSUME NEW i \in DOMAIN source'
        PROVE  \E s \in LineStarts : LineNumber(s) = i /\ source'[i] = scan(LineAt(s))
    <2>1. CASE i \in DOMAIN source
      BY <1>1, <1>8, <2>1, Zenon
    <2>2. CASE i = Len(source) + 1
      BY <1>3, <1>6, <1>8, <2>2, Zenon DEF l
    <2>3. i \in DOMAIN source \/ i = Len(source) + 1
      BY <1>8, <1>9
    <2> QED
      BY <2>1, <2>2, <2>3
  <1>10. /\ Body' = Body /\ LineStarts' = LineStarts
         /\ \A s \in LineStarts : LineNumber(s)' = LineNumber(s) /\ LineAt(s)' = LineAt(s)
    BY <1>2 DEF Body, LineStarts, LineNumber, LineAt, LineFrom
  <1>11. LinesInv'
    BY <1>1, <1>2, <1>6, <1>8, <1>9, <1>10, Zenon DEF LinesInv, b
  <1> QED
    BY <1>7, <1>11 DEF TextInv

LEMMA NextTextInv == TextInv /\ [TextNext]_textVars => TextInv'
  <1> SUFFICES ASSUME TextInv, [TextNext]_textVars PROVE TextInv'
    OBVIOUS
  <1>1. ASSUME [AsmNext]_asmVars, UNCHANGED <<text, p>>, UNCHANGED source PROVE TextInv'
    <2>1. AsmInv' /\ ImageInv'
      BY <1>1, NextAsmInv, NextImageInv DEF TextInv
    <2>2. UNCHANGED source /\ UNCHANGED text /\ UNCHANGED p
      BY <1>1
    <2>3. /\ Body' = Body /\ LineStarts' = LineStarts
          /\ \A s \in LineStarts : LineNumber(s)' = LineNumber(s) /\ LineAt(s)' = LineAt(s)
      BY <2>2 DEF Body, LineStarts, LineNumber, LineAt, LineFrom
    <2>4. LinesInv'
      BY <2>2, <2>3, Zenon DEF TextInv, LinesInv
    <2> QED
      BY <2>1, <2>4 DEF TextInv
  <1>2. CASE ScansLine
    BY <1>2, ScansLineKeeps
  <1>3. CASE AssemblesLine
    <2>1. AsmTypeOK /\ AsmNext
      BY <1>3 DEF AssemblesLine, TextInv, AsmInv
    <2>2. UNCHANGED source
      BY <2>1, StepKinds DEF Advances, asmVars
    <2> QED
      BY <1>1, <1>3, <2>1, <2>2 DEF AssemblesLine
  <1>4. CASE UNCHANGED textVars
    BY <1>1, <1>4 DEF textVars, asmVars
  <1> QED
    BY <1>2, <1>3, <1>4 DEF TextNext, TextDone

LEMMA TextInvAlways == TextSpec => []TextInv
  BY InitTextInv, NextTextInv, PTL DEF TextSpec

LEMMA SourceIsText ==
  ASSUME TextInv, NEW i \in DOMAIN source
  PROVE  /\ TextLine(i) \in Seq(STRING)
         /\ source[i] = scan(TextLine(i))
         /\ MeansItsText(source[i], TextLine(i))
         /\ ColumnsStand(source[i], TextLine(i))
  <1>1. text \in Seq(STRING)
    BY DEF TextInv, LinesInv
  <1>2. PICK s \in LineStarts : LineNumber(s) = i /\ source[i] = scan(LineAt(s))
    BY Zenon DEF TextInv, LinesInv
  <1>3. TextLine(i) = LineAt(s) /\ LineAt(s) \in Seq(STRING)
    BY <1>1, <1>2, TextLineIs, LineIsItsSpan, Zenon
  <1> QED
    BY <1>2, <1>3, ScanMeansItsText, Zenon

\* For every text: the assembler takes each of its lines once and in order, and
\* makes of it what it says to a reader (asm.c:17-104, 133-155, types.h:177-203).
THEOREM LinesAlwaysMeanTheirText == TextSpec => []LinesMeanTheirText
  <1>1. TextInv => LinesMeanTheirText
    <2> SUFFICES ASSUME TextInv PROVE LinesMeanTheirText
      OBVIOUS
    <2> DEFINE b == Cardinality(Body)
               n == Cardinality(LineStarts)
               taken == Before(LineStarts, p)
    <2>1. /\ text \in Seq(STRING) /\ p \in 1 .. b + 1 /\ (p \in LineStarts \/ p = b + 1)
          /\ Len(source) = Cardinality(taken)
      BY DEF TextInv, LinesInv
    <2>2. b \in Nat /\ Body = 1 .. b
      <3>1. Len(text) \in Nat
        BY <2>1, LenProperties
      <3> QED
        BY <2>1, <3>1, BodyIsInterval
    <2>3. LineStarts \in SUBSET Body /\ IsFiniteSet(LineStarts)
      BY <2>1, StartsAreFinite
    <2>4. taken \in SUBSET LineStarts
      BY DEF Before
    <2>5. Cardinality(taken) <= n /\ (n = Cardinality(taken) => LineStarts = taken)
      BY <2>3, <2>4, FS_Subset
    <2>6. p > b <=> LineStarts = taken
      <3> HIDE DEF b
      <3>1. CASE p \in LineStarts
        <4>1. p \in 1 .. b
          BY <2>2, <2>3, <3>1
        <4>2. p \notin taken
          BY <2>2, <4>1 DEF Before
        <4> QED
          BY <2>2, <3>1, <4>1, <4>2
      <3>2. CASE p = b + 1
        <4>1. \A s \in LineStarts : s < p
          BY <2>2, <2>3, <3>2
        <4> QED
          BY <2>2, <3>2, <4>1 DEF Before
      <3> QED
        BY <2>1, <3>1, <3>2
    <2>7. \A i \in DOMAIN source : MeansItsText(source[i], TextLine(i))
      BY SourceIsText
    <2> HIDE DEF taken
    <2>8. p > b <=> Len(source) = n
      BY <2>1, <2>5, <2>6, Zenon
    <2>9. Len(source) <= n
      BY <2>1, <2>5
    <2> QED
      BY <2>7, <2>8, <2>9, Zenon DEF LinesMeanTheirText
  <1> QED
    BY <1>1, TextInvAlways, PTL

-----------------------------------------------------------------------------
(* Errors: where they point.                                               *)

Leftmost(faults) == CHOOSE k \in faults : \A j \in faults : k <= j

PointsAt(i, column) ==
  column = IF Faults(i) = {} THEN 1 ELSE FieldStart(TextLine(i), Leftmost(Faults(i)))

LEMMA LeftmostIs ==
  ASSUME NEW faults \in SUBSET Nat, NEW k \in faults, \A j \in faults : k <= j
  PROVE  Leftmost(faults) = k
  <1>1. \A j \in faults : (\A i \in faults : j <= i) => j = k
    OBVIOUS
  <1> QED
    BY <1>1, Zenon DEF Leftmost

\* What the assembler finds fault with in a line is what a reader of its fields
\* f does, when there are c of them.
FaultOf(f, c, repeats, k) ==
  \/ k = 4
  \/ k = 1 /\ repeats
  \/ k = 2 /\ c = 2 /\ f[1] = START /\ AddressNamed(f[2]) = {}
  \/ /\ c = 3
     /\ \/ k = 1 /\ AddressNamed(f[1]) = {}
        \/ k = 2 /\ f[2] # DW /\ OpcodeNamed(f[2]) = {}
        \/ k = 3 /\ f[2] = DW /\ NumberNamed(f[3]) \cap Number = {}
        \/ k = 3 /\ f[2] # DW /\ AddressNamed(f[3]) = {}

LEMMA FaultsOfFields ==
  ASSUME NEW c \in Nat, NEW f, NEW l \in Line, SaysFields(l, c, f),
         NEW repeats \in BOOLEAN,
         repeats => l.form \in {"start", "dw", "instruction"},
         NEW k \in 1 .. c
  PROVE  FaultOf(f, c, repeats, k) <=> k \in 1 .. 4 /\ FaultIn(l, repeats, k)
  <1>1. CASE c > 3
    <2>1. l.form = "too_many_fields"
      BY <1>1 DEF SaysFields
    <2>2. ~repeats
      BY <2>1
    <2> QED
      BY <1>1, <2>1, <2>2 DEF FaultOf, FaultIn
  <1>2. CASE c = 3 /\ f[2] = DW
    <2>1. l.form = "dw" /\ l.location = AddressNamed(f[1]) /\ l.value = NumberNamed(f[3])
      BY <1>2 DEF SaysFields
    <2> QED
      BY <1>2, <2>1 DEF FaultOf, FaultIn
  <1>3. CASE c = 3 /\ f[2] # DW
    <2>1. /\ l.form = "instruction" /\ l.location = AddressNamed(f[1])
          /\ l.opcode = OpcodeNamed(f[2]) /\ l.operand = AddressNamed(f[3])
      BY <1>3 DEF SaysFields
    <2> QED
      BY <1>3, <2>1 DEF FaultOf, FaultIn
  <1>4. CASE c = 2 /\ f[1] = START
    <2>1. l.form = "start" /\ l.address = AddressNamed(f[2])
      BY <1>4 DEF SaysFields
    <2> QED
      BY <1>4, <2>1 DEF FaultOf, FaultIn
  <1>5. CASE c = 1 \/ (c = 2 /\ f[1] # START)
    <2>1. l.form \notin {"start", "dw", "instruction", "too_many_fields"}
      BY <1>5 DEF SaysFields
    <2> QED
      BY <1>5, <2>1 DEF FaultOf, FaultIn
  <1> QED
    BY <1>1, <1>2, <1>3, <1>4, <1>5

\* A line has the fields at which it may be at fault.
LEMMA FaultsAreFields ==
  ASSUME NEW c \in Nat, NEW f, NEW l \in Line, SaysFields(l, c, f),
         NEW repeats, NEW k \in 1 .. 4, FaultIn(l, repeats, k)
  PROVE  k \in 1 .. c
  <1>1. /\ l.form = "too_many_fields" => c > 3
        /\ l.form = "start" => c = 2
        /\ l.form \in {"dw", "instruction"} => c = 3
    BY DEF SaysFields
  <1> QED
    BY <1>1 DEF FaultIn

\* The faults of a line that has been read.
LEMMA FaultsOfLine ==
  ASSUME TextInv, NEW i \in DOMAIN source
  PROVE  Faults(i) = {k \in 1 .. 4 : FaultIn(source[i], Repeats(i), k)}
  <1> DEFINE l == source[i]
             chars == TextLine(i)
             f == FieldsOf(chars)
             c == Cardinality(FieldStarts(chars))
             repeats == Repeats(i)
  <1>1. l \in Line
    <2>1. source \in Seq(Line)
      BY DEF TextInv, AsmInv, AsmTypeOK
    <2> QED
      BY <2>1, LenProperties, ElementOfSeq
  <1>3. /\ chars \in Seq(STRING)
        /\ MeansItsText(l, chars)
    BY SourceIsText, Zenon
  <1>4. c \in Nat /\ f = [k \in 1 .. c |-> f[k]]
    BY <1>3, TokensAreFields, Zenon
  <1>5. Len(f) = c /\ DOMAIN f = 1 .. c
    <2>1. \A g : f = [k \in 1 .. c |-> g[k]] => Len(f) = c /\ DOMAIN f = 1 .. c
      BY <1>4
    <2> QED
      BY <1>4, <2>1, Zenon
  <1>6. repeats => l.form \in {"start", "dw", "instruction"}
    BY Zenon DEF Repeats
  <1>7. repeats \in BOOLEAN
    BY Zenon DEF Repeats
  <1> SUFFICES Faults(i) = {k \in 1 .. 4 : FaultIn(l, repeats, k)}
    OBVIOUS
  <1> HIDE DEF c, f, chars, repeats, l
  <1>8. CASE l.form # "too_long"
    <2>1. SaysFields(l, c, f)
      <3>1. f = <<>> <=> c = 0
        BY <1>4, <1>5
      <3> QED
        BY <1>3, <1>5, <1>8, <3>1, Zenon DEF MeansItsText, SaysFields, f, OpcodeNamed
    <2>2. Len(chars) < LINE_CAPACITY
      <3>1. Len(chars) \in Nat /\ LINE_CAPACITY \in Nat
        BY <1>3, LenProperties, TextAssumption
      <3>2. ~(Len(chars) >= LINE_CAPACITY)
        BY <1>3, <1>8, Zenon DEF MeansItsText
      <3> QED
        BY <3>1, <3>2
    <2>3. Faults(i) = {k \in 1 .. c : FaultOf(f, c, repeats, k)}
      <3>1. \A k : OpcodeNamed(f[2]) = {} <=> \A n \in 0 .. 15 : f[2] # <<OPCODE_LETTERS[n + 1]>>
        BY Zenon DEF OpcodeNamed
      <3> QED
        BY <1>5, <2>2, <3>1, Zenon DEF Faults, FaultOf, f, chars, repeats
    <2>4. \A k \in 1 .. c : FaultOf(f, c, repeats, k) <=> k \in 1 .. 4 /\ FaultIn(l, repeats, k)
      BY <1>1, <1>4, <1>6, <1>7, <2>1, FaultsOfFields, Zenon
    <2>5. \A k \in 1 .. 4 : FaultIn(l, repeats, k) => k \in 1 .. c
      BY <1>1, <1>4, <2>1, FaultsAreFields, Zenon
    <2> QED
      BY <2>3, <2>4, <2>5
  <1>9. CASE l.form = "too_long"
    <2>1. ~(Len(chars) < LINE_CAPACITY)
      <3>1. Len(chars) \in Nat /\ LINE_CAPACITY \in Nat
        BY <1>3, LenProperties, TextAssumption
      <3>2. Len(chars) >= LINE_CAPACITY
        BY <1>3, <1>9, Zenon DEF MeansItsText
      <3> QED
        BY <3>1, <3>2
    <2>2. Faults(i) = {}
      BY <2>1, Zenon DEF Faults, chars
    <2>3. \A k \in 1 .. 4 : ~FaultIn(l, repeats, k)
      BY <1>6, <1>9 DEF FaultIn
    <2> QED
      BY <2>2, <2>3
  <1> QED
    BY <1>8, <1>9

\* A column that leads to the fault of a line points at it.
LEMMA LeadsPoints ==
  ASSUME TextInv, NEW i \in DOMAIN source, NEW column,
         LeadsTo(source[i], Repeats(i), column)
  PROVE  PointsAt(i, column)
  <1> DEFINE l == source[i]
             repeats == Repeats(i)
             faults == {k \in 1 .. 4 : FaultIn(l, repeats, k)}
  <1>1. Faults(i) = faults
    BY FaultsOfLine, Zenon
  <1>2. CASE (\A k \in 1 .. 4 : ~FaultIn(l, repeats, k)) /\ column = 1
    <2>1. faults = {}
      BY <1>2
    <2> QED
      BY <1>1, <1>2, <2>1, Zenon DEF PointsAt
  <1>3. ASSUME NEW k \in 1 .. 4, FaultIn(l, repeats, k),
               \A j \in 1 .. 4 : FaultIn(l, repeats, j) => k <= j, column = l.columns[k]
        PROVE  PointsAt(i, column)
    <2>1. k \in faults /\ faults \in SUBSET Nat /\ \A j \in faults : k <= j
      BY <1>3
    <2> HIDE DEF faults
    <2>2. Leftmost(faults) = k
      BY <2>1, LeftmostIs, Zenon
    <2>3. ColumnsStand(l, TextLine(i))
      BY SourceIsText, Zenon
    <2>4. l.columns[k] = FieldStart(TextLine(i), k)
      BY <1>3, <2>3 DEF FaultIn, ColumnsStand
    <2> QED
      BY <1>1, <1>3, <2>1, <2>2, <2>4, Zenon DEF PointsAt
  <1>4. LeadsTo(l, repeats, column)
    OBVIOUS
  <1> QED
    BY <1>2, <1>3, <1>4 DEF LeadsTo

\* For every text, and wherever memory runs out: an error leads to the leftmost
\* field at fault in its line, with the faults of a line as a reader finds them in
\* its characters and in the lines before it (asm.c:17-41, 146-228).
THEOREM ErrorsAlwaysPointAtTheirFields == TextSpec => []ErrorsPointAtTheirFields
  <1>1. TextInit => ErrorsLead
    BY DEF TextInit, AsmInit, ErrorsLead
  <1>2. TextInv /\ ErrorsLead /\ [TextNext]_textVars => ErrorsLead'
    <2> SUFFICES ASSUME TextInv, ErrorsLead, [TextNext]_textVars PROVE ErrorsLead'
      OBVIOUS
    <2>1. AsmTypeOK /\ ImageInv
      BY DEF TextInv, AsmInv
    <2>2. CASE ScansLine
      <3>1. source \in Seq(Line) /\ line_no = Len(source) /\ UNCHANGED errors
            /\ \E l : source' = Append(source, l)
        BY <2>1, <2>2, Zenon DEF ScansLine, errorVars, AsmTypeOK
      <3>2. \A j \in 1 .. line_no : source'[j] = source[j]
        BY <3>1
      <3> QED
        BY <2>1, <3>1, <3>2, KeepsErrorsLead
    <2>3. CASE AssemblesLine \/ UNCHANGED textVars
      BY <2>1, <2>3, NextErrorsLead DEF AssemblesLine, textVars
    <2>4. CASE TextDone
      BY <2>1, <2>4, NextErrorsLead DEF TextDone, textVars
    <2> QED
      BY <2>2, <2>3, <2>4 DEF TextNext
  <1>3. TextInv /\ ErrorsLead => ErrorsPointAtTheirFields
    <2> SUFFICES ASSUME TextInv, ErrorsLead PROVE ErrorsPointAtTheirFields
      OBVIOUS
    <2>1. ASSUME NEW n \in DOMAIN errors
          PROVE  PointsAt(errors[n].line, errors[n].column)
      <3> DEFINE S == [line : 1 .. line_no, column : Nat \ {0}, message : Messages]
      <3>1. errors \in Seq(S) /\ line_no \in 0 .. Len(source) /\ source \in Seq(Line)
        BY DEF TextInv, AsmInv, AsmTypeOK
      <3>2. errors[n] \in S
        <4> HIDE DEF S
        <4> QED
          BY <3>1, LenProperties, ElementOfSeq
      <3>3. errors[n].line \in DOMAIN source
        BY <3>1, <3>2, LenProperties
      <3> QED
        BY <3>3, LeadsPoints, Zenon DEF ErrorsLead
    <2> QED
      BY <2>1, Zenon DEF PointsAt, Leftmost, ErrorsPointAtTheirFields
  <1> QED
    BY <1>1, <1>2, <1>3, TextInvAlways, PTL DEF TextSpec

LEMMA NamedIsPrinted ==
  ASSUME NEW field, NEW a \in AddressNamed(field)
  PROVE  a \in Address /\ field = lgp30_format_address(a)
  <1>1. a \in Address /\ <<field, a>> \in Spellings
    BY DEF AddressNamed
  <1>2. PICK b \in Address : <<field, a>> = <<lgp30_format_address(b), b>>
    BY <1>1, Zenon DEF Spellings
  <1>3. field = lgp30_format_address(b) /\ a = b
    <2>1. \A x, y, z : <<x, y>> = <<z, b>> => x = z /\ y = b
      OBVIOUS
    <2> QED
      BY <1>2, <2>1, Zenon
  <1> QED
    BY <1>1, <1>3

\* A line of the program that assigns a word spells the word.
LEMMA AcceptedIsSpelled ==
  ASSUME TextInv, NEW i \in Accepted, source[i].form # "start"
  PROVE  \E a \in Address :
           /\ source[i].location = {a}
           /\ AddressNamed(FieldsOf(TextLine(i))[1]) = {a}
           /\ Spelled(FieldsOf(TextLine(i)))
  <1> DEFINE l == source[i]
             f == FieldsOf(TextLine(i))
  <1>1. i \in DOMAIN source /\ l \in Line /\ WellFormed(l)
    <2>1. source \in Seq(Line) /\ line_no \in 0 .. Len(source)
      BY DEF TextInv, AsmInv, AsmTypeOK
    <2>2. i \in 1 .. line_no /\ WellFormed(l)
      BY DEF Accepted
    <2> QED
      BY <2>1, <2>2, LenProperties
  <1>2. l.form \in {"dw", "instruction"} /\ l.location # {}
    BY <1>1 DEF WellFormed
  <1>3. l.location \in Field(Address)
    <2> HIDE DEF l
    <2> QED
      BY <1>1, <1>2 DEF Line
  <1>4. PICK a \in Address : l.location = {a}
    BY <1>2, <1>3 DEF Field
  <1>5. MeansItsText(l, TextLine(i))
    BY <1>1, SourceIsText
  <1>6. /\ l.form # "too_long"
        /\ l.form = "dw" => Len(f) = 3 /\ f[2] = DW /\ l.value = NumberNamed(f[3])
        /\ l.form = "instruction" =>
             /\ Len(f) = 3
             /\ l.opcode = OpcodeNamed(f[2])
             /\ l.operand = AddressNamed(f[3])
        /\ l.location = AddressNamed(f[1])
    <2> HIDE DEF l
    <2>1. l.form # "too_long"
      BY <1>2
    <2> QED
      BY <1>2, <1>5, <2>1, Zenon DEF MeansItsText, OpcodeNamed
  <1>7. assigned[a] /\ ReadsBack(memory[a], l)
    BY <1>2, <1>4, Zenon DEF TextInv, ImageInv, ImageHoldsAcceptedLines
  <1> DEFINE w == memory[a]
  <1> HIDE DEF l, f, w
  <1>8. Spelled(f)
    <2>1. CASE l.form = "dw"
      <3>1. lgp30_word_to_signed(w) \in NumberNamed(f[3])
        BY <1>6, <1>7, <2>1 DEF ReadsBack, w
      <3> QED
        BY <1>4, <1>6, <1>7, <2>1, <3>1, Zenon DEF Spelled, w
    <2>2. CASE l.form = "instruction"
      <3>1. lgp30_opcode(w) \in OpcodeNamed(f[2]) /\ lgp30_instruction_address(w) \in AddressNamed(f[3])
        BY <1>6, <1>7, <2>2 DEF ReadsBack, w
      <3>2. f[2] = <<OPCODE_LETTERS[lgp30_opcode(w) + 1]>>
        BY <3>1, Zenon DEF OpcodeNamed
      <3>3. f[3] = lgp30_format_address(lgp30_instruction_address(w))
        BY <3>1, NamedIsPrinted, Zenon
      <3> QED
        BY <1>4, <1>6, <1>7, <2>2, <3>2, <3>3, Zenon DEF Spelled, w
    <2> QED
      BY <1>2, <2>1, <2>2
  <1>9. AddressNamed(f[1]) = {a}
    BY <1>4, <1>6
  <1> QED
    BY <1>4, <1>8, <1>9, Zenon DEF l, f

\* The entry point is spelled by the line that gives it.
LEMMA AcceptedStartIsSpelled ==
  ASSUME TextInv, NEW i \in Accepted, source[i].form = "start"
  PROVE  /\ FieldsOf(TextLine(i)) = <<START, lgp30_format_address(start_address)>>
         /\ has_start_address
  <1> DEFINE l == source[i]
             f == FieldsOf(TextLine(i))
             c == Cardinality(FieldStarts(TextLine(i)))
             printed == lgp30_format_address(start_address)
  <1>1. i \in DOMAIN source
    <2>1. source \in Seq(Line) /\ line_no \in 0 .. Len(source)
      BY DEF TextInv, AsmInv, AsmTypeOK
    <2>2. i \in 1 .. line_no
      BY DEF Accepted
    <2> QED
      BY <2>1, <2>2, LenProperties
  <1>2. MeansItsText(l, TextLine(i)) /\ TextLine(i) \in Seq(STRING)
    BY <1>1, SourceIsText
  <1>3. Len(f) = 2 /\ f[1] = START /\ l.address = AddressNamed(f[2])
    <2>1. l.form # "too_long"
      OBVIOUS
    <2> QED
      BY <1>2, <2>1, Zenon DEF MeansItsText
  <1>4. l.address = {start_address} /\ has_start_address
    BY Zenon DEF TextInv, ImageInv, ImageHoldsAcceptedLines
  <1>5. f[2] = printed
    BY <1>3, <1>4, NamedIsPrinted
  <1>6. f = <<START, printed>>
    <2>1. c \in Nat /\ f = [k \in 1 .. c |-> f[k]]
      BY <1>2, TokensAreFields, Zenon
    <2> HIDE DEF f, c, printed
    <2>2. c = 2
      <3>1. \A g : f = [k \in 1 .. c |-> g[k]] => Len(f) = c
        BY <2>1
      <3> QED
        BY <1>3, <2>1, <3>1, Zenon
    <2>3. f = [k \in 1 .. 2 |-> f[k]]
      BY <2>1, <2>2, Zenon
    <2>4. \A x, y, g : f = [k \in 1 .. 2 |-> g[k]] /\ f[1] = x /\ f[2] = y => f = <<x, y>>
      OBVIOUS
    <2> QED
      BY <1>3, <1>5, <2>3, <2>4, Zenon
  <1> QED
    BY <1>4, <1>6

\* For every text, and wherever memory runs out: every word of the image is spelled
\* by a line of the text, and every line that spells nothing of it is blank, an
\* entry point, or reported (asm.c:125-235).
THEOREM ImageIsAlwaysSpelledByItsText == TextSpec => []ImageIsSpelledByItsText
  <1>1. TextInv => ImageIsSpelledByItsText
    <2> SUFFICES ASSUME TextInv PROVE ImageIsSpelledByItsText
      OBVIOUS
    <2> DEFINE fields == [i \in 1 .. line_no |-> FieldsOf(TextLine(i))]
               reported == {errors[k].line : k \in DOMAIN errors}
    <2>1. \A i \in 1 .. line_no : i \in DOMAIN source /\ fields[i] = FieldsOf(TextLine(i))
      <3>1. source \in Seq(Line) /\ line_no \in 0 .. Len(source)
        BY DEF TextInv, AsmInv, AsmTypeOK
      <3> QED
        BY <3>1, LenProperties
    <2>2. \A i \in Accepted : i \in 1 .. line_no
      BY DEF Accepted
    <2>3. ASSUME NEW a \in Address, assigned[a]
          PROVE  \E i \in 1 .. line_no : Spelled(fields[i]) /\ AddressNamed(fields[i][1]) = {a}
      <3>1. PICK i \in Accepted : source[i].form # "start" /\ source[i].location = {a}
        BY <2>3, Zenon DEF TextInv, ImageInv, ImageHoldsAcceptedLines
      <3>2. PICK b \in Address :
              /\ source[i].location = {b}
              /\ AddressNamed(FieldsOf(TextLine(i))[1]) = {b}
              /\ Spelled(FieldsOf(TextLine(i)))
        BY <3>1, AcceptedIsSpelled, Zenon
      <3>3. a = b
        BY <3>1, <3>2
      <3> QED
        BY <2>1, <2>2, <3>2, <3>3, Zenon
    <2>4. ASSUME NEW i \in 1 .. line_no
          PROVE  \/ fields[i] = <<>> /\ source[i].form = "blank"
                 \/ Spelled(fields[i])
                 \/ /\ fields[i] = <<START, lgp30_format_address(start_address)>>
                    /\ has_start_address
                 \/ i \in reported \cup lost
      <3>1. reported \cup lost = {j \in 1 .. line_no : source[j].form # "blank"} \ Accepted
        BY Zenon DEF TextInv, ImageInv, EveryLineIsAccountedFor
      <3>2. source[i].form = "blank" \/ i \in Accepted \/ i \in reported \cup lost
        <4> HIDE DEF reported
        <4> QED
          BY <3>1
      <3>3. CASE source[i].form = "blank"
        <4>1. source[i].form # "too_long"
          BY <3>3
        <4> QED
          BY <2>1, <3>3, <4>1, SourceIsText, Zenon DEF MeansItsText
      <3>4. CASE i \in Accepted
        BY <2>1, <3>4, AcceptedIsSpelled, AcceptedStartIsSpelled, Zenon
      <3> QED
        BY <3>2, <3>3, <3>4, Zenon
    <2> QED
      BY <2>3, <2>4, Zenon DEF ImageIsSpelledByItsText
  <1> QED
    BY <1>1, TextInvAlways, PTL
=============================================================================
