--------------------------- MODULE LGP30Arithmetic ---------------------------
(***************************************************************************)
(* The arithmetic instructions (core/cpu.c) as actions on the accumulator. *)
(* Each action takes the operand x that the instruction read from the      *)
(* drum, and does all the instruction does to the accumulator and to the   *)
(* status.  LGP30CPU adds the fetch, the counter and the drum.             *)
(***************************************************************************)
EXTENDS LGP30Types

VARIABLES
  accumulator,  \* the accumulator: a full word, spacer included
  status        \* enum lgp30_status

Status == {"RUNNING", "STOPPED", "OVERFLOW", "WAITING_FOR_IO"}

-----------------------------------------------------------------------------
(* Numbers as a sign and a magnitude.  The magnitude of the most negative  *)
(* number, MAGNITUDE itself, is one more than the others reach.            *)

IsNegative(w) == lgp30_word_to_signed(w) < 0

MagnitudeOf(w) ==
  LET v == lgp30_word_to_signed(w) IN IF v < 0 THEN -v ELSE v

SignedWord(negative, magnitude) ==
  lgp30_word_from_signed(IF negative THEN -magnitude ELSE magnitude)

\* Mutant of overflows_31bit: MAGNITUDE itself is taken for representable.
overflows_31bit_OffByOne(value) == value > MAGNITUDE \/ value < -MAGNITUDE

overflows_31bit(value) == value > MAGNITUDE - 1 \/ value < -MAGNITUDE

\* Where an instruction that may overflow ends: an overflow stops the machine
\* and leaves the accumulator alone.
Settle(overflows, result) ==
  /\ status' = IF overflows THEN "OVERFLOW" ELSE "RUNNING"
  /\ accumulator' = IF overflows THEN accumulator ELSE result

-----------------------------------------------------------------------------
(* The instructions.                                                       *)

\* Mutant of Add: an overflow leaves its wrapped sum in the accumulator.
Add_StoresWrapped(x) ==
  LET sum == lgp30_word_to_signed(accumulator) + lgp30_word_to_signed(x)
  IN /\ status' = IF overflows_31bit(sum) THEN "OVERFLOW" ELSE "RUNNING"
     /\ accumulator' = lgp30_word_from_signed(sum)

Add(x) ==
  LET sum == lgp30_word_to_signed(accumulator) + lgp30_word_to_signed(x)
  IN Settle(overflows_31bit(sum), lgp30_word_from_signed(sum))

Subtract(x) ==
  LET difference == lgp30_word_to_signed(accumulator) - lgp30_word_to_signed(x)
  IN Settle(overflows_31bit(difference), lgp30_word_from_signed(difference))

\* Mutant of ProductHighPart: rounds, as divide does, where it should truncate.
ProductHighPart_Rounded(a, b) == ((2 * a * b + MAGNITUDE) \div (2 * MAGNITUDE)) % MAGNITUDE

\* The most significant magnitude bits of a product, cut to the 30 bits that
\* fit: MAGNITUDE * MAGNITUDE, the square of the most negative number, gives 0.
ProductHighPart(a, b) == ((a * b) \div MAGNITUDE) % MAGNITUDE

MMultiply(x) ==
  /\ accumulator' = SignedWord(IsNegative(accumulator) # IsNegative(x),
                               ProductHighPart(MagnitudeOf(accumulator), MagnitudeOf(x)))
  /\ status' = "RUNNING"

\* Mutant of NMultiply: the result lands on the spacer and not above it.
NMultiply_Unshifted(x) ==
  /\ accumulator' = (MagnitudeOf(accumulator) * MagnitudeOf(x)) % (2 * MAGNITUDE)
  /\ status' = "RUNNING"

\* The least significant 31 bits of the product, put over sign and magnitude.
NMultiply(x) ==
  /\ accumulator' = 2 * ((MagnitudeOf(accumulator) * MagnitudeOf(x)) % (2 * MAGNITUDE))
  /\ status' = "RUNNING"

\* Mutant of Quotient: truncated instead of rounded.
Quotient_Truncated(a, b) == (a * MAGNITUDE) \div b

\* a / b in units of 1 / MAGNITUDE, rounded to the nearest, ties upwards.
Quotient(a, b) ==
  LET numerator == a * MAGNITUDE
      roundsUp  == 2 * (numerator % b) >= b
  IN numerator \div b + (IF roundsUp THEN 1 ELSE 0)

Divide(x) ==
  LET a == MagnitudeOf(accumulator)
      b == MagnitudeOf(x)
  IN Settle(b = 0 \/ Quotient(a, b) >= MAGNITUDE,
            SignedWord(IsNegative(accumulator) # IsNegative(x), Quotient(a, b)))

Extract(x) ==
  /\ accumulator' = BitAnd(accumulator, x)
  /\ status' = "RUNNING"

-----------------------------------------------------------------------------
(* The arithmetic alone: any operand after any accumulator.                *)

arithmeticVars == <<accumulator, status>>

ArithmeticInit == accumulator \in Word /\ status = "RUNNING"

ArithmeticNext ==
  /\ status = "RUNNING"
  /\ \E x \in DrumWord : \/ Add(x) \/ Subtract(x)
                         \/ MMultiply(x) \/ NMultiply(x)
                         \/ Divide(x) \/ Extract(x)

ArithmeticSpec == ArithmeticInit /\ [][ArithmeticNext]_arithmeticVars

-----------------------------------------------------------------------------
(* Properties.                                                             *)

Number == -MAGNITUDE .. MAGNITUDE - 1

\* The type of the arithmetic alone.
ArithmeticTypeOK == accumulator \in Word /\ status \in {"RUNNING", "OVERFLOW"}

\* A binary adder on two numbers in two's complement, as wide as the number
\* field: it overflows when the carries into and out of the sign bit differ.
Adder(u, v, carry) ==
  LET carryIn  == (u % MAGNITUDE) + (v % MAGNITUDE) + carry >= MAGNITUDE
      carryOut == u + v + carry >= 2 * MAGNITUDE
      sum      == (u + v + carry) % (2 * MAGNITUDE)
  IN IF carryIn = carryOut
     THEN status' = "RUNNING" /\ accumulator' = 2 * sum
     ELSE status' = "OVERFLOW" /\ accumulator' = accumulator

\* The signed arithmetic of the code (cpu.c:194-214, types.h:111-124) is that
\* of a two's complement adder on bits 31..1, whatever the spacer: a program
\* overflows exactly when the carries say so, and loses nothing otherwise.
AddsLikeAnAdder ==
  [][\A x \in DrumWord :
       /\ Add(x) => Adder(accumulator \div 2, x \div 2, 0)
       /\ Subtract(x) =>
            Adder(accumulator \div 2, (2 * MAGNITUDE - 1) - (x \div 2), 1)]_arithmeticVars

\* The accumulator holds sign * product \div MAGNITUDE, cut and not rounded,
\* but for `lost` in its top.
TruncatedProduct(x, lost) ==
  LET product == MagnitudeOf(accumulator) * MagnitudeOf(x)
      high == MagnitudeOf(accumulator')
  IN /\ (high + lost * MAGNITUDE) * MAGNITUDE <= product
     /\ product < (high + lost * MAGNITUDE + 1) * MAGNITUDE
     /\ high # 0 => (IsNegative(accumulator') <=> IsNegative(accumulator) # IsNegative(x))

MostNegative(w) == MagnitudeOf(w) = MAGNITUDE

\* "m" and "n" on the same operands give the two halves of one product: the
\* high half with the sign, truncated towards zero, and the low half with a
\* magnitude bit in the place of the sign (cpu.c:216-252).  Of the square of the
\* most negative number, and of no other product, "m" loses the 1 that it is.
MultipliesSplitTheProduct ==
  [][\A x \in DrumWord :
       /\ MMultiply(x) =>
            \E lost \in {0, 1} :
              /\ TruncatedProduct(x, lost)
              /\ lost = 1 <=> MostNegative(accumulator) /\ MostNegative(x)
       /\ NMultiply(x) =>
            /\ accumulator' % 2 = 0
            /\ \E k \in 0 .. MAGNITUDE :
                 MagnitudeOf(accumulator) * MagnitudeOf(x) = 2 * MAGNITUDE * k + (accumulator' \div 2)]_arithmeticVars

\* "No overflow possible (product of two fractions in [0,1) can never reach
\* 1)" (ABOUT.md:176): the high half is the whole of the product's high part.
MMultiplyNeverOverflows == [][\A x \in DrumWord : MMultiply(x) => TruncatedProduct(x, 0)]_arithmeticVars

\* a / b, rounded to a multiple of 1 / MAGNITUDE, is 1 or more or has no value.
QuotientReachesOne(a, b) == 2 * a * MAGNITUDE >= (2 * MAGNITUDE - 1) * b

\* A quotient is the number nearest to the true one, the larger magnitude of
\* two equally near, with the sign of the operands; the machine overflows when
\* rounding carries it to 1, and never otherwise (cpu.c:254-283).
DividesToNearest ==
  [][\A x \in DrumWord : Divide(x) =>
       LET a == MagnitudeOf(accumulator)
           b == MagnitudeOf(x)
           q == MagnitudeOf(accumulator')
           error == 2 * (q * b - a * MAGNITUDE)  \* twice, in units of b / MAGNITUDE
       IN IF QuotientReachesOne(a, b)
          THEN status' = "OVERFLOW" /\ accumulator' = accumulator
          ELSE /\ status' = "RUNNING"
               /\ -b < error /\ error <= b
               /\ q # 0 => (IsNegative(accumulator') <=> IsNegative(accumulator) # IsNegative(x))]_arithmeticVars
=============================================================================
