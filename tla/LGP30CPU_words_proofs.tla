------------------------ MODULE LGP30CPU_words_proofs ------------------------
(***************************************************************************)
(* The machine reads words as WordReader does, for every word size, every  *)
(* tape and every order of calls, "would block" and resets.  A word begun  *)
(* is a stutter of the abstract reader; the call that ends it is the step  *)
(* that reads the whole word.                                              *)
(*                                                                         *)
(* And what follows for a program that reads words: the bootstrap loader   *)
(* stores every word of its tape, one after another, for every layout of   *)
(* the word, every tape that fits on the drum and every answer of the      *)
(* reader.                                                                 *)
(***************************************************************************)
EXTENDS LGP30CPU_words, BootstrapLoader, LGP30CPU_proofs

\* `new` is `old` with the n characters of t after pos shifted in behind it.
ShiftedIn(t, old, pos, n, new) ==
  /\ new \div DIGIT_WEIGHTS[n] = old % DIGIT_WEIGHTS[INPUT_SHIFTS - n]
  /\ \A k \in 1 .. n : (new \div DIGIT_WEIGHTS[n - k]) % 16 = t[pos + k] % 16

NoStops(t, pos, n) == \A k \in 1 .. n : t[pos + k] % 64 # INPUT_STOP_CODE

\* The word in progress began with word_acc in the accumulator and the reader
\* at word_pos, and has taken every character since.
HistoryOfWord ==
  input_in_progress =>
    /\ word_acc \in Word /\ word_pos \in Nat
    /\ tape_pos = word_pos + input_shift_count
    /\ NoStops(tape, word_pos, input_shift_count)
    /\ ShiftedIn(tape, word_acc, word_pos, input_shift_count, accumulator)

\* The inductive invariant of the refinement.
WordInv == IInv /\ HistoryOfWord

-----------------------------------------------------------------------------
(* The digits of a word, and those it pushes out.                          *)

LEMMA ModThenDiv ==
  ASSUME NEW a \in Nat, NEW e \in Nat \ {0}, NEW m \in Nat \ {0}
  PROVE  (a % (e * m)) \div e = (a \div e) % m
  <1> DEFINE q == a \div e
             t == a % e
             s == q \div m
             u == q % m
  <1>1. q \in Nat /\ t \in 0 .. e - 1 /\ a = e * q + t
    BY DivMod, DivNat
  <1>2. s \in Nat /\ u \in 0 .. m - 1 /\ q = m * s + u
    BY <1>1, DivMod, DivNat
  <1> HIDE DEF q, t, s, u
  <1> DEFINE n == e * m
             low == e * u + t
  <1>3. n \in Int /\ n > 0 /\ e * u \in Nat
    BY <1>2
  <1>4. low \in 0 .. n - 1
    <2>1. e * u <= e * (m - 1) /\ e * (m - 1) = e * m - e
      BY <1>2
    <2> QED
      BY <1>1, <1>3, <2>1
  <1>5. a = n * s + low
    <2>1. e * (m * s + u) = (e * m) * s + e * u
      BY <1>2
    <2> QED
      BY <1>1, <1>2, <1>3, <2>1
  <1> HIDE DEF n, low
  <1>6. a % n = low
    BY <1>2, <1>3, <1>4, <1>5, DivUnique
  <1>7. (e * u + t) \div e = u
    BY <1>1, <1>2, DivUnique
  <1> QED
    BY <1>6, <1>7 DEF n, low, u, q

LEMMA ModThenMod ==
  ASSUME NEW a \in Nat, NEW e \in Nat \ {0}
  PROVE  (a % (16 * e)) % e = a % e
  <1> DEFINE q == a \div (16 * e)
             r == a % (16 * e)
             s == r \div e
             t == r % e
  <1>1. q \in Nat /\ r \in Nat /\ a = (16 * e) * q + r
    <2>1. 16 * e \in Int /\ 16 * e > 0
      OBVIOUS
    <2> QED
      BY <2>1, DivMod, DivNat
  <1>2. s \in Nat /\ t \in 0 .. e - 1 /\ r = e * s + t
    BY <1>1, DivMod, DivNat
  <1> HIDE DEF q, r, s, t
  <1>3. a = e * (16 * q + s) + t /\ 16 * q + s \in Int
    <2>1. e * (16 * q + s) = (16 * e) * q + e * s /\ (16 * e) * q \in Int /\ e * s \in Int
      BY <1>1, <1>2
    <2> QED
      BY <1>1, <1>2, <2>1
  <1> DEFINE p == 16 * q + s
  <1>4. (e * p + t) % e = t
    <2>1. p \in Int /\ e \in Int /\ e > 0 /\ t \in 0 .. e - 1
      BY <1>2, <1>3
    <2> HIDE DEF p
    <2> QED
      BY <2>1, DivUnique
  <1> QED
    BY <1>3, <1>4 DEF t, r

\* What a shift leaves above the digits already shifted in.
LEMMA ShiftKeepsTop ==
  ASSUME NEW a \in Word, NEW d \in 0 .. 15, NEW n \in 0 .. INPUT_SHIFTS - 1
  PROVE  (((a * 16) % WORD_SIZE) + d) \div DIGIT_WEIGHTS[n + 1] =
           (a \div DIGIT_WEIGHTS[n]) % DIGIT_WEIGHTS[INPUT_SHIFTS - 1 - n]
  <1> DEFINE V == DIGIT_WEIGHTS[INPUT_SHIFTS - 1]
             e == DIGIT_WEIGHTS[n]
             m == DIGIT_WEIGHTS[INPUT_SHIFTS - 1 - n]
  <1>1. INPUT_SHIFTS \in Nat \ {0} /\ a \in Nat
    BY DigitsAssumption, Layout DEF Word
  <1>2. WORD_SIZE = 16 * V /\ DIGIT_WEIGHTS[n + 1] = 16 * e
    <2>1. INPUT_SHIFTS \in 1 .. INPUT_SHIFTS /\ n + 1 \in 1 .. INPUT_SHIFTS /\ (n + 1) - 1 = n
      BY <1>1
    <2>2. DIGIT_WEIGHTS[INPUT_SHIFTS] = WORD_SIZE
      BY DigitsAssumption
    <2> QED
      BY <2>1, <2>2, Weights
  <1>3. V = e * m /\ V \in Nat \ {0} /\ e \in Nat \ {0} /\ m \in Nat \ {0}
    <2>1. /\ INPUT_SHIFTS - 1 \in 0 .. INPUT_SHIFTS /\ n \in 0 .. INPUT_SHIFTS - 1
          /\ n \in 0 .. INPUT_SHIFTS /\ INPUT_SHIFTS - 1 - n \in 0 .. INPUT_SHIFTS
      BY <1>1
    <2> QED
      BY <2>1, DigitsAssumption
  <1> HIDE DEF V, e, m
  <1> DEFINE q == a \div V
             r == a % V
  <1>4. q \in Nat /\ r \in 0 .. V - 1 /\ a = V * q + r
    BY <1>1, <1>3, DivMod, DivNat
  <1> HIDE DEF q, r
  <1>5. (a * 16) % WORD_SIZE = 16 * r
    <2> DEFINE n16 == 16 * V
               r16 == 16 * r
    <2>1. n16 \in Int /\ n16 > 0 /\ r16 \in 0 .. n16 - 1 /\ a * 16 = n16 * q + r16
      <3>1. (16 * V) * q = 16 * (V * q) /\ V * q \in Int
        BY <1>3, <1>4
      <3> QED
        BY <1>3, <1>4, <3>1
    <2> HIDE DEF n16, r16
    <2>2. (a * 16) % n16 = r16
      BY <1>4, <2>1, DivUnique
    <2> QED
      BY <1>2, <2>2 DEF n16, r16
  <1>6. (16 * r + d) \div (16 * e) = r \div e
    <2>1. r \in Int
      BY <1>4
    <2> QED
      BY <1>3, <2>1, DivDiv
  <1>7. r \div e = (a \div e) % m
    BY <1>1, <1>3, ModThenDiv DEF r
  <1> QED
    BY <1>2, <1>5, <1>6, <1>7 DEF e, m

\* One more character extends what has been shifted in.
LEMMA ShiftOneMore ==
  ASSUME NEW old \in Word, NEW t \in Seq(Nat), NEW pos \in Nat, NEW n \in 0 .. INPUT_SHIFTS - 1,
         pos + n < Len(t), NEW a \in Word, ShiftedIn(t, old, pos, n, a),
         NEW w, w = ((a * 16) % WORD_SIZE) + (t[pos + n + 1] % 16)
  PROVE  ShiftedIn(t, old, pos, n + 1, w)
  <1> DEFINE c == t[pos + n + 1]
             m == DIGIT_WEIGHTS[INPUT_SHIFTS - 1 - n]
  <1>1. INPUT_SHIFTS \in Nat \ {0} /\ DIGIT_WEIGHTS[0] = 1 /\ n \in Nat
    BY DigitsAssumption
  <1>2. c \in Nat /\ c % 16 \in 0 .. 15
    <2>1. pos + n + 1 \in 1 .. Len(t)
      BY <1>1
    <2>2. c \in Nat
      BY <2>1
    <2> HIDE DEF c
    <2> QED
      BY <2>2
  <1>3. w \div DIGIT_WEIGHTS[n + 1] = old % DIGIT_WEIGHTS[INPUT_SHIFTS - (n + 1)]
    <2>1. w \div DIGIT_WEIGHTS[n + 1] = (a \div DIGIT_WEIGHTS[n]) % m
      BY <1>2, ShiftKeepsTop
    <2>2. a \div DIGIT_WEIGHTS[n] = old % DIGIT_WEIGHTS[INPUT_SHIFTS - n]
      BY DEF ShiftedIn
    <2>3. DIGIT_WEIGHTS[INPUT_SHIFTS - n] = 16 * m /\ m \in Nat \ {0}
      <3>1. /\ INPUT_SHIFTS - n \in 1 .. INPUT_SHIFTS /\ (INPUT_SHIFTS - n) - 1 = INPUT_SHIFTS - 1 - n
            /\ INPUT_SHIFTS - 1 - n \in 0 .. INPUT_SHIFTS
        BY <1>1
      <3> QED
        BY <3>1, Weights, DigitsAssumption
    <2>4. old \in Nat
      BY Layout DEF Word
    <2> HIDE DEF m
    <2>5. (old % (16 * m)) % m = old % m
      BY <2>3, <2>4, ModThenMod
    <2>6. INPUT_SHIFTS - (n + 1) = INPUT_SHIFTS - 1 - n
      BY <1>1
    <2> QED
      BY <2>1, <2>2, <2>3, <2>5, <2>6 DEF m
  <1>4. /\ w % 16 = c % 16
        /\ \A k \in 0 .. INPUT_SHIFTS - 2 :
             (w \div DIGIT_WEIGHTS[k + 1]) % 16 = (a \div DIGIT_WEIGHTS[k]) % 16
    BY <1>2, ShiftMovesDigits
  <1>5. w \in Word
    BY <1>2, ShiftedWord
  <1>6. ASSUME NEW k \in 1 .. n + 1
        PROVE  (w \div DIGIT_WEIGHTS[n + 1 - k]) % 16 = t[pos + k] % 16
    <2>1. CASE k = n + 1
      <3>1. n + 1 - k = 0 /\ pos + k = pos + n + 1
        BY <1>1, <2>1
      <3>2. w \div 1 = w
        BY <1>5, DivByOne, Layout DEF Word
      <3> QED
        BY <1>1, <1>4, <3>1, <3>2
    <2>2. CASE k # n + 1
      <3> DEFINE i == n - k
      <3>1. i \in 0 .. INPUT_SHIFTS - 2 /\ n + 1 - k = i + 1 /\ k \in 1 .. n
        BY <1>1, <2>2
      <3>2. (w \div DIGIT_WEIGHTS[i + 1]) % 16 = (a \div DIGIT_WEIGHTS[i]) % 16
        BY <1>4, <3>1
      <3>3. (a \div DIGIT_WEIGHTS[n - k]) % 16 = t[pos + k] % 16
        BY <3>1 DEF ShiftedIn
      <3> QED
        BY <3>1, <3>2, <3>3
    <2> QED
      BY <2>1, <2>2
  <1> QED
    BY <1>3, <1>6 DEF ShiftedIn

\* A word of which nothing has been read is the accumulator as it was.
LEMMA NothingShiftedIn ==
  ASSUME NEW a \in Word, NEW t, NEW pos
  PROVE  ShiftedIn(t, a, pos, 0, a) /\ NoStops(t, pos, 0)
  <1>1. /\ DIGIT_WEIGHTS[0] = 1 /\ DIGIT_WEIGHTS[INPUT_SHIFTS] = WORD_SIZE
        /\ INPUT_SHIFTS - 0 = INPUT_SHIFTS
    BY DigitsAssumption
  <1>2. a \in Int /\ a \in 0 .. WORD_SIZE - 1 /\ WORD_SIZE \in Int /\ WORD_SIZE > 0
    BY Layout DEF Word
  <1>3. a \div 1 = a /\ a % WORD_SIZE = a
    BY <1>2, DivByOne, NearMod
  <1> QED
    BY <1>1, <1>3 DEF ShiftedIn, NoStops

-----------------------------------------------------------------------------
(* The call that asks the reader, in a word that has taken count           *)
(* characters since the accumulator was old and the reader at pos.         *)

WordGoesOn(old, pos) ==
  /\ input_in_progress' /\ ~Halted'
  /\ tape_pos' = pos + input_shift_count'
  /\ NoStops(tape, pos, input_shift_count')
  /\ ShiftedIn(tape, old, pos, input_shift_count', accumulator')

FillsWord(old, pos) ==
  /\ pos + INPUT_SHIFTS <= Len(tape)
  /\ NoStops(tape, pos, INPUT_SHIFTS)
  /\ ShiftedIn(tape, old, pos, INPUT_SHIFTS, accumulator')
  /\ tape_pos' = pos + INPUT_SHIFTS /\ ~Halted'

StopsWord(old, pos, n) ==
  /\ pos + n < Len(tape)
  /\ NoStops(tape, pos, n) /\ tape[pos + n + 1] % 64 = INPUT_STOP_CODE
  /\ ShiftedIn(tape, old, pos, n, accumulator')
  /\ tape_pos' = pos + n + 1 /\ ~Halted'

RunsOut(old, pos, n) ==
  /\ pos + n = Len(tape)
  /\ NoStops(tape, pos, n)
  /\ ShiftedIn(tape, old, pos, n, accumulator')
  /\ tape_pos' = Len(tape) /\ Halted'

WordEnds(old, pos) ==
  /\ ~input_in_progress'
  /\ \/ FillsWord(old, pos)
     \/ \E n \in 0 .. INPUT_SHIFTS - 1 : StopsWord(old, pos, n) \/ RunsOut(old, pos, n)

LEMMA AskingReader ==
  ASSUME IInv, ~Halted, NEW old \in Word, NEW pos \in Nat, NEW count \in 0 .. INPUT_SHIFTS - 1,
         tape_pos = pos + count, NoStops(tape, pos, count),
         ShiftedIn(tape, old, pos, count, accumulator), op_input_continue(count)
  PROVE  WordGoesOn(old, pos) \/ WordEnds(old, pos)
  <1>1. /\ tape \in Seq(Nat) /\ tape_pos \in Nat /\ accumulator \in Word
        /\ INPUT_SHIFTS \in Nat \ {0} /\ count \in Nat
    BY MachineAssumption, DigitsAssumption DEF IInv, TypeOK
  <1>2. CASE ReaderBlocks(count)
    BY <1>2 DEF ReaderBlocks, WordGoesOn, Halted
  <1>3. CASE ReaderAtEnd(count)
    BY <1>1, <1>3 DEF ReaderAtEnd, WordEnds, RunsOut, Halted
  <1>4. CASE ReaderStops(count)
    BY <1>1, <1>4 DEF ReaderStops, Runs, IsStopCode, Character, WordEnds, StopsWord, Halted
  <1>5. CASE ReaderShifts(count)
    <2>1. /\ tape_pos < Len(tape) /\ tape[pos + count + 1] % 64 # INPUT_STOP_CODE
          /\ accumulator' = ((accumulator * 16) % WORD_SIZE) + (tape[pos + count + 1] % 16)
          /\ tape_pos' = pos + count + 1 /\ ~Halted'
          /\ input_shift_count' = count + 1
          /\ input_in_progress' = (count + 1 < INPUT_SHIFTS)
      BY <1>1, <1>5 DEF ReaderShifts, Runs, IsStopCode, Character, Halted
    <2>2. ShiftedIn(tape, old, pos, count + 1, accumulator')
      BY <1>1, <2>1, ShiftOneMore
    <2>3. NoStops(tape, pos, count + 1)
      <3>1. \A k \in 1 .. count + 1 : k \in 1 .. count \/ pos + k = pos + count + 1
        BY <1>1
      <3> QED
        BY <2>1, <3>1 DEF NoStops
    <2>4. CASE count + 1 < INPUT_SHIFTS
      <3>1. input_in_progress'
        BY <2>1, <2>4
      <3> QED
        BY <1>1, <2>1, <2>2, <2>3, <3>1 DEF WordGoesOn
    <2>5. CASE ~(count + 1 < INPUT_SHIFTS)
      <3>1. count + 1 = INPUT_SHIFTS /\ pos + INPUT_SHIFTS <= Len(tape) /\ tape_pos' = pos + INPUT_SHIFTS
        BY <1>1, <2>1, <2>5
      <3>2. ~input_in_progress'
        BY <2>1, <2>5
      <3>3. FillsWord(old, pos)
        BY <2>1, <2>2, <2>3, <3>1 DEF FillsWord
      <3> QED
        BY <3>2, <3>3 DEF WordEnds
    <2> QED
      BY <2>4, <2>5
  <1> QED
    BY <1>2, <1>3, <1>4, <1>5 DEF op_input_continue

-----------------------------------------------------------------------------
(* Every step of the machine is one of the reader, or a stutter.           *)

\* What the abstract reader sees of the machine.
SeenAccumulator == IF input_in_progress THEN word_acc ELSE accumulator
SeenPosition == IF input_in_progress THEN word_pos ELSE tape_pos

LEMMA AbstractWord == Reader!Word = Word
  BY DigitsAssumption DEF Reader!Word, Word

\* The reader stands still while the machine computes, and while a word goes on.
LEMMA StutterStep ==
  ASSUME UNCHANGED tape, SeenAccumulator' = SeenAccumulator, SeenPosition' = SeenPosition,
         Halted' = Halted
  PROVE  UNCHANGED Reader!vars
  BY DEF Reader!vars, SeenAccumulator, SeenPosition

LEMMA ComputeStep ==
  ASSUME UNCHANGED tape, ~Halted, SeenAccumulator' \in Word, SeenPosition' = SeenPosition
  PROVE  Reader!Compute
  <1>1. Halted' \in BOOLEAN
    BY DEF Halted
  <1> QED
    BY <1>1, AbstractWord DEF Reader!Compute, SeenAccumulator, SeenPosition

LEMMA ReadStep ==
  ASSUME UNCHANGED tape, ~Halted, accumulator' \in Word, tape \in Seq(Nat), SeenPosition \in Nat,
         WordEnds(SeenAccumulator, SeenPosition)
  PROVE  Reader!ReadWord
  <1>1. /\ accumulator' \in Reader!Word /\ ~input_in_progress'
        /\ INPUT_SHIFTS \in Nat /\ Len(tape) \in Nat
    BY AbstractWord, DigitsAssumption DEF WordEnds
  <1>2. CASE FillsWord(SeenAccumulator, SeenPosition)
    BY <1>1, <1>2 DEF FillsWord, ShiftedIn, NoStops, SeenAccumulator, SeenPosition,
       Reader!ReadWord, Reader!ReadFullWord, Reader!DigitsAhead, Reader!ShiftsIn, Reader!IsStop
  <1>3. ASSUME NEW n \in 0 .. INPUT_SHIFTS - 1, StopsWord(SeenAccumulator, SeenPosition, n)
        PROVE  Reader!ReadWord
    <2>1. Reader!DigitsAhead(n)
      BY <1>1, <1>3 DEF StopsWord, NoStops, SeenPosition, Reader!DigitsAhead, Reader!IsStop
    <2>2. Reader!ShiftsIn(n)
      BY <1>1, <1>3 DEF StopsWord, ShiftedIn, SeenAccumulator, SeenPosition, Reader!ShiftsIn
    <2>3. Halted' = FALSE
      BY <1>3 DEF StopsWord, Halted
    <2> QED
      BY <1>1, <1>3, <2>1, <2>2, <2>3 DEF StopsWord, SeenPosition,
         Reader!ReadWord, Reader!ReadToStopCode, Reader!IsStop
  <1>4. ASSUME NEW n \in 0 .. INPUT_SHIFTS - 1, RunsOut(SeenAccumulator, SeenPosition, n)
        PROVE  Reader!ReadWord
    <2>1. Reader!DigitsAhead(n)
      BY <1>1, <1>4 DEF RunsOut, NoStops, SeenPosition, Reader!DigitsAhead, Reader!IsStop
    <2>2. Reader!ShiftsIn(n)
      BY <1>1, <1>4 DEF RunsOut, ShiftedIn, SeenAccumulator, SeenPosition, Reader!ShiftsIn
    <2>3. Halted' = TRUE
      BY <1>4 DEF RunsOut, Halted
    <2> QED
      BY <1>1, <1>4, <2>1, <2>2, <2>3 DEF RunsOut, SeenPosition,
         Reader!ReadWord, Reader!ReadToEnd
  <1> QED
    BY <1>2, <1>3, <1>4 DEF WordEnds

\* A reset takes the digits of the word in progress with it.
LEMMA ResetStep ==
  ASSUME WordInv, Reset
  PROVE  Reader!Reset
  <1> DEFINE lost == IF input_in_progress THEN input_shift_count ELSE 0
  <1>1. /\ tape \in Seq(Nat) /\ tape_pos \in Nat /\ tape_pos <= Len(tape) /\ Len(tape) \in Nat
        /\ INPUT_SHIFTS \in Nat \ {0}
    BY MachineAssumption, DigitsAssumption DEF WordInv, IInv, TypeOK
  <1>2. lost \in 0 .. INPUT_SHIFTS - 1 /\ (Halted => lost = 0)
    BY <1>1 DEF WordInv, IInv, TypeOK, InputProtocol
  <1>3. NoStops(tape, SeenPosition, lost) /\ tape_pos = SeenPosition + lost
    BY <1>1 DEF WordInv, HistoryOfWord, SeenPosition, NoStops
  <1>4. /\ accumulator' = 0 /\ ~input_in_progress' /\ ~Halted' /\ tape_pos' = tape_pos
        /\ UNCHANGED tape
    BY DEF Reset, Halted
  <1> HIDE DEF lost
  <1>5. Reader!DigitsAhead(lost)
    BY <1>1, <1>3 DEF NoStops, SeenPosition, Reader!DigitsAhead, Reader!IsStop
  <1> QED
    BY <1>2, <1>3, <1>4, <1>5 DEF Reader!Reset, SeenPosition

\* A call that asks the reader begins a word, goes on with it or ends it.
LEMMA AskingStep ==
  ASSUME WordInv, op_input \/ ContinueInput, History, accumulator' \in Word
  PROVE  HistoryOfWord' /\ (Reader!ReadWord \/ UNCHANGED Reader!vars)
  <1> DEFINE count == IF input_in_progress THEN input_shift_count ELSE 0
  <1>1. /\ tape \in Seq(Nat) /\ tape_pos \in Nat /\ accumulator \in Word
        /\ INPUT_SHIFTS \in Nat \ {0} /\ input_shift_count \in Nat
    BY MachineAssumption, DigitsAssumption DEF WordInv, IInv, TypeOK
  <1>2. ~Halted /\ UNCHANGED tape /\ op_input_continue(count)
    BY DEF op_input, ContinueInput, Executing
  <1>3. /\ SeenAccumulator \in Word /\ SeenPosition \in Nat /\ count \in 0 .. INPUT_SHIFTS - 1
        /\ tape_pos = SeenPosition + count
        /\ NoStops(tape, SeenPosition, count)
        /\ ShiftedIn(tape, SeenAccumulator, SeenPosition, count, accumulator)
    <2>1. CASE input_in_progress
      BY <1>1, <2>1 DEF WordInv, IInv, TypeOK, InputProtocol, HistoryOfWord, SeenAccumulator, SeenPosition
    <2>2. CASE ~input_in_progress
      BY <1>1, <2>2, NothingShiftedIn DEF SeenAccumulator, SeenPosition
    <2> QED
      BY <2>1, <2>2
  <1> HIDE DEF count
  <1>4. CASE WordGoesOn(SeenAccumulator, SeenPosition)
    <2>1. input_in_progress' /\ word_acc' = SeenAccumulator /\ word_pos' = SeenPosition
      BY <1>4 DEF WordGoesOn, History, SeenAccumulator, SeenPosition
    <2>2. HistoryOfWord'
      BY <1>2, <1>3, <1>4, <2>1 DEF WordGoesOn, HistoryOfWord
    <2>3. SeenAccumulator' = SeenAccumulator /\ SeenPosition' = SeenPosition
      BY <2>1 DEF SeenAccumulator, SeenPosition
    <2>4. Halted' = Halted
      BY <1>2, <1>4 DEF WordGoesOn, Halted
    <2> QED
      BY <1>2, <2>2, <2>3, <2>4, StutterStep
  <1>5. CASE WordEnds(SeenAccumulator, SeenPosition)
    BY <1>1, <1>2, <1>3, <1>5, ReadStep DEF WordEnds, HistoryOfWord
  <1> QED
    BY <1>2, <1>3, <1>4, <1>5, AskingReader DEF WordInv

LEMMA NextIsRead ==
  ASSUME WordInv, [NextWithHistory]_<<vars, historyVars>>
  PROVE  WordInv' /\ [Reader!Next]_Reader!vars
  <1>1. IInv'
    BY NextIInv DEF WordInv, NextWithHistory, StepWithHistory, ResetWithHistory, Next
  <1>2. accumulator' \in Word /\ accumulator \in Word
    BY <1>1 DEF WordInv, IInv, TypeOK
  <1>3. CASE (op_input \/ ContinueInput) /\ History
    BY <1>1, <1>2, <1>3, AskingStep DEF WordInv, Reader!Next
  <1>4. CASE \/ op_stop \/ op_bring \/ op_store_address \/ op_return_address
             \/ op_divide \/ op_n_multiply \/ op_m_multiply
             \/ op_print \/ op_extract \/ op_unconditional_transfer \/ op_test
             \/ op_hold_and_store \/ op_clear_and_store \/ op_add \/ op_subtract
    <2>1. ~Halted /\ ~input_in_progress /\ ~input_in_progress' /\ UNCHANGED <<tape, tape_pos>>
      BY <1>4 DEF op_stop, op_bring, op_store_address, op_return_address, op_divide,
         op_n_multiply, op_m_multiply, op_print, op_extract, op_unconditional_transfer, op_test,
         op_hold_and_store, op_clear_and_store, op_add, op_subtract,
         Executing, OperandRead, Stores, Transfers, inputVars
    <2>2. SeenAccumulator' \in Word /\ SeenPosition' = SeenPosition
      BY <1>2, <2>1 DEF SeenAccumulator, SeenPosition
    <2> QED
      BY <1>1, <2>1, <2>2, ComputeStep DEF WordInv, HistoryOfWord, Reader!Next
  <1>5. CASE Reset
    <2>1. ~input_in_progress'
      BY <1>5 DEF Reset
    <2> QED
      BY <1>1, <1>5, <2>1, ResetStep DEF WordInv, HistoryOfWord, Reader!Next
  <1>6. CASE HaltedStep
    <2>1. ~input_in_progress /\ ~input_in_progress' /\ UNCHANGED <<accumulator, tape, tape_pos, status>>
      BY <1>6 DEF HaltedStep, vars, inputVars, WordInv, IInv, InputProtocol
    <2>2. SeenAccumulator' = SeenAccumulator /\ SeenPosition' = SeenPosition /\ Halted' = Halted
      BY <2>1 DEF SeenAccumulator, SeenPosition, Halted
    <2> QED
      BY <1>1, <2>1, <2>2, StutterStep DEF WordInv, HistoryOfWord
  <1>7. CASE UNCHANGED <<vars, historyVars>>
    <2>1. UNCHANGED <<accumulator, tape, tape_pos, status, input_in_progress, input_shift_count,
                      word_acc, word_pos>>
      BY <1>7 DEF vars, inputVars, historyVars
    <2>2. SeenAccumulator' = SeenAccumulator /\ SeenPosition' = SeenPosition /\ Halted' = Halted
      BY <2>1 DEF SeenAccumulator, SeenPosition, Halted
    <2> QED
      BY <1>1, <2>1, <2>2, StutterStep DEF WordInv, HistoryOfWord
  <1> QED
    BY <1>3, <1>4, <1>5, <1>6, <1>7
    DEF NextWithHistory, StepWithHistory, ResetWithHistory, Step

LEMMA InitIsRead ==
  ASSUME InitWithHistory
  PROVE  WordInv /\ Reader!Init
  <1>1. IInv
    BY InitIInv DEF InitWithHistory
  <1> QED
    BY <1>1 DEF InitWithHistory, Init, WordInv, HistoryOfWord, Reader!Init, Halted

\* The machine implements WordReader: whatever the host interleaves, every
\* `i 0000` that ends has read one word, once and in order, and nothing else
\* moves the reader (cpu.c:115-152, 285-294).
THEOREM AlwaysReadsWholeWords == SpecWithHistory => ReadsWholeWords
  <1>1. InitWithHistory => WordInv /\ Reader!Init
    BY InitIsRead
  <1>2. WordInv /\ [NextWithHistory]_<<vars, historyVars>> => WordInv' /\ [Reader!Next]_Reader!vars
    BY NextIsRead
  <1> QED
    BY <1>1, <1>2, PTL DEF SpecWithHistory, ReadsWholeWords, Reader!Spec

-----------------------------------------------------------------------------
(* Instructions as numbers: what the loader computes with its own `c`.     *)

\* The unit of the address added to an instruction gives a number with the same
\* instruction code or the next, to the next address: past the last, the first.
LEMMA NextAddress ==
  ASSUME NEW opcode \in 0 .. 14, NEW address \in Address
  PROVE  LET w == lgp30_make_instruction(opcode, address) + ADDRESS_UNIT
         IN /\ w \in 0 .. 2 * MAGNITUDE - 1
            /\ lgp30_instruction_address(w) = (address + 1) % LGP30_MEMORY_WORDS
  <1> DEFINE O == OPCODE_UNIT
             U == ADDRESS_UNIT
             M == LGP30_MEMORY_WORDS
             w == lgp30_make_instruction(opcode, address) + ADDRESS_UNIT
  <1>1. /\ O \in Nat \ {0} /\ U \in Nat \ {0} /\ M \in Nat \ {0} /\ U * M \in Nat \ {0}
        /\ opcode \in Nat /\ address \in 0 .. M - 1
    BY Layout DEF Address
  <1>2. PICK k \in Nat \ {0} : O = (U * M) * k
    BY <1>1, MultipleIsLarger, LayoutAssumption
  <1>3. 16 * O <= 2 * MAGNITUDE
    <2>1. 16 * O \in Nat \ {0} /\ 2 * MAGNITUDE \in Nat \ {0} /\ (2 * MAGNITUDE) % (16 * O) = 0
      BY <1>1, Layout, LayoutAssumption
    <2> QED
      BY <2>1, MultipleIsLarger
  <1>4. U * M <= O
    <2>1. (U * M) * 1 <= (U * M) * k
      BY <1>1, <1>2
    <2> QED
      BY <1>1, <1>2, <2>1
  <1>5. w = O * opcode + U * (address + 1)
    <2>1. U * (address + 1) = address * U + U
      BY <1>1
    <2> QED
      BY <1>1, <2>1 DEF lgp30_make_instruction
  <1>6. U * (address + 1) \in 0 .. O
    <2>1. U * (address + 1) \in Nat /\ U * (address + 1) <= U * M
      BY <1>1
    <2> QED
      BY <1>1, <1>4, <2>1
  <1> HIDE DEF O, U, M, w
  <1>7. O * opcode \in 0 .. 14 * O
    BY <1>1
  <1>8. w \in 0 .. 2 * MAGNITUDE - 1
    BY <1>1, <1>3, <1>5, <1>6, <1>7, Layout
  <1>9. w \div U = M * (k * opcode) + (address + 1)
    <2>1. k * opcode \in Nat /\ M * (k * opcode) \in Nat
      BY <1>1, <1>2
    <2>2. O * opcode = U * (M * (k * opcode))
      BY <1>1, <1>2
    <2>3. w = U * (M * (k * opcode) + (address + 1)) + 0
      BY <1>1, <1>5, <2>1, <2>2
    <2>4. M * (k * opcode) + (address + 1) \in Int /\ 0 \in 0 .. U - 1
      BY <1>1, <2>1
    <2> QED
      BY <1>1, <2>3, <2>4, DivUnique
  <1>10. (M * (k * opcode) + (address + 1)) % M = (address + 1) % M
    <2>1. k * opcode \in Int
      BY <1>1, <1>2
    <2>2. CASE address + 1 < M
      <3>1. address + 1 \in 0 .. M - 1
        BY <1>1, <2>2
      <3> QED
        BY <1>1, <2>1, <3>1, NearMod, DivUnique
    <2>3. CASE address + 1 = M
      <3>1. M * (k * opcode) + M = M * (k * opcode + 1) + 0 /\ M = M * 1 + 0
        BY <1>1, <2>1
      <3>2. k * opcode + 1 \in Int /\ 0 \in 0 .. M - 1
        BY <1>1, <2>1
      <3> QED
        BY <1>1, <2>3, <3>1, <3>2, DivUnique
    <2> QED
      BY <1>1, <2>2, <2>3
  <1> QED
    BY <1>8, <1>9, <1>10 DEF lgp30_instruction_address, w, U, M

\* An instruction that is given another address is the instruction with it.
LEMMA Redirected ==
  ASSUME NEW opcode \in 0 .. 15, NEW address \in Address, NEW other \in Address
  PROVE  lgp30_mask_spacer(ReplaceAddress(lgp30_make_instruction(opcode, address), other)) =
           lgp30_make_instruction(opcode, other)
  <1>1. ReplaceAddress(lgp30_make_instruction(opcode, address), other) =
          lgp30_make_instruction(opcode, other)
    <2>1. lgp30_instruction_address(lgp30_make_instruction(opcode, address)) = address
      BY InstructionWord
    <2>2. /\ ADDRESS_UNIT \in Int /\ OPCODE_UNIT \in Int /\ opcode \in Int
          /\ address \in Int /\ other \in Int
      BY Layout DEF Address
    <2>3. ADDRESS_UNIT * (other - address) = other * ADDRESS_UNIT - address * ADDRESS_UNIT
      BY <2>2
    <2>4. other * ADDRESS_UNIT \in Int /\ address * ADDRESS_UNIT \in Int /\ opcode * OPCODE_UNIT \in Int
      BY <2>2
    <2> QED
      BY <2>1, <2>3, <2>4 DEF ReplaceAddress, lgp30_make_instruction
  <1>2. lgp30_make_instruction(opcode, other) \in DrumWord
    BY InstructionWord
  <1> QED
    BY <1>1, <1>2, Layout DEF lgp30_mask_spacer, DrumWord, Word

\* Two positive numbers whose sum is one are added as they stand.
LEMMA AddsSmall ==
  ASSUME accumulator \in Nat, NEW x \in Nat, accumulator % 2 = 0, x % 2 = 0,
         accumulator + x < 2 * MAGNITUDE, Add(x)
  PROVE  accumulator' = accumulator + x /\ status' = "RUNNING"
  <1> DEFINE a == accumulator
             sum == (a + x) \div 2
  <1>1. /\ lgp30_word_to_signed(accumulator) = a \div 2 /\ lgp30_word_to_signed(x) = x \div 2
        /\ a \div 2 + x \div 2 = sum /\ sum \in 0 .. MAGNITUDE - 1 /\ 2 * sum = a + x
    BY Layout DEF lgp30_word_to_signed
  <1> HIDE DEF sum, a
  <1>2. ~overflows_31bit(sum)
    BY <1>1, Layout DEF overflows_31bit
  <1>3. lgp30_word_from_signed(sum) = a + x
    <2>1. sum \in 0 .. 2 * MAGNITUDE - 1 /\ 2 * MAGNITUDE \in Int /\ 2 * MAGNITUDE > 0 /\ sum \in Int
      BY <1>1, Layout
    <2>2. sum % (2 * MAGNITUDE) = sum
      BY <2>1, NearMod
    <2> QED
      BY <1>1, <2>2 DEF lgp30_word_from_signed
  <1> QED
    BY <1>1, <1>2, <1>3 DEF Add, Settle, a

-----------------------------------------------------------------------------
(* The words on the drum.                                                  *)

\* Clearing the spacer of a word clears that of its last digit.
LEMMA MaskedDigits ==
  ASSUME NEW w \in Word
  PROVE  /\ lgp30_mask_spacer(w) % 16 = lgp30_mask_spacer(w % 16)
         /\ \A k \in 1 .. INPUT_SHIFTS :
              lgp30_mask_spacer(w) \div DIGIT_WEIGHTS[k] = w \div DIGIT_WEIGHTS[k]
  <1>1. w \in Nat
    BY Layout DEF Word
  <1>2. lgp30_mask_spacer(w) % 16 = lgp30_mask_spacer(w % 16)
    BY <1>1 DEF lgp30_mask_spacer
  <1>3. ASSUME NEW k \in 1 .. INPUT_SHIFTS
        PROVE  lgp30_mask_spacer(w) \div DIGIT_WEIGHTS[k] = w \div DIGIT_WEIGHTS[k]
    <2> DEFINE e == DIGIT_WEIGHTS[k - 1]
               b == w \div 16
               d == w % 16
               d0 == d - (d % 2)
    <2>1. e \in Nat \ {0} /\ DIGIT_WEIGHTS[k] = 16 * e
      <3>1. k - 1 \in 0 .. INPUT_SHIFTS
        BY DigitsAssumption
      <3> QED
        BY <3>1, Weights, DigitsAssumption
    <2>2. b \in Int /\ d \in 0 .. 15 /\ d0 \in 0 .. 15 /\ w = 16 * b + d /\ w - (w % 2) = 16 * b + d0
      BY <1>1
    <2> HIDE DEF e, b, d, d0
    <2>3. (16 * b + d) \div (16 * e) = b \div e /\ (16 * b + d0) \div (16 * e) = b \div e
      BY <2>1, <2>2, DivDiv
    <2> QED
      BY <2>1, <2>2, <2>3 DEF lgp30_mask_spacer
  <1> QED
    BY <1>2, <1>3

\* The first n words of the tape are on the drum.
Kept(n) == \A k \in 1 .. n : IsStored(k)

\* They stay there while their locations do.
LEMMA KeptStays ==
  ASSUME NEW n \in Nat, Kept(n), UNCHANGED tape,
         \A k \in 1 .. n : memory'[LOAD_ADDRESS + k - 1] = memory[LOAD_ADDRESS + k - 1]
  PROVE  Kept(n)'
  BY DEF Kept, IsStored

\* A word read to its end is stored digit by digit.
LEMMA KeepsOneMore ==
  ASSUME NEW n \in Nat, Kept(n), UNCHANGED tape,
         \A k \in 1 .. n : memory'[LOAD_ADDRESS + k - 1] = memory[LOAD_ADDRESS + k - 1],
         NEW w \in Word, NEW base, ShiftedIn(tape, base, n * INPUT_SHIFTS, INPUT_SHIFTS, w),
         memory'[LOAD_ADDRESS + n] = lgp30_mask_spacer(w)
  PROVE  Kept(n + 1)'
  <1>1. Kept(n)'
    BY KeptStays
  <1>2. INPUT_SHIFTS \in Nat \ {0} /\ LOAD_ADDRESS \in Nat /\ w \in Nat
    BY DigitsAssumption, LoaderAssumption, Layout DEF Address, Word
  <1>3. ASSUME NEW i \in 1 .. INPUT_SHIFTS
        PROVE  LET digit == tape[(n * INPUT_SHIFTS) + i] % 16
               IN (lgp30_mask_spacer(w) \div DIGIT_WEIGHTS[INPUT_SHIFTS - i]) % 16 =
                    IF i = INPUT_SHIFTS THEN lgp30_mask_spacer(digit) ELSE digit
    <2> DEFINE digit == tape[(n * INPUT_SHIFTS) + i] % 16
    <2>1. (w \div DIGIT_WEIGHTS[INPUT_SHIFTS - i]) % 16 = digit
      BY DEF ShiftedIn
    <2> HIDE DEF digit
    <2>2. CASE i = INPUT_SHIFTS
      <3>1. INPUT_SHIFTS - i = 0 /\ DIGIT_WEIGHTS[0] = 1
        BY <1>2, <2>2, DigitsAssumption
      <3>2. lgp30_mask_spacer(w) \in Nat
        BY MaskSpacer, Layout DEF DrumWord, Word
      <3>3. w \div 1 = w /\ lgp30_mask_spacer(w) \div 1 = lgp30_mask_spacer(w)
        BY <1>2, <3>2, DivByOne
      <3> QED
        BY <2>1, <2>2, <3>1, <3>3, MaskedDigits DEF digit
    <2>3. CASE i # INPUT_SHIFTS
      <3>1. INPUT_SHIFTS - i \in 1 .. INPUT_SHIFTS
        BY <1>2, <2>3
      <3> QED
        BY <2>1, <2>3, <3>1, MaskedDigits DEF digit
    <2> QED
      BY <2>2, <2>3
  <1>4. IsStored(n + 1)'
    <2>1. (n + 1) - 1 = n /\ LOAD_ADDRESS + (n + 1) - 1 = LOAD_ADDRESS + n
      BY <1>2
    <2> QED
      BY <1>3, <2>1 DEF IsStored
  <1>5. \A k \in 1 .. n + 1 : k \in 1 .. n \/ k = n + 1
    OBVIOUS
  <1> QED
    BY <1>1, <1>4, <1>5 DEF Kept

-----------------------------------------------------------------------------
(* The inductive invariant.  The loader is between two words, in one, has  *)
(* one to store, is on its way back, stepping its `c`, or has halted at    *)
(* the end of the tape; with n words stored when it asked for this one.    *)

Asking(n) ==
  /\ counter \in {0, 1} /\ ~input_in_progress /\ ~Halted
  /\ tape_pos = n * INPUT_SHIFTS
  /\ Kept(n) /\ StoresTo((LOAD_ADDRESS + n) % LGP30_MEMORY_WORDS)

Reading(n) ==
  /\ counter = CLEAR_AND_STORE /\ input_in_progress /\ ~Halted
  /\ tape_pos = n * INPUT_SHIFTS + input_shift_count
  /\ \E base \in Word : ShiftedIn(tape, base, n * INPUT_SHIFTS, input_shift_count, accumulator)
  /\ Kept(n) /\ StoresTo((LOAD_ADDRESS + n) % LGP30_MEMORY_WORDS)

HasWord(n) ==
  /\ counter = CLEAR_AND_STORE /\ ~input_in_progress /\ ~Halted
  /\ LOAD_ADDRESS + n < LGP30_MEMORY_WORDS
  /\ tape_pos = (n + 1) * INPUT_SHIFTS
  /\ \E base \in Word : ShiftedIn(tape, base, n * INPUT_SHIFTS, INPUT_SHIFTS, accumulator)
  /\ Kept(n) /\ StoresTo(LOAD_ADDRESS + n)

Returning(n) ==
  /\ ~input_in_progress /\ ~Halted
  /\ LOAD_ADDRESS + n < LGP30_MEMORY_WORDS
  /\ tape_pos = (n + 1) * INPUT_SHIFTS
  /\ Kept(n + 1)
  /\ \/ counter \in 3 .. 5 /\ StoresTo(LOAD_ADDRESS + n)
     \/ counter = 6 /\ StoresTo((LOAD_ADDRESS + n + 1) % LGP30_MEMORY_WORDS)
  /\ counter = 4 => accumulator = lgp30_make_instruction(13, LOAD_ADDRESS + n)
  /\ counter = 5 => accumulator = lgp30_make_instruction(13, LOAD_ADDRESS + n) + ADDRESS_UNIT

AtEnd(n) ==
  /\ counter = CLEAR_AND_STORE /\ ~input_in_progress /\ status = "STOPPED"
  /\ tape_pos = Len(tape) /\ tape_pos - n * INPUT_SHIFTS \in 0 .. INPUT_SHIFTS - 1
  /\ Kept(n) /\ StoresTo((LOAD_ADDRESS + n) % LGP30_MEMORY_WORDS)

Words == 0 .. LGP30_MEMORY_WORDS - LOAD_ADDRESS

LoaderInv ==
  /\ IInv /\ IsLoader /\ TapeFits
  /\ \E n \in Words : Asking(n) \/ Reading(n) \/ HasWord(n) \/ Returning(n) \/ AtEnd(n)

-----------------------------------------------------------------------------
(* The instruction at the counter is the one the step executes.            *)

LEMMA Executes ==
  ASSUME Step, ~Halted, ~input_in_progress,
         NEW opcode \in 0 .. 15, NEW address \in Address,
         memory[counter] = lgp30_make_instruction(opcode, address)
  PROVE  /\ addr = address /\ UNCHANGED tape
         /\ opcode = 1 => op_bring
         /\ opcode = 2 => op_store_address
         /\ opcode = 4 => op_input
         /\ opcode = 8 => op_print
         /\ opcode = 10 => op_unconditional_transfer
         /\ opcode = 13 => op_clear_and_store
         /\ opcode = 14 => op_add
  <1>1. lgp30_opcode(instr) = opcode /\ addr = address
    BY InstructionWord DEF instr, addr
  <1>2. UNCHANGED tape
    BY DEF Step, HaltedStep, ContinueInput, Executing,
       op_stop, op_bring, op_store_address, op_return_address, op_input, op_divide,
       op_n_multiply, op_m_multiply, op_print, op_extract, op_unconditional_transfer, op_test,
       op_hold_and_store, op_clear_and_store, op_add, op_subtract
  <1> QED
    BY <1>1, <1>2 DEF Step, HaltedStep, ContinueInput, Executing,
       op_stop, op_bring, op_store_address, op_return_address, op_input, op_divide,
       op_n_multiply, op_m_multiply, op_print, op_extract, op_unconditional_transfer, op_test,
       op_hold_and_store, op_clear_and_store, op_add, op_subtract

\* The loader lies below the words it stores, all of it on the drum.
LEMMA LoaderPlace ==
  /\ LOAD_ADDRESS \in Nat /\ LOAD_ADDRESS >= 8
  /\ LGP30_MEMORY_WORDS \in Nat /\ LGP30_MEMORY_WORDS > LOAD_ADDRESS
  /\ 0 .. 7 \subseteq Address
  /\ Words \subseteq Nat
  /\ \A n \in Words : LOAD_ADDRESS + n <= LGP30_MEMORY_WORDS
  /\ INPUT_SHIFTS \in Nat \ {0}
  BY LoaderAssumption, DigitsAssumption, Layout DEF Address, Words

LEMMA NextLocation ==
  ASSUME counter \in 0 .. 6
  PROVE  nextCounter = counter + 1
  <1>1. /\ counter + 1 \in 0 .. LGP30_MEMORY_WORDS - 1 /\ counter + 1 \in Int
        /\ LGP30_MEMORY_WORDS \in Int /\ LGP30_MEMORY_WORDS > 0
    BY LoaderPlace
  <1> QED
    BY <1>1, NearMod DEF nextCounter

\* What every step leaves alone but the store of a word and that of the `c`.
LEMMA MemoryStays ==
  ASSUME NEW n \in Nat, UNCHANGED <<memory, tape>>
  PROVE  /\ Kept(n) => Kept(n)'
         /\ IsLoader => IsLoader'
         /\ TapeFits => TapeFits'
         /\ \A address : StoresTo(address) => StoresTo(address)'
  BY DEF Kept, IsStored, IsLoader, TapeFits, StoresTo

-----------------------------------------------------------------------------
(* The steps.                                                              *)

\* In the middle of a word: the tape has no stop code, so the word goes on, is
\* whole, or the tape is at its end.
LEMMA Asks ==
  ASSUME IInv, TapeFits, ~Halted, NEW n \in Words, NEW base \in Word,
         NEW count \in 0 .. INPUT_SHIFTS - 1,
         tape_pos = n * INPUT_SHIFTS + count,
         ShiftedIn(tape, base, n * INPUT_SHIFTS, count, accumulator),
         Kept(n), StoresTo((LOAD_ADDRESS + n) % LGP30_MEMORY_WORDS),
         op_input_continue(count), counter' = CLEAR_AND_STORE, UNCHANGED tape
  PROVE  AtEnd(n)' \/ Reading(n)' \/ HasWord(n)'
  <1> DEFINE pos == n * INPUT_SHIFTS
  <1>1. /\ tape \in Seq(Nat) /\ Len(tape) \in Nat /\ tape_pos <= Len(tape)
        /\ DOMAIN tape = 1 .. Len(tape) /\ n \in Nat /\ INPUT_SHIFTS \in Nat \ {0} /\ count \in Nat
    BY LoaderPlace, MachineAssumption DEF IInv, TypeOK
  <1>2. pos \in Nat
    BY <1>1
  <1> HIDE DEF pos
  <1>3. NoStops(tape, pos, count) /\ tape_pos = pos + count
    <2>1. \A k \in 1 .. count : pos + k \in 1 .. Len(tape)
      BY <1>1, <1>2 DEF pos
    <2> QED
      BY <1>1, <2>1 DEF NoStops, TapeFits, IsStopCode, pos
  <1>4. /\ Kept(n)' /\ StoresTo((LOAD_ADDRESS + n) % LGP30_MEMORY_WORDS)'
    BY <1>1, MemoryStays DEF op_input_continue
  <1>5. WordGoesOn(base, pos) \/ WordEnds(base, pos)
    BY <1>2, <1>3, AskingReader DEF pos
  <1>6. CASE WordGoesOn(base, pos)
    BY <1>4, <1>6 DEF WordGoesOn, Reading, pos
  <1>7. CASE ~input_in_progress' /\ FillsWord(base, pos)
    <2>1. n + 1 <= LGP30_MEMORY_WORDS - LOAD_ADDRESS
      <3> DEFINE room == LGP30_MEMORY_WORDS - LOAD_ADDRESS
      <3>1. room \in Nat
        BY LoaderPlace
      <3>2. pos + INPUT_SHIFTS <= room * INPUT_SHIFTS
        <4>1. room * INPUT_SHIFTS \in Nat
          BY <1>1, <3>1
        <4> QED
          BY <1>1, <1>2, <1>7, <4>1 DEF FillsWord, TapeFits
      <3> HIDE DEF room
      <3>3. ASSUME room <= n PROVE FALSE
        <4>1. room * INPUT_SHIFTS <= n * INPUT_SHIFTS
          BY <1>1, <3>1, <3>3
        <4> QED
          BY <1>1, <1>2, <3>1, <3>2, <4>1 DEF pos
      <3> QED
        BY <1>1, <3>1, <3>3 DEF room
    <2>2. LOAD_ADDRESS + n < LGP30_MEMORY_WORDS /\ (LOAD_ADDRESS + n) % LGP30_MEMORY_WORDS = LOAD_ADDRESS + n
      <3>1. LOAD_ADDRESS + n \in 0 .. LGP30_MEMORY_WORDS - 1
        BY <1>1, <2>1, LoaderPlace
      <3> QED
        BY <3>1, LoaderPlace, NearMod
    <2>3. tape_pos' = (n + 1) * INPUT_SHIFTS
      BY <1>1, <1>7 DEF FillsWord, pos
    <2> QED
      BY <1>4, <1>7, <2>2, <2>3 DEF FillsWord, HasWord, pos
  <1>8. ASSUME NEW m \in 0 .. INPUT_SHIFTS - 1, StopsWord(base, pos, m)
        PROVE  FALSE
    <2>1. pos + m + 1 \in DOMAIN tape
      BY <1>1, <1>2, <1>8 DEF StopsWord
    <2> QED
      BY <1>8, <2>1 DEF StopsWord, TapeFits, IsStopCode
  <1>9. CASE ~input_in_progress' /\ \E m \in 0 .. INPUT_SHIFTS - 1 : RunsOut(base, pos, m)
    <2>1. PICK m \in 0 .. INPUT_SHIFTS - 1 : RunsOut(base, pos, m)
      BY <1>9
    <2>2. /\ status' = "STOPPED" /\ tape_pos' = pos + m /\ tape_pos' = Len(tape)
      BY <2>1 DEF RunsOut, Halted, op_input_continue, ReaderBlocks, ReaderAtEnd, ReaderStops,
         ReaderShifts, Runs
    <2>3. tape_pos' - pos \in 0 .. INPUT_SHIFTS - 1
      BY <1>1, <1>2, <2>2
    <2> QED
      BY <1>4, <1>9, <2>2, <2>3 DEF AtEnd, pos
  <1> QED
    BY <1>5, <1>6, <1>7, <1>8, <1>9 DEF WordEnds

\* Between two words.
LEMMA BetweenWords ==
  ASSUME IInv, IsLoader, TapeFits, Step, ~Halted, NEW n \in Words, Asking(n)
  PROVE  IsLoader' /\ TapeFits' /\ (AtEnd(n)' \/ Asking(n)' \/ Reading(n)' \/ HasWord(n)')
  <1>1. ~input_in_progress /\ n \in Nat /\ 0 \in Address /\ counter \in 0 .. 6
    BY LoaderPlace DEF Asking
  <1>2. nextCounter = counter + 1
    BY <1>1, NextLocation
  <1>3. CASE counter = 0
    <2>1. op_print /\ UNCHANGED tape
      BY <1>1, <1>3, Executes DEF IsLoader
    <2>2. /\ UNCHANGED <<memory, tape, tape_pos, input_in_progress>> /\ counter' = 1 /\ ~Halted'
      BY <1>2, <1>3, <2>1 DEF op_print, Transfers, inputVars, Runs, Halted
    <2>3. Kept(n)' /\ StoresTo((LOAD_ADDRESS + n) % LGP30_MEMORY_WORDS)' /\ IsLoader' /\ TapeFits'
      BY <1>1, <2>2, MemoryStays DEF Asking
    <2> QED
      BY <1>1, <2>2, <2>3 DEF Asking
  <1>4. CASE counter = 1
    <2>1. op_input /\ UNCHANGED tape
      BY <1>1, <1>4, Executes DEF IsLoader
    <2>2. op_input_continue(0) /\ counter' = CLEAR_AND_STORE /\ UNCHANGED <<memory, tape>>
      BY <1>2, <1>4, <2>1 DEF op_input, op_input_continue, CLEAR_AND_STORE
    <2>3. accumulator \in Word /\ ShiftedIn(tape, accumulator, n * INPUT_SHIFTS, 0, accumulator)
      BY NothingShiftedIn DEF IInv, TypeOK
    <2>4. tape_pos = n * INPUT_SHIFTS + 0 /\ 0 \in 0 .. INPUT_SHIFTS - 1
      BY <1>1, LoaderPlace DEF Asking
    <2>5. AtEnd(n)' \/ Reading(n)' \/ HasWord(n)'
      BY <2>2, <2>3, <2>4, Asks DEF Asking
    <2> QED
      BY <1>1, <2>2, <2>5, MemoryStays
  <1> QED
    BY <1>3, <1>4 DEF Asking

LEMMA WithinWord ==
  ASSUME IInv, IsLoader, TapeFits, Step, ~Halted, NEW n \in Words, Reading(n)
  PROVE  IsLoader' /\ TapeFits' /\ (AtEnd(n)' \/ Reading(n)' \/ HasWord(n)')
  <1>1. input_in_progress /\ n \in Nat
    BY LoaderPlace DEF Reading
  <1>2. ContinueInput
    BY <1>1 DEF Step, HaltedStep, Executing,
       op_stop, op_bring, op_store_address, op_return_address, op_input, op_divide,
       op_n_multiply, op_m_multiply, op_print, op_extract, op_unconditional_transfer, op_test,
       op_hold_and_store, op_clear_and_store, op_add, op_subtract
  <1>3. /\ op_input_continue(input_shift_count) /\ counter' = CLEAR_AND_STORE
        /\ UNCHANGED <<memory, tape>>
    BY <1>2 DEF ContinueInput, op_input_continue, drumVars, Reading
  <1>4. input_shift_count \in 0 .. INPUT_SHIFTS - 1
    BY <1>1, LoaderPlace DEF IInv, TypeOK, InputProtocol
  <1>5. AtEnd(n)' \/ Reading(n)' \/ HasWord(n)'
    BY <1>3, <1>4, Asks DEF Reading
  <1> QED
    BY <1>1, <1>3, <1>5, MemoryStays

\* The `c` stores the word where it points, which is none of the loader's own
\* locations nor of the words before.
LEMMA StoresWord ==
  ASSUME IInv, IsLoader, TapeFits, Step, ~Halted, NEW n \in Words, HasWord(n)
  PROVE  IsLoader' /\ TapeFits' /\ Returning(n)'
  <1>1. /\ n \in Nat /\ counter = CLEAR_AND_STORE /\ counter = 2 /\ ~input_in_progress
        /\ LOAD_ADDRESS + n \in Address /\ LOAD_ADDRESS \in Nat /\ LOAD_ADDRESS >= 8
    BY LoaderPlace DEF HasWord, CLEAR_AND_STORE, Address
  <1>2. op_clear_and_store /\ addr = LOAD_ADDRESS + n /\ UNCHANGED tape
    BY <1>1, Executes DEF HasWord, StoresTo
  <1>3. nextCounter = 3
    BY <1>1, NextLocation
  <1>4. /\ memory' = [memory EXCEPT ![LOAD_ADDRESS + n] = lgp30_mask_spacer(accumulator)]
        /\ counter' = 3 /\ UNCHANGED <<tape, tape_pos, input_in_progress>> /\ ~Halted'
    BY <1>2, <1>3 DEF op_clear_and_store, Stores, Accesses, inputVars, Runs, Halted
  <1>5. memory \in [Address -> Word] /\ accumulator \in Word
    BY DEF IInv, TypeOK
  <1>6. /\ memory'[LOAD_ADDRESS + n] = lgp30_mask_spacer(accumulator)
        /\ \A a \in Address : a # LOAD_ADDRESS + n => memory'[a] = memory[a]
    BY <1>1, <1>4, <1>5
  <1>7. IsLoader' /\ StoresTo(LOAD_ADDRESS + n)'
    <2>1. \A a \in 0 .. 7 : memory'[a] = memory[a]
      BY <1>1, <1>6, LoaderPlace
    <2> QED
      BY <1>1, <2>1 DEF IsLoader, AUGMENTER, HasWord, StoresTo, CLEAR_AND_STORE
  <1>8. Kept(n + 1)'
    <2>1. \A k \in 1 .. n : LOAD_ADDRESS + k - 1 \in Address /\ LOAD_ADDRESS + k - 1 # LOAD_ADDRESS + n
      BY <1>1, LoaderPlace DEF Address
    <2>2. PICK base \in Word : ShiftedIn(tape, base, n * INPUT_SHIFTS, INPUT_SHIFTS, accumulator)
      BY DEF HasWord
    <2> QED
      BY <1>1, <1>4, <1>5, <1>6, <2>1, <2>2, KeepsOneMore DEF HasWord
  <1>9. TapeFits'
    BY <1>4 DEF TapeFits
  <1> QED
    BY <1>1, <1>4, <1>7, <1>8, <1>9 DEF Returning, HasWord

\* On the way back: the `c` is brought, stepped and put back, and the loader
\* begins again.
LEMMA Returns ==
  ASSUME IInv, IsLoader, TapeFits, Step, ~Halted, NEW n \in Words, Returning(n)
  PROVE  IsLoader' /\ TapeFits' /\ (Returning(n)' \/ (n + 1 \in Words /\ Asking(n + 1)'))
  <1> DEFINE next == (LOAD_ADDRESS + n + 1) % LGP30_MEMORY_WORDS
             c == lgp30_make_instruction(13, LOAD_ADDRESS + n)
  <1>1. /\ n \in Nat /\ n + 1 \in Nat /\ ~input_in_progress
        /\ LOAD_ADDRESS + n \in Address /\ LOAD_ADDRESS \in Nat /\ LOAD_ADDRESS >= 8
        /\ counter \in 3 .. 6 /\ n + 1 \in Words
        /\ 0 \in Address /\ 2 \in Address /\ 7 \in Address
    BY LoaderPlace DEF Returning, Address, Words
  <1>2. nextCounter = counter + 1
    BY <1>1, NextLocation
  <1>3. next \in Address
    <2>1. LOAD_ADDRESS + n + 1 \in Int /\ LGP30_MEMORY_WORDS \in Int /\ LGP30_MEMORY_WORDS > 0
      BY <1>1, LoaderPlace
    <2> QED
      BY <2>1, DivMod DEF Address
  <1> HIDE DEF next
  <1>4. CASE counter = 3
    <2>1. op_bring /\ addr = 2 /\ UNCHANGED tape
      BY <1>1, <1>4, Executes DEF IsLoader, CLEAR_AND_STORE
    <2>2. /\ UNCHANGED <<memory, tape, tape_pos, input_in_progress>> /\ counter' = 4
          /\ accumulator' = c /\ ~Halted'
      BY <1>2, <1>4, <2>1 DEF op_bring, OperandRead, Accesses, inputVars, Runs, Halted, Returning, StoresTo, CLEAR_AND_STORE
    <2> QED
      BY <1>1, <1>4, <2>2, MemoryStays DEF Returning
  <1>5. CASE counter = 4
    <2>1. op_add /\ addr = 7 /\ UNCHANGED tape
      BY <1>1, <1>5, Executes DEF IsLoader, AUGMENTER
    <2>2. UNCHANGED <<memory, tape, tape_pos, input_in_progress>> /\ counter' = 5 /\ Add(ADDRESS_UNIT)
      BY <1>2, <1>5, <2>1 DEF op_add, OperandRead, Accesses, inputVars, IsLoader, AUGMENTER
    <2>3. /\ accumulator = c /\ c \in DrumWord /\ c + ADDRESS_UNIT \in 0 .. 2 * MAGNITUDE - 1
      BY <1>1, <1>5, InstructionWord, NextAddress DEF Returning
    <2>4. /\ accumulator \in Nat /\ accumulator % 2 = 0 /\ accumulator + ADDRESS_UNIT < 2 * MAGNITUDE
          /\ ADDRESS_UNIT \in Nat /\ ADDRESS_UNIT % 2 = 0
      BY <2>3, Layout, LayoutAssumption DEF DrumWord, Word
    <2>5. accumulator' = c + ADDRESS_UNIT /\ ~Halted'
      BY <2>2, <2>3, <2>4, AddsSmall DEF Halted
    <2> QED
      BY <1>1, <1>5, <2>2, <2>5, MemoryStays DEF Returning
  <1>6. CASE counter = 5
    <2>1. op_store_address /\ addr = 2 /\ UNCHANGED tape
      BY <1>1, <1>6, Executes DEF IsLoader, CLEAR_AND_STORE
    <2>2. /\ memory' = [memory EXCEPT ![2] =
                lgp30_mask_spacer(ReplaceAddress(memory[2], lgp30_instruction_address(accumulator)))]
          /\ UNCHANGED <<tape, tape_pos, input_in_progress>> /\ counter' = 6 /\ ~Halted'
      BY <1>2, <1>6, <2>1 DEF op_store_address, Stores, Accesses, inputVars, Runs, Halted
    <2>3. memory[2] = c /\ lgp30_instruction_address(accumulator) = next
      BY <1>1, <1>6, NextAddress DEF Returning, StoresTo, CLEAR_AND_STORE, next
    <2>4. memory \in [Address -> Word]
      BY DEF IInv, TypeOK
    <2>5. /\ memory'[2] = lgp30_make_instruction(13, next)
          /\ \A a \in Address : a # 2 => memory'[a] = memory[a]
      BY <1>1, <1>3, <2>2, <2>3, <2>4, Redirected
    <2>6. Kept(n + 1)'
      <3>1. \A k \in 1 .. n + 1 : LOAD_ADDRESS + k - 1 \in Address /\ LOAD_ADDRESS + k - 1 # 2
        BY <1>1, LoaderPlace DEF Address
      <3> QED
        BY <1>1, <2>2, <2>5, <3>1, KeptStays DEF Returning
    <2>7. IsLoader'
      <3>1. \A a \in 0 .. 7 : a # 2 => memory'[a] = memory[a]
        BY <2>5, LoaderPlace
      <3> QED
        BY <3>1 DEF IsLoader, AUGMENTER
    <2> QED
      BY <1>1, <2>2, <2>5, <2>6, <2>7 DEF Returning, TapeFits, StoresTo, CLEAR_AND_STORE, next
  <1>7. CASE counter = 6
    <2>1. op_unconditional_transfer /\ addr = 0 /\ UNCHANGED tape
      BY <1>1, <1>7, Executes DEF IsLoader
    <2>2. UNCHANGED <<memory, tape, tape_pos, input_in_progress>> /\ counter' = 0 /\ ~Halted'
      BY <2>1 DEF op_unconditional_transfer, Transfers, inputVars, Runs, Halted
    <2>3. Kept(n + 1)' /\ StoresTo(next)' /\ IsLoader' /\ TapeFits'
      BY <1>1, <1>7, <2>2, MemoryStays DEF Returning, next
    <2>4. LOAD_ADDRESS + (n + 1) = LOAD_ADDRESS + n + 1
      BY <1>1
    <2> QED
      BY <1>1, <2>2, <2>3, <2>4 DEF Returning, Asking, next
  <1> QED
    BY <1>1, <1>4, <1>5, <1>6, <1>7

LEMMA LoaderStays ==
  ASSUME LoaderInv, UNCHANGED vars
  PROVE  LoaderInv'
  <1>1. UNCHANGED <<memory, tape, tape_pos, counter, accumulator, status,
                    input_in_progress, input_shift_count>>
    BY DEF vars, drumVars, inputVars
  <1>2. IInv'
    BY NextIInv DEF LoaderInv
  <1>3. IsLoader' /\ TapeFits'
    BY <1>1 DEF LoaderInv, IsLoader, TapeFits
  <1>4. ASSUME NEW n \in Words
        PROVE  /\ Asking(n) => Asking(n)'
               /\ Reading(n) => Reading(n)'
               /\ HasWord(n) => HasWord(n)'
               /\ Returning(n) => Returning(n)'
               /\ AtEnd(n) => AtEnd(n)'
    <2>1. n \in Nat /\ n + 1 \in Nat
      BY LoaderPlace
    <2>2. /\ Kept(n) => Kept(n)'
          /\ Kept(n + 1) => Kept(n + 1)'
          /\ \A address : StoresTo(address) => StoresTo(address)'
      BY <1>1, <2>1, MemoryStays
    <2> QED
      BY <1>1, <2>2 DEF Asking, Reading, HasWord, Returning, AtEnd, Halted
  <1> QED
    BY <1>2, <1>3, <1>4 DEF LoaderInv

LEMMA NextLoaderInv == LoaderInv /\ [Step]_vars => LoaderInv'
  <1> SUFFICES ASSUME LoaderInv, [Step]_vars PROVE LoaderInv'
    OBVIOUS
  <1>1. CASE UNCHANGED vars \/ Halted
    BY <1>1, LoaderStays DEF Step, HaltedStep, ContinueInput, Executing,
       op_stop, op_bring, op_store_address, op_return_address, op_input, op_divide,
       op_n_multiply, op_m_multiply, op_print, op_extract, op_unconditional_transfer, op_test,
       op_hold_and_store, op_clear_and_store, op_add, op_subtract
  <1>2. CASE Step /\ ~Halted
    <2>1. IInv'
      BY NextIInv DEF LoaderInv, Next
    <2>2. PICK n \in Words : Asking(n) \/ Reading(n) \/ HasWord(n) \/ Returning(n)
      BY <1>2 DEF LoaderInv, AtEnd, Halted
    <2>3. /\ IsLoader' /\ TapeFits'
          /\ \/ AtEnd(n)' \/ Asking(n)' \/ Reading(n)' \/ HasWord(n)' \/ Returning(n)'
             \/ n + 1 \in Words /\ Asking(n + 1)'
      BY <1>2, <2>2, BetweenWords, WithinWord, StoresWord, Returns DEF LoaderInv
    <2> QED
      BY <2>1, <2>3 DEF LoaderInv
  <1> QED
    BY <1>1, <1>2

LEMMA InitLoaderInv == LoaderInit => LoaderInv
  <1> SUFFICES ASSUME LoaderInit PROVE LoaderInv
    OBVIOUS
  <1>1. IInv /\ IsLoader /\ TapeFits
    BY InitIInv DEF LoaderInit
  <1>2. 0 \in Words /\ (LOAD_ADDRESS + 0) % LGP30_MEMORY_WORDS = LOAD_ADDRESS
    <2>1. LOAD_ADDRESS + 0 \in 0 .. LGP30_MEMORY_WORDS - 1
      BY LoaderPlace
    <2> QED
      BY <2>1, LoaderPlace, NearMod DEF Words
  <1>3. /\ Kept(0) /\ tape_pos = 0 * INPUT_SHIFTS /\ ~input_in_progress /\ ~Halted
        /\ counter \in {0, 1}
    BY LoaderPlace DEF LoaderInit, Init, Kept, Halted
  <1> QED
    BY <1>1, <1>2, <1>3 DEF LoaderInit, LoaderInv, Asking

LEMMA StoredBetweenWords == LoaderInv => IsLoader /\ LoaderFillsMemory
  <1> SUFFICES ASSUME LoaderInv PROVE IsLoader /\ LoaderFillsMemory
    OBVIOUS
  <1>1. PICK n \in Words : Asking(n) \/ Reading(n) \/ HasWord(n) \/ Returning(n) \/ AtEnd(n)
    BY DEF LoaderInv
  <1>2. Halted => AtEnd(n)
    BY <1>1 DEF Asking, Reading, HasWord, Returning
  <1>3. Halted => status = "STOPPED" /\ tape_pos = Len(tape)
    BY <1>2 DEF AtEnd
  <1>4. counter = 1 /\ ~input_in_progress => Asking(n)
    BY <1>1 DEF Reading, HasWord, Returning, AtEnd, CLEAR_AND_STORE
  <1>5. SUFFICES ASSUME Asking(n) \/ AtEnd(n)
                 PROVE  /\ \A k \in 1 .. tape_pos \div INPUT_SHIFTS : IsStored(k)
                        /\ StoresTo((LOAD_ADDRESS + (tape_pos \div INPUT_SHIFTS)) % LGP30_MEMORY_WORDS)
    BY <1>2, <1>3, <1>4 DEF LoaderFillsMemory, LoaderInv
  <1>6. tape_pos \div INPUT_SHIFTS = n
    <2> DEFINE rest == tape_pos - n * INPUT_SHIFTS
    <2>1. n \in Int /\ INPUT_SHIFTS \in Int /\ INPUT_SHIFTS > 0 /\ tape_pos \in Int
      BY LoaderPlace DEF LoaderInv, IInv, TypeOK
    <2>2. rest \in 0 .. INPUT_SHIFTS - 1 /\ tape_pos = INPUT_SHIFTS * n + rest
      BY <1>5, <2>1 DEF Asking, AtEnd
    <2> HIDE DEF rest
    <2> QED
      BY <2>1, <2>2, DivUnique
  <1> QED
    BY <1>5, <1>6 DEF Asking, AtEnd, Kept

\* The loader survives its own run.  Each time it asks for a word, and when it
\* has halted, the words before are where the manual's listing says, digit by
\* digit, and its `c` points past them: for every tape that fits, up to the last
\* location of the drum, where the stepped address comes round to 0.  It never
\* overflows and halts nowhere but at the end of the tape
\* (tests/test_bootstrap.c, cpu.c:93-97, 128-152, 189-192).
THEOREM LoaderAlwaysFillsMemory == LoaderSpec => [](IsLoader /\ LoaderFillsMemory)
  BY InitLoaderInv, NextLoaderInv, StoredBetweenWords, PTL DEF LoaderSpec
=============================================================================
