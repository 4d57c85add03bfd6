----------------------------- MODULE WordReader -----------------------------
(***************************************************************************)
(* What a program sees of its input: `i 0000` reads a whole word, at once. *)
(* The characters up to a stop code, or the INPUT_SHIFTS that fill the     *)
(* accumulator, or the end of the tape, are shifted in behind what the     *)
(* accumulator held; a tape that ends within a word halts the machine.     *)
(* Between two words the program computes, and the reader stands still.    *)
(*                                                                         *)
(* LGP30CPU, which returns to its host after every character and may have  *)
(* to ask several times for one, is shown to implement this.               *)
(***************************************************************************)
EXTENDS Integers, Sequences

CONSTANTS
  INPUT_SHIFTS,    \* the digits of a word
  DIGIT_WEIGHTS,   \* the weight of each, and at INPUT_SHIFTS the word size
  INPUT_STOP_CODE, \* the code, in a character's low six bits, that ends one
  Tapes            \* what the reader may hold

VARIABLES
  tape, tape_pos, \* the characters on the reader, and how many are read
  accumulator,    \* a word of INPUT_SHIFTS digits
  halted

vars == <<tape, tape_pos, accumulator, halted>>

\* The values of the accumulator.
Word == 0 .. DIGIT_WEIGHTS[INPUT_SHIFTS] - 1

IsStop(k) == tape[k] % 64 = INPUT_STOP_CODE

\* The next n characters of the tape are digits.
DigitsAhead(n) ==
  /\ tape_pos + n <= Len(tape)
  /\ \A k \in 1 .. n : ~IsStop(tape_pos + k)

\* They take the n lowest digits of the accumulator, and push the rest up.
ShiftsIn(n) ==
  /\ accumulator' \in Word
  /\ accumulator' \div DIGIT_WEIGHTS[n] = accumulator % DIGIT_WEIGHTS[INPUT_SHIFTS - n]
  /\ \A k \in 1 .. n :
       (accumulator' \div DIGIT_WEIGHTS[n - k]) % 16 = tape[tape_pos + k] % 16

Init ==
  /\ tape \in Tapes
  /\ tape_pos = 0
  /\ accumulator = 0
  /\ halted = FALSE

ReadFullWord ==
  /\ DigitsAhead(INPUT_SHIFTS)
  /\ ShiftsIn(INPUT_SHIFTS)
  /\ tape_pos' = tape_pos + INPUT_SHIFTS
  /\ halted' = FALSE

ReadToStopCode ==
  \E n \in 0 .. INPUT_SHIFTS - 1 :
    /\ DigitsAhead(n)
    /\ tape_pos + n < Len(tape)
    /\ IsStop(tape_pos + n + 1)
    /\ ShiftsIn(n)
    /\ tape_pos' = tape_pos + n + 1
    /\ halted' = FALSE

ReadToEnd ==
  \E n \in 0 .. INPUT_SHIFTS - 1 :
    /\ DigitsAhead(n)
    /\ tape_pos + n = Len(tape)
    /\ ShiftsIn(n)
    /\ tape_pos' = Len(tape)
    /\ halted' = TRUE

ReadWord ==
  /\ ~halted
  /\ ReadFullWord \/ ReadToStopCode \/ ReadToEnd
  /\ UNCHANGED tape

Compute ==
  /\ ~halted
  /\ accumulator' \in Word
  /\ halted' \in BOOLEAN
  /\ UNCHANGED <<tape, tape_pos>>

\* A reset abandons the word being read, and with it the digits already read.
Reset ==
  /\ accumulator' = 0
  /\ halted' = FALSE
  /\ \E lost \in 0 .. INPUT_SHIFTS - 1 :
       /\ halted => lost = 0
       /\ DigitsAhead(lost)
       /\ tape_pos' = tape_pos + lost
  /\ UNCHANGED tape

Next == ReadWord \/ Compute \/ Reset

Spec == Init /\ [][Next]_vars
=============================================================================
