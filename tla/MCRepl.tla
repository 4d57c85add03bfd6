------------------------------- MODULE MCRepl -------------------------------
(***************************************************************************)
(* A debugger on a machine of four words, with three programs to load over *)
(* each other, a file that does not assemble and one that is not there.    *)
(***************************************************************************)
EXTENDS Repl

DigitWeights == [k \in 0 .. INPUT_SHIFTS |-> 16 ^ k]

EmptyDrum == {[a \in Address |-> 0]}
NoTape == {<<>>}

\* Adds 30 until it overflows; starts at 1 and goes round by 3.
AddingLoop ==
  [result |-> "LOAD_OK", start |-> {1}, assigned |-> {0, 1, 2},
   image |-> [a \in Address |->
                CASE a = 0 -> 60
                  [] a = 1 -> lgp30_make_instruction(14, 0)
                  [] a = 2 -> lgp30_make_instruction(10, 1)
                  [] OTHER -> 0]]

\* Goes to the end of memory for a word, and on into what is at 0; it has no
\* start address.
AsksForWord ==
  [result |-> "LOAD_OK", start |-> {}, assigned |-> {0, 3},
   image |-> [a \in Address |->
                CASE a = 0 -> lgp30_make_instruction(10, 3)
                  [] a = 3 -> lgp30_make_instruction(4, 0)
                  [] OTHER -> 0]]

\* Goes round for ever, where the adding loop had its jump.
Spins ==
  [result |-> "LOAD_OK", start |-> {2}, assigned |-> {2},
   image |-> [a \in Address |-> IF a = 2 THEN lgp30_make_instruction(10, 2) ELSE 0]]

ReplFiles ==
  {AddingLoop, AsksForWord, Spins, [result |-> "LOAD_FILE_ERROR"], [result |-> "LOAD_ASM_ERROR"]}
=============================================================================
