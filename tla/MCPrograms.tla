----------------------------- MODULE MCPrograms -----------------------------
(***************************************************************************)
(* Small programs on a machine of four words of 8 bits: sign, opcode,      *)
(* 2-bit address, spacer; two characters fill a word.                      *)
(***************************************************************************)
EXTENDS LGP30CPU_words

DigitWeights == [k \in 0 .. INPUT_SHIFTS |-> 16 ^ k]

\* Read a word, execute any two instructions on any two addresses (each may
\* rewrite the other, or jump), over a word that is small, most negative or -1.
SmallImages ==
  {[a \in Address |->
      CASE a = 0 -> lgp30_make_instruction(4, 0)
        [] a = 1 -> lgp30_make_instruction(first, firstOperand)
        [] a = 2 -> lgp30_make_instruction(second, secondOperand)
        [] a = 3 -> data] :
     first \in 0 .. 15, firstOperand \in Address,
     second \in 0 .. 15, secondOperand \in Address, data \in {6, 128, 254}}

\* No character; one digit and a stop code with extra high bits; a full word
\* of digits of both signs, its second digit with the bits of a letter.
SmallTapes == {<<>>, <<5, 96, 15>>, <<15, 63, 2>>}
=============================================================================
