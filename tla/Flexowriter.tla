---------------------------- MODULE Flexowriter ----------------------------
(***************************************************************************)
(* The output side of the two backends (io/flexowriter.c, io/simple.c): a  *)
(* typewriter with a shift that stays where the last shift code left it,   *)
(* and a stream to which codes are written as they are.                    *)
(***************************************************************************)
EXTENDS LGP30Notation, SequencesExt

VARIABLES
  upper_case, \* struct flexo_io_ctx: the shift
  out,        \* what has been written: glyphs, or bytes
  codes       \* the codes received, in order: a history variable

outputVars == <<upper_case, out, codes>>

FlexoCode == 0 .. 63

FLEXO_SHIFT_LOWER == 4
FLEXO_SHIFT_UPPER == 8

\* The glyphs of FLEXO_TABLE in either case, code 0 first, sixteen codes in a
\* row.  "" is a code with no mark on the paper: not assigned, or for the reader,
\* the ribbon or the shift.  Return, back space and tab are marks like another.
LOWER_GLYPHS == <<
  "", "z", "0", " ", "", "b", "1", "-",  "", "y", "2", "+", "", "r", "3", ";",
  "return", "i", "4", "/", "back", "d", "5", ".",  "tab", "n", "6", ",", "", "m", "7", "v",
  "", "p", "8", "o", "", "e", "9", "x",  "", "u", "f", "", "", "t", "g", "",
  "", "h", "j", "", "", "c", "k", "",  "", "a", "q", "", "", "s", "w", "">>

UPPER_GLYPHS == <<
  "", "Z", ")", " ", "", "B", "L", "_",  "", "Y", "*", "=", "", "R", "\"", ":",
  "return", "I", "^", "?", "back", "D", "%", "]",  "tab", "N", "$", "[", "", "M", "?", "V",
  "", "P", "#", "O", "", "E", "(", "X",  "", "U", "F", "", "", "T", "G", "",
  "", "H", "J", "", "", "C", "K", "",  "", "A", "Q", "", "", "S", "W", "">>

Glyph(code, upper) == (IF upper THEN UPPER_GLYPHS ELSE LOWER_GLYPHS)[code + 1]

Marks(code, upper) ==
  IF Glyph(code, upper) = "" THEN <<>> ELSE <<Glyph(code, upper)>>

OutputInit == upper_case = FALSE /\ out = <<>> /\ codes = <<>>

-----------------------------------------------------------------------------
\* Mutant of Shifted: a shift to upper case holds for one character.
Shifted_Momentary(code) == code = FLEXO_SHIFT_UPPER

\* The shift after a code.
Shifted(code) ==
  \/ code = FLEXO_SHIFT_UPPER
  \/ upper_case /\ code # FLEXO_SHIFT_LOWER

\* A code outside the table is ignored; a shift moves the type basket only.
flexo_write_char(code) ==
  /\ upper_case' = (IF code \in FlexoCode THEN Shifted(code) ELSE upper_case)
  /\ out' = IF code \in FlexoCode THEN out \o Marks(code, upper_case) ELSE out
  /\ codes' = Append(codes, code)

\* fputc of the raw code.
simple_write_char(code) ==
  /\ out' = Append(out, code)
  /\ codes' = Append(codes, code)
  /\ UNCHANGED upper_case

-----------------------------------------------------------------------------
(* Properties.                                                             *)

CAPITAL_LETTERS ==
  <<"Z", "B", "Y", "R", "I", "D", "N", "M", "P", "E", "U", "T", "H", "C", "A", "S">>

\* The shift at the k-th code received, from the last shift code before it.
Upper(k) ==
  \E i \in 1 .. k - 1 :
    /\ codes[i] = FLEXO_SHIFT_UPPER
    /\ \A j \in i + 1 .. k - 1 : codes[j] # FLEXO_SHIFT_LOWER

\* "code = 1 + 4*opcode", "code = 2 + 4*digit" (flexowriter.c:32); the rest is
\* the table's, and what is no code of six bits means nothing.
Meaning(code, upper) ==
  LET nth == (code \div 4) + 1
  IN IF code \notin FlexoCode THEN <<>>
     ELSE CASE code % 4 = 1 -> <<IF upper THEN CAPITAL_LETTERS[nth] ELSE OPCODE_LETTERS[nth]>>
            [] code % 4 = 2 /\ ~upper -> <<lgp30_hex_digit_char(nth - 1)>>
            [] OTHER -> Marks(code, upper)

\* The paper shows the meaning of each code in order, however long ago the shift
\* was set and whatever was printed, or not printed, in between: an opcode's
\* letter and a digit's character are those of the assembler and of the word
\* notation (flexowriter.c:23-34, 99-134).
PaperMeansItsCodes ==
  out = FlattenSeq([k \in 1 .. Len(codes) |-> Meaning(codes[k], Upper(k))])
=============================================================================
