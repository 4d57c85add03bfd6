----------------------------- MODULE MCAssembler -----------------------------
(***************************************************************************)
(* Programs of up to three lines, out of every form of line, correct and   *)
(* malformed in every field, with numbers at both ends of the range; and   *)
(* image files of up to three lines that no program gave.                  *)
(***************************************************************************)
EXTENDS AsmImage

Lines ==
  [form : {"blank", "too_long", "unrecognised"}]
    \cup [form : {"too_many_fields"}, columns : {<<1, 6, 8, 13>>}]
    \cup [form : {"start"}, columns : {<<2, 8>>}, address : {{}, {0}, {12}}]
    \cup [form : {"dw"}, columns : {<<1, 6, 9>>}, location : {{}, {1}},
          value : {{}, {-257}, {-256}, {0}, {255}, {256}}]
    \cup [form : {"instruction"}, columns : {<<3, 9, 12>>}, location : {{1}, {12}},
          opcode : {{}, {13}}, operand : {{}, {3}}]

ShortPrograms == UNION {[1 .. n -> Lines] : n \in 0 .. 3}

\* Start addresses on the drum, beyond it and beyond 16 bits, here 5; words on
\* the drum and beyond it.
ForeignLines ==
  {StartLine(n) : n \in {3, 17, 33}} \cup {BrokenLine, EmptyLine}
    \cup {WordLine(a, word) : a \in {2, 15, 16}, word \in {0, 1023}}

ForeignFiles == UNION {[1 .. n -> ForeignLines] : n \in 0 .. 3}
=============================================================================
