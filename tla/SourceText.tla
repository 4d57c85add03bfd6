----------------------------- MODULE SourceText -----------------------------
(***************************************************************************)
(* The text of a program (core/asm/asm.c): how the assembler takes lines   *)
(* from it, fields from a line, and values from a field.  Each line is     *)
(* scanned, and then assembled as Assembler says.                          *)
(***************************************************************************)
EXTENDS Assembler, LGP30Notation, FiniteSets

CONSTANTS
  Texts,         \* the texts: sequences of characters
  LINE_CAPACITY  \* 256: the size of linebuf

VARIABLES
  text, \* the program
  p     \* the position in it of the next line

textVars == <<asmVars, text, p>>

NUL == "NUL"
NEWLINE == "\n"
COMMENT == ";"
START == <<"s", "t", "a", "r", "t">>
DW == <<"d", "w">>

ASSUME TextAssumption ==
  /\ Texts \subseteq Seq(STRING)
  /\ LINE_CAPACITY \in Nat \ {0}
  /\ Sources = {<<>>}

TextInit == AsmInit /\ text \in Texts /\ p = 1

-----------------------------------------------------------------------------
(* Scanning.  The loops of the code look for the first of some characters, *)
(* or the end.                                                             *)

\* The positions at which one of some characters stands.
Positions(chars, characters) == {q \in DOMAIN chars : chars[q] \in characters}

\* The first of some positions that is not before `from`, or the end.
FirstOf(chars, from, positions) ==
  CHOOSE q \in from .. Len(chars) + 1 :
    /\ q = Len(chars) + 1 \/ q \in positions
    /\ \A r \in from .. q - 1 : r \notin positions

\* Mutant of BLANKS: only the space separates fields.
BLANKS_SpaceOnly == {" "}

BLANKS == {" ", "\t"}

BlanksIn(chars) == Positions(chars, BLANKS)

\* Where the fields of a line, the first max_tokens of them, begin and end: one
\* that begins past the line is not there.
Spans(chars, max_tokens) ==
  LET span[k \in 0 .. max_tokens] ==
        IF k = 0 THEN [column |-> 1, end |-> 1]
        ELSE LET start == FirstOf(chars, span[k - 1].end, DOMAIN chars \ BlanksIn(chars))
             IN [column |-> start, end |-> FirstOf(chars, start, BlanksIn(chars))]
  IN span

CountOf(spans, chars, max_tokens) ==
  Cardinality({k \in 1 .. max_tokens : spans[k].column <= Len(chars)})

\* Mutant of tokenize: the column is that of the blanks before the field.
tokenize_ColumnOfBlanks(chars, max_tokens) ==
  LET spans == Spans(chars, max_tokens)
  IN [k \in 1 .. CountOf(spans, chars, max_tokens) |->
        [column |-> spans[k - 1].end,
         chars |-> SubSeq(chars, spans[k].column, spans[k].end - 1)]]

\* The fields of a line with their columns, max_tokens of them at most.
tokenize(chars, max_tokens) ==
  LET spans == Spans(chars, max_tokens)
  IN [k \in 1 .. CountOf(spans, chars, max_tokens) |->
        [column |-> spans[k].column,
         chars |-> SubSeq(chars, spans[k].column, spans[k].end - 1)]]

parse_location_token(field) ==
  IF Len(field) = 4 THEN lgp30_parse_address(field) ELSE {}

GUARD == 2 * MAGNITUDE - 1  \* 0x7FFFFFFF: what the digits may come to

\* The numbers that the digits come to, one after another.
ValuesOf(digits) ==
  LET value[i \in 0 .. Len(digits)] ==
        IF i = 0 THEN 0 ELSE 10 * value[i - 1] + digit(digits[i])
  IN value

\* The digits of a field that may begin with a sign.
DigitsOf(field) == IF field[1] \in {"-", "+"} THEN Tail(field) ELSE field

\* A sign, and digits of which no prefix passes the guard.
parse_signed_integer(field) ==
  LET digits == DigitsOf(field)
      value == ValuesOf(digits)
  IN IF /\ digits # <<>>
        /\ \A i \in DOMAIN digits : digits[i] \in DecimalDigit /\ value[i] <= GUARD
     THEN {IF field[1] = "-" THEN -value[Len(digits)] ELSE value[Len(digits)]}
     ELSE {}

\* What the fields of a line make of it.
LineOf(fields, columns) ==
  LET n == Len(fields)
  IN CASE n = 0 -> [form |-> "blank"]
       [] n = 4 -> [form |-> "too_many_fields", columns |-> columns]
       [] n = 2 /\ fields[1] = START ->
            [form |-> "start", columns |-> columns, address |-> parse_location_token(fields[2])]
       [] n = 3 /\ fields[2] = DW ->
            [form |-> "dw", columns |-> columns, location |-> parse_location_token(fields[1]),
             value |-> parse_signed_integer(fields[3])]
       [] n = 3 /\ fields[2] # DW ->
            [form |-> "instruction", columns |-> columns,
             location |-> parse_location_token(fields[1]),
             opcode |-> IF Len(fields[2]) = 1 THEN opcode_value(fields[2][1]) ELSE {},
             operand |-> parse_location_token(fields[3])]
       [] OTHER -> [form |-> "unrecognised"]

\* A line without its comment.
Code(chars) == SubSeq(chars, 1, FirstOf(chars, 1, Positions(chars, {COMMENT})) - 1)

scan(chars) ==
  IF Len(chars) >= LINE_CAPACITY THEN [form |-> "too_long"]
  ELSE LET tokens == tokenize(Code(chars), 4)
       IN LineOf([k \in DOMAIN tokens |-> tokens[k].chars],
                 [k \in DOMAIN tokens |-> tokens[k].column])

-----------------------------------------------------------------------------
(* The text.                                                               *)

EndsText == p \in DOMAIN text => text[p] = NUL

\* The next line, up to its newline, the end of the file or a NUL in it.
ScansLine ==
  /\ line_no = Len(source)
  /\ ~EndsText
  /\ LET end == FirstOf(text, p, Positions(text, {NEWLINE, NUL}))
     IN /\ source' = Append(source, scan(SubSeq(text, p, end - 1)))
        /\ p' = IF end <= Len(text) /\ text[end] = NEWLINE THEN end + 1 ELSE end
  /\ UNCHANGED <<line_no, imageVars, errorVars, text>>

AssemblesLine ==
  /\ line_no < Len(source)
  /\ AsmNext
  /\ UNCHANGED <<text, p>>

TextDone ==
  /\ line_no = Len(source)
  /\ EndsText
  /\ UNCHANGED textVars

TextNext == ScansLine \/ AssemblesLine \/ TextDone

TextSpec == TextInit /\ [][TextNext]_textVars

-----------------------------------------------------------------------------
(* Properties.  A text as its reader sees it: positions in it, and what    *)
(* stands there.                                                           *)

\* What there is of the text before a NUL.
Body == {i \in DOMAIN text : \A j \in 1 .. i : text[j] # NUL}

\* The positions at which lines begin, and the number of the line at one.
LineStarts == {s \in Body : s = 1 \/ text[s - 1] = NEWLINE}

LineNumber(s) == Cardinality({r \in LineStarts : r <= s})

\* The line that begins at s, and the i-th line.
LineFrom(s) == {i \in Body : s <= i /\ \A j \in s .. i : text[j] # NEWLINE}

LineAt(s) == [k \in 1 .. Cardinality(LineFrom(s)) |-> text[s + k - 1]]

TextLine(i) == LineAt(CHOOSE s \in LineStarts : LineNumber(s) = i)

\* The positions in a line of the characters that are no blank and in no comment.
TextIn(chars) ==
  {i \in DOMAIN chars : chars[i] \notin {" ", "\t"} /\ \A j \in 1 .. i : chars[j] # COMMENT}

\* The positions at which its fields begin, and the k-th of them.
FieldStarts(chars) == {i \in TextIn(chars) : i - 1 \notin TextIn(chars)}

FieldStart(chars, k) ==
  CHOOSE i \in FieldStarts(chars) : Cardinality({j \in FieldStarts(chars) : j <= i}) = k

\* The field that begins at i, and the fields of a line.
FieldAt(chars, i) ==
  LET field == {j \in TextIn(chars) : i <= j /\ i .. j \subseteq TextIn(chars)}
  IN [k \in 1 .. Cardinality(field) |-> chars[i + k - 1]]

FieldsOf(chars) ==
  [k \in 1 .. Cardinality(FieldStarts(chars)) |-> FieldAt(chars, FieldStart(chars, k))]

\* The address a field names: the one that is printed so.
Spellings == {<<lgp30_format_address(a), a>> : a \in Address}

AddressNamed(field) == {a \in Address : <<field, a>> \in Spellings}

\* The number a field stands for: its sign, and the number whose decimal digits
\* are those of the field.
Tens(n) ==
  LET ten[k \in 0 .. n] == IF k = 0 THEN 1 ELSE 10 * ten[k - 1]
  IN ten

IsDecimal(digits, n) ==
  LET tens == Tens(Len(digits))
  IN /\ digits # <<>>
     /\ 0 <= n /\ n < tens[Len(digits)]
     /\ \A i \in DOMAIN digits :
          digits[i] = HEX_DIGITS[((n \div tens[Len(digits) - i]) % 10) + 1]

NumberNamed(field) ==
  {n \in Integer :
     \/ field[1] = "-" /\ IsDecimal(Tail(field), -n)
     \/ field[1] = "+" /\ IsDecimal(Tail(field), n)
     \/ IsDecimal(field, n)}

\* What the assembler makes of a line is what its fields say, however they are
\* separated and whatever a comment says.
MeansItsText(l, chars) ==
  LET f == FieldsOf(chars)
  IN /\ l.form = "too_long" <=> Len(chars) >= LINE_CAPACITY
     /\ l.form # "too_long" =>
          /\ l.form = "blank" <=> f = <<>>
          /\ l.form = "too_many_fields" <=> Len(f) > 3
          /\ l.form = "start" <=> Len(f) = 2 /\ f[1] = START
          /\ l.form = "dw" <=> Len(f) = 3 /\ f[2] = DW
          /\ l.form = "instruction" <=> Len(f) = 3 /\ f[2] # DW
     /\ l.form = "start" => l.address = AddressNamed(f[2])
     /\ l.form \in {"dw", "instruction"} => l.location = AddressNamed(f[1])
     /\ l.form = "dw" => l.value = NumberNamed(f[3])
     /\ l.form = "instruction" =>
          /\ l.opcode = {k \in 0 .. 15 : f[2] = <<OPCODE_LETTERS[k + 1]>>}
          /\ l.operand = AddressNamed(f[3])

\* The assembler takes each line of the text once and in order, and makes of it
\* what it says to a reader; an address is four digits that the machine would
\* print for it, a number is the one that has its digits (asm.c:17-104, 133-155,
\* types.h:177-203).
LinesMeanTheirText ==
  /\ p > Cardinality(Body) <=> Len(source) = Cardinality(LineStarts)
  /\ Len(source) <= Cardinality(LineStarts)
  /\ \A i \in DOMAIN source : MeansItsText(source[i], TextLine(i))

\* The fields of the i-th line that a reader would find fault with: the fourth,
\* the first of a line that repeats one before it, and those that do not say what
\* their place in the line asks for.
Faults(i) ==
  LET f == FieldsOf(TextLine(i))
  IN {k \in DOMAIN f :
        /\ Len(TextLine(i)) < LINE_CAPACITY
        /\ \/ k = 4
           \/ k = 1 /\ Repeats(i)
           \/ k = 2 /\ Len(f) = 2 /\ f[1] = START /\ AddressNamed(f[2]) = {}
           \/ /\ Len(f) = 3
              /\ \/ k = 1 /\ AddressNamed(f[1]) = {}
                 \/ k = 2 /\ f[2] # DW /\ \A n \in 0 .. 15 : f[2] # <<OPCODE_LETTERS[n + 1]>>
                 \/ k = 3 /\ f[2] = DW /\ NumberNamed(f[3]) \cap Number = {}
                 \/ k = 3 /\ f[2] # DW /\ AddressNamed(f[3]) = {}}

\* The line and the column of an error lead to the leftmost field that is at
\* fault, or to the beginning of a line that is too long or has another number of
\* fields; blanks count as one column each (asm.h:22-23, asm.c:17-41, 146-228).
ErrorsPointAtTheirFields ==
  \A n \in DOMAIN errors :
    LET faults == Faults(errors[n].line)
        leftmost == CHOOSE k \in faults : \A j \in faults : k <= j
    IN errors[n].column =
         IF faults = {} THEN 1 ELSE FieldStart(TextLine(errors[n].line), leftmost)

\* What a line's fields spell is what the image has at the address they begin with.
Spelled(f) ==
  /\ Len(f) = 3
  /\ \E a \in AddressNamed(f[1]) :
       /\ assigned[a]
       /\ \/ f[2] = DW /\ lgp30_word_to_signed(memory[a]) \in NumberNamed(f[3])
          \/ /\ f[2] = <<OPCODE_LETTERS[lgp30_opcode(memory[a]) + 1]>>
             /\ f[3] = lgp30_format_address(lgp30_instruction_address(memory[a]))

\* From text to words: every word of the image is spelled by a line of the text,
\* and every line that spells nothing of it is blank, an entry point, or reported
\* (asm.c:125-235).
ImageIsSpelledByItsText ==
  LET fields == [i \in 1 .. line_no |-> FieldsOf(TextLine(i))]
  IN /\ \A a \in Address : assigned[a] =>
          \E i \in 1 .. line_no : Spelled(fields[i]) /\ AddressNamed(fields[i][1]) = {a}
     /\ \A i \in 1 .. line_no :
          \/ fields[i] = <<>> /\ source[i].form = "blank"
          \/ Spelled(fields[i])
          \/ fields[i] = <<START, lgp30_format_address(start_address)>> /\ has_start_address
          \/ i \in {errors[k].line : k \in DOMAIN errors} \cup lost
=============================================================================
