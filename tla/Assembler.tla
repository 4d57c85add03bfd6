----------------------------- MODULE Assembler -----------------------------
(***************************************************************************)
(* The assembler (core/asm/asm.c): one step is one line of the source.     *)
(*                                                                         *)
(* A line is what its fields say once they are told apart and parsed.  A   *)
(* field is the set of the values it can be read as: {v} when its parser   *)
(* accepts it, and {} when it is malformed.  Each field has a column.      *)
(***************************************************************************)
EXTENDS LGP30Types, Sequences

CONSTANTS
  Sources,        \* the programs: sequences of lines
  FIRST_CAPACITY, \* 8: the errors that the first allocation has room for
  CAN_RUN_OUT     \* whether realloc may return NULL

VARIABLES
  source, line_no,                  \* the program, and the lines taken from it
  memory, assigned,                 \* asm_image: words, and which were written
  start_address, has_start_address, \* asm_image: the entry point
  errors, error_capacity,           \* asm_result: the errors, and their room
  lost                              \* the lines whose error found no room: a
                                    \* history variable, the code forgets them

imageVars == <<memory, assigned, start_address, has_start_address>>
errorVars == <<errors, error_capacity, lost>>
asmVars == <<source, line_no, imageVars, errorVars>>

Number == -MAGNITUDE .. MAGNITUDE - 1

\* What parse_signed_integer accepts, before its value is checked for range.
Integer == -(2 * MAGNITUDE - 1) .. 2 * MAGNITUDE - 1

Field(values) == {{}} \cup {{v} : v \in values}

Columns(n) == [1 .. n -> Nat \ {0}]

Line ==
  [form : {"blank", "too_long", "unrecognised"}]
    \cup [form : {"too_many_fields"}, columns : Columns(4)]
    \cup [form : {"start"}, columns : Columns(2), address : Field(Address)]
    \cup [form : {"dw"}, columns : Columns(3), location : Field(Address), value : Field(Integer)]
    \cup [form : {"instruction"}, columns : Columns(3), location : Field(Address),
          opcode : Field(0 .. 15), operand : Field(Address)]

Messages ==
  {"too_long", "too_many_fields", "unrecognised", "duplicate_start", "bad_address",
   "already_assigned", "bad_integer", "out_of_range", "bad_opcode"}

ASSUME AssemblerAssumption ==
  /\ Sources \subseteq Seq(Line)
  /\ FIRST_CAPACITY \in Nat \ {0}
  /\ CAN_RUN_OUT \in BOOLEAN

\* image_init and the start of asm_assemble.
AsmInit ==
  /\ source \in Sources
  /\ line_no = 0
  /\ memory = [a \in Address |-> 0]
  /\ assigned = [a \in Address |-> FALSE]
  /\ start_address = 0
  /\ has_start_address = FALSE
  /\ errors = <<>>
  /\ error_capacity = 0
  /\ lost = {}

-----------------------------------------------------------------------------
(* Errors.                                                                 *)

line == source[line_no + 1]

Takes(forms) ==
  /\ line_no < Len(source)
  /\ line.form \in forms
  /\ line_no' = line_no + 1
  /\ UNCHANGED source

\* Mutant of Records: lines are counted from 0.
Records_FromZero(column, message) ==
  /\ errors' = Append(errors, [line |-> line_no, column |-> column, message |-> message])
  /\ UNCHANGED lost

Records(column, message) ==
  /\ errors' = Append(errors, [line |-> line_no + 1, column |-> column, message |-> message])
  /\ UNCHANGED lost

\* Mutant of grown_capacity: the first allocation doubles nothing.
grown_capacity_FromNothing == 2 * error_capacity

grown_capacity == IF error_capacity = 0 THEN FIRST_CAPACITY ELSE 2 * error_capacity

\* The error is recorded, in a larger buffer if the old one is full; when the
\* buffer cannot grow the error is dropped.
add_errorf(column, message) ==
  \/ /\ Len(errors) # error_capacity
     /\ Records(column, message)
     /\ UNCHANGED error_capacity
  \/ /\ Len(errors) = error_capacity
     /\ Records(column, message)
     /\ error_capacity' = grown_capacity
  \/ /\ Len(errors) = error_capacity
     /\ CAN_RUN_OUT
     /\ lost' = lost \cup {line_no + 1}
     /\ UNCHANGED <<errors, error_capacity>>

Rejects(column, message) == add_errorf(column, message) /\ UNCHANGED imageVars

-----------------------------------------------------------------------------
(* The lines, in the order in which the code tells them apart.             *)

BlankLine == Takes({"blank"}) /\ UNCHANGED <<imageVars, errorVars>>

OverlongLine ==
  \/ Takes({"too_long"}) /\ Rejects(1, "too_long")
  \/ Takes({"too_many_fields"}) /\ Rejects(line.columns[4], "too_many_fields")

\* Mutant of WrongFieldCount: the line is passed over.
WrongFieldCount_Silent == Takes({"unrecognised"}) /\ UNCHANGED <<imageVars, errorVars>>

WrongFieldCount == Takes({"unrecognised"}) /\ Rejects(1, "unrecognised")

StartDirective ==
  /\ Takes({"start"})
  /\ \/ has_start_address /\ Rejects(line.columns[1], "duplicate_start")
     \/ ~has_start_address /\ line.address = {} /\ Rejects(line.columns[2], "bad_address")
     \/ /\ ~has_start_address
        /\ line.address # {}
        /\ start_address' \in line.address
        /\ has_start_address' = TRUE
        /\ UNCHANGED <<memory, assigned, errorVars>>

\* Mutant of IsAssigned: a location that holds 0 is taken for a free one.
IsAssigned_HoldsSomething(location) == \E a \in location : memory[a] # 0

IsAssigned(location) == \E a \in location : assigned[a]

BadLocation ==
  /\ Takes({"dw", "instruction"})
  /\ \/ line.location = {} /\ Rejects(line.columns[1], "bad_address")
     \/ IsAssigned(line.location) /\ Rejects(line.columns[1], "already_assigned")

\* A line that is told what it assigns to.
Locates(form) ==
  /\ Takes({form})
  /\ line.location # {}
  /\ ~IsAssigned(line.location)

Assigns(word) ==
  /\ memory' = [a \in Address |-> IF a \in line.location THEN word ELSE memory[a]]
  /\ assigned' = [a \in Address |-> a \in line.location \/ assigned[a]]
  /\ UNCHANGED <<start_address, has_start_address, errorVars>>

DataWord ==
  /\ Locates("dw")
  /\ \/ line.value = {} /\ Rejects(line.columns[3], "bad_integer")
     \/ \E value \in line.value :
          \/ value \notin Number /\ Rejects(line.columns[3], "out_of_range")
          \/ value \in Number /\ Assigns(lgp30_word_from_signed(value))

Instruction ==
  /\ Locates("instruction")
  /\ \/ line.opcode = {} /\ Rejects(line.columns[2], "bad_opcode")
     \/ line.opcode # {} /\ line.operand = {} /\ Rejects(line.columns[3], "bad_address")
     \/ \E opcode \in line.opcode, operand \in line.operand :
          Assigns(lgp30_make_instruction(opcode, operand))

AsmDone == line_no = Len(source) /\ UNCHANGED asmVars

AsmNext ==
  \/ BlankLine \/ OverlongLine \/ WrongFieldCount \/ StartDirective
  \/ BadLocation \/ DataWord \/ Instruction
  \/ AsmDone

AsmSpec == AsmInit /\ [][AsmNext]_asmVars

\* What load_program makes of the result of asm_assemble: the errors, if any was
\* recorded, or else the image.
AssembledFile ==
  IF errors = <<>>
  THEN [result |-> "LOAD_OK", image |-> memory, assigned |-> {a \in Address : assigned[a]},
        start |-> IF has_start_address THEN {start_address} ELSE {}]
  ELSE [result |-> "LOAD_ASM_ERROR"]

-----------------------------------------------------------------------------
(* Properties.                                                             *)

AsmTypeOK ==
  /\ source \in Seq(Line)
  /\ line_no \in 0 .. Len(source)
  /\ memory \in [Address -> Word]
  /\ assigned \in [Address -> BOOLEAN]
  /\ start_address \in Address
  /\ has_start_address \in BOOLEAN
  /\ errors \in Seq([line : 1 .. line_no, column : Nat \ {0}, message : Messages])
  /\ error_capacity \in Nat
  /\ lost \subseteq 1 .. line_no

\* The errors fit in the buffer the code writes them to, which is never more
\* than twice too large once it has grown (asm.c:106-116).
ErrorsFitTheirBuffer ==
  /\ Len(errors) <= error_capacity
  /\ error_capacity > FIRST_CAPACITY => error_capacity < 2 * Len(errors)

\* A line that a reader of asm.h's grammar would call correct on its own.
WellFormed(l) ==
  \/ l.form = "start" /\ l.address # {}
  \/ l.form = "dw" /\ l.location # {} /\ l.value \cap Number # {}
  \/ l.form = "instruction" /\ l.location # {} /\ l.opcode # {} /\ l.operand # {}

\* Two lines of which a program may have only one.
SameTarget(l, k) ==
  \/ l.form = "start" /\ k.form = "start"
  \/ l.form # "start" /\ k.form # "start" /\ l.location = k.location

\* The i-th line has the target of a well-formed one before it.
Repeats(i) ==
  /\ source[i].form \in {"start", "dw", "instruction"}
  /\ \E j \in 1 .. i - 1 : WellFormed(source[j]) /\ SameTarget(source[j], source[i])

\* The lines so far that make up the program: well-formed ones, the first of
\* each target.
Accepted == {i \in 1 .. line_no : WellFormed(source[i]) /\ ~Repeats(i)}

\* What a line says, read back from the word it became.
ReadsBack(word, l) ==
  IF l.form = "dw" THEN lgp30_word_to_signed(word) \in l.value
  ELSE lgp30_opcode(word) \in l.opcode /\ lgp30_instruction_address(word) \in l.operand

\* The image holds exactly the accepted lines: every one can be read back, no
\* word comes from anywhere else, and a rejected line leaves no trace, not
\* even in the location or the start address that a later line then gets
\* (asm.c:167-233).
ImageHoldsAcceptedLines ==
  /\ \A a \in Address :
       /\ assigned[a] <=>
            \E i \in Accepted : source[i].form # "start" /\ source[i].location = {a}
       /\ ~assigned[a] => memory[a] = 0
  /\ has_start_address <=> \E i \in Accepted : source[i].form = "start"
  /\ \A i \in Accepted :
       IF source[i].form = "start" THEN source[i].address = {start_address}
       ELSE \A a \in source[i].location : ReadsBack(memory[a], source[i])

\* No word of a program has a spacer: a loader that copies the image to the
\* drum keeps the drum's words as every drum_write() does (types.h:94).
ImageHasNoSpacer == memory \in [Address -> DrumWord]

\* Every line is accepted, blank, reported once, in the order of the source,
\* or lost for want of memory; and none is two of these (asm.c:133-234).
EveryLineIsAccountedFor ==
  LET reported == {errors[i].line : i \in DOMAIN errors}
  IN /\ \A i, j \in DOMAIN errors : i < j => errors[i].line < errors[j].line
     /\ reported \cap lost = {}
     /\ reported \cup lost =
          {i \in 1 .. line_no : source[i].form # "blank"} \ Accepted

\* "On success, result->error_count == 0 and result->image holds the program"
\* (asm.h:34-35): an empty list of errors means that the program is whole.
NoErrorsMeansWhole ==
  errors = <<>> => \A i \in 1 .. line_no : source[i].form = "blank" \/ i \in Accepted
=============================================================================
