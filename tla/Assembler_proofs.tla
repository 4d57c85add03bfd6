-------------------------- MODULE Assembler_proofs --------------------------
(***************************************************************************)
(* Proofs about the assembler, for every layout of the word, every set of  *)
(* programs, every first capacity of the list of errors, and an allocator  *)
(* that may fail whenever it is asked.                                     *)
(***************************************************************************)
EXTENDS Assembler, LoadResults, LGP30Types_proofs, SequenceTheorems

-----------------------------------------------------------------------------
(* Types.                                                                  *)

\* A step that takes the next line, and has one to take.
Advances == line_no < Len(source) /\ line_no' = line_no + 1 /\ UNCHANGED source

\* The next line of a program that has one.
LEMMA LineTyped ==
  ASSUME AsmTypeOK, line_no < Len(source)
  PROVE  line \in Line /\ line_no \in Nat /\ line_no + 1 \in 1 .. Len(source)
  <1>1. source \in Seq(Line) /\ Len(source) \in Nat /\ line_no \in 0 .. Len(source)
    BY LenProperties DEF AsmTypeOK
  <1>2. line_no + 1 \in 1 .. Len(source)
    BY <1>1
  <1>3. line \in Line
    BY <1>1, <1>2, ElementOfSeq DEF line
  <1> QED
    BY <1>1, <1>2, <1>3

\* The fields of a line, by its form.
LEMMA FieldsTyped ==
  ASSUME NEW l \in Line
  PROVE  /\ l.form \in {"blank", "too_long", "too_many_fields", "unrecognised",
                        "start", "dw", "instruction"}
         /\ l.form = "start" => l.address \in Field(Address)
         /\ l.form = "dw" => l.location \in Field(Address) /\ l.value \in Field(Integer)
         /\ l.form = "instruction" => /\ l.location \in Field(Address)
                                      /\ l.opcode \in Field(0 .. 15)
                                      /\ l.operand \in Field(Address)
  BY DEF Line

\* The columns of a line's fields.
LEMMA ColumnsTyped ==
  ASSUME NEW l \in Line
  PROVE  /\ l.form = "too_many_fields" => l.columns[4] \in Nat \ {0}
         /\ l.form \in {"start", "dw", "instruction"} =>
              l.columns[1] \in Nat \ {0} /\ l.columns[2] \in Nat \ {0}
         /\ l.form \in {"dw", "instruction"} => l.columns[3] \in Nat \ {0}
  BY DEF Line, Columns

\* Errors of fewer lines are errors of more.
LEMMA AdvancesKeepsErrors ==
  ASSUME AsmTypeOK, Advances
  PROVE  /\ errors \in Seq([line : 1 .. line_no', column : Nat \ {0}, message : Messages])
         /\ lost \subseteq 1 .. line_no'
         /\ line_no' \in 0 .. Len(source')
         /\ source' \in Seq(Line)
  <1> DEFINE S == [line : 1 .. line_no, column : Nat \ {0}, message : Messages]
             T == [line : 1 .. line_no', column : Nat \ {0}, message : Messages]
  <1>1. line_no \in Nat /\ line_no' = line_no + 1 /\ source' = source /\ line_no < Len(source)
    BY LineTyped DEF Advances
  <1>2. 1 .. line_no \subseteq 1 .. line_no'
    BY <1>1
  <1>3. S \subseteq T
    BY <1>2
  <1>4. errors \in Seq(S)
    BY DEF AsmTypeOK
  <1>5. errors \in Seq(T)
    <2> HIDE DEF S, T
    <2> QED
      BY <1>3, <1>4, SeqMonotonic
  <1> QED
    BY <1>1, <1>2, <1>5, LineTyped DEF AsmTypeOK

LEMMA RejectsTyped ==
  ASSUME AsmTypeOK, Advances, NEW column \in Nat \ {0}, NEW message \in Messages,
         Rejects(column, message)
  PROVE  AsmTypeOK'
  <1> DEFINE T == [line : 1 .. line_no', column : Nat \ {0}, message : Messages]
             e == [line |-> line_no + 1, column |-> column, message |-> message]
  <1>1. line_no \in Nat /\ line_no' = line_no + 1
    BY LineTyped DEF Advances
  <1>2. e \in T
    BY <1>1
  <1>3. errors \in Seq(T) /\ lost \subseteq 1 .. line_no'
    BY AdvancesKeepsErrors
  <1>4. Append(errors, e) \in Seq(T)
    <2> HIDE DEF T, e
    <2> QED
      BY <1>2, <1>3
  <1>5. errors' \in Seq(T) /\ lost' \subseteq 1 .. line_no'
    <2>1. line_no + 1 \in 1 .. line_no'
      BY <1>1
    <2>2. CASE Records(column, message)
      BY <1>3, <1>4, <2>2 DEF Records
    <2>3. CASE lost' = lost \cup {line_no + 1} /\ UNCHANGED errors
      BY <1>3, <2>1, <2>3
    <2> QED
      BY <2>2, <2>3 DEF Rejects, add_errorf
  <1>6. error_capacity' \in Nat
    BY AssemblerAssumption DEF Rejects, add_errorf, grown_capacity, AsmTypeOK
  <1>7. /\ memory' \in [Address -> Word] /\ assigned' \in [Address -> BOOLEAN]
        /\ start_address' \in Address /\ has_start_address' \in BOOLEAN
    BY DEF Rejects, imageVars, AsmTypeOK
  <1>8. line_no' \in 0 .. Len(source') /\ source' \in Seq(Line)
    BY AdvancesKeepsErrors
  <1> QED
    BY <1>5, <1>6, <1>7, <1>8 DEF AsmTypeOK

\* A line that reports nothing: what it does to the image is of the right type.
LEMMA SilentTyped ==
  ASSUME AsmTypeOK, Advances, UNCHANGED errorVars,
         memory' \in [Address -> Word], assigned' \in [Address -> BOOLEAN],
         start_address' \in Address, has_start_address' \in BOOLEAN
  PROVE  AsmTypeOK'
  BY AdvancesKeepsErrors DEF AsmTypeOK, errorVars

\* Only words of the drum are assigned.
LEMMA AssignsDrumWord ==
  ASSUME AsmTypeOK, ImageHasNoSpacer, NEW word \in DrumWord, Assigns(word)
  PROVE  /\ memory' \in [Address -> DrumWord] /\ memory' \in [Address -> Word]
         /\ assigned' \in [Address -> BOOLEAN]
         /\ start_address' \in Address /\ has_start_address' \in BOOLEAN
         /\ UNCHANGED errorVars
  BY DEF Assigns, AsmTypeOK, ImageHasNoSpacer, DrumWord

-----------------------------------------------------------------------------
(* The steps.  A line that is taken is one of four kinds: it says nothing, *)
(* it is rejected, it sets the entry point, or it assigns a word.          *)

StartSet ==
  /\ line.form = "start"
  /\ ~has_start_address /\ line.address # {}
  /\ start_address' \in line.address
  /\ has_start_address' = TRUE
  /\ UNCHANGED <<memory, assigned, errorVars>>

Malformed == ~WellFormed(line)

\* What an earlier line of the program has taken: a line after it with the same
\* target is a duplicate for the assembler exactly when it is one in the text.
Taken(l) == IF l.form = "start" THEN has_start_address ELSE IsAssigned(l.location)

Duplicate == line.form \in {"start", "dw", "instruction"} /\ Taken(line)

\* The k-th field of a line is one to find fault with, when its target is taken.
FaultIn(l, taken, k) ==
  \/ l.form = "too_many_fields" /\ k = 4
  \/ l.form \in {"start", "dw", "instruction"} /\ taken /\ k = 1
  \/ l.form = "start" /\ l.address = {} /\ k = 2
  \/ l.form \in {"dw", "instruction"} /\ l.location = {} /\ k = 1
  \/ l.form = "dw" /\ l.value \cap Number = {} /\ k = 3
  \/ l.form = "instruction" /\ l.opcode = {} /\ k = 2
  \/ l.form = "instruction" /\ l.operand = {} /\ k = 3

\* A column is that of the leftmost field at fault, or of the line itself.
LeadsTo(l, taken, column) ==
  \/ (\A k \in 1 .. 4 : ~FaultIn(l, taken, k)) /\ column = 1
  \/ \E k \in 1 .. 4 : /\ FaultIn(l, taken, k)
                       /\ \A j \in 1 .. 4 : FaultIn(l, taken, j) => k <= j
                       /\ column = l.columns[k]

Leads(l, column) == LeadsTo(l, Taken(l), column)

WordSet(word) ==
  /\ line.form \in {"dw", "instruction"}
  /\ WellFormed(line)
  /\ ~IsAssigned(line.location)
  /\ word \in DrumWord
  /\ ReadsBack(word, line)
  /\ Assigns(word)

Silent == line.form = "blank" /\ UNCHANGED <<imageVars, errorVars>>

Rejected ==
  /\ line.form # "blank"
  /\ Malformed \/ Duplicate
  /\ \E column \in Nat \ {0}, message \in Messages :
       Rejects(column, message) /\ Leads(line, column)

LEMMA StepKinds ==
  ASSUME AsmTypeOK, AsmNext
  PROVE  \/ UNCHANGED asmVars
         \/ Advances /\ (Silent \/ Rejected \/ StartSet \/ \E word : WordSet(word))
  <1> DEFINE Kinds == Silent \/ Rejected \/ StartSet \/ \E word : WordSet(word)
  <1>1. ASSUME NEW forms, Takes(forms)
        PROVE  Advances /\ line \in Line /\ line.form \in forms
    BY <1>1, LineTyped DEF Takes, Advances
  <1>2. CASE BlankLine
    BY <1>1, <1>2 DEF BlankLine, Silent
  <1>3. CASE OverlongLine
    <2>1. CASE Takes({"too_long"}) /\ Rejects(1, "too_long")
      <3>1. Advances /\ line.form = "too_long"
        BY <1>1, <2>1
      <3>2. Leads(line, 1)
        BY <3>1 DEF Leads, LeadsTo, FaultIn
      <3> QED
        BY <2>1, <3>1, <3>2 DEF Rejected, Messages, Malformed, WellFormed
    <2>2. CASE Takes({"too_many_fields"}) /\ Rejects(line.columns[4], "too_many_fields")
      <3>1. Advances /\ line \in Line /\ line.form = "too_many_fields"
        BY <1>1, <2>2
      <3>2. Leads(line, line.columns[4]) /\ line.columns[4] \in Nat \ {0}
        BY <3>1, ColumnsTyped DEF Leads, LeadsTo, FaultIn
      <3> QED
        BY <2>2, <3>1, <3>2 DEF Rejected, Messages, Malformed, WellFormed
    <2> QED
      BY <1>3, <2>1, <2>2 DEF OverlongLine
  <1>4. CASE WrongFieldCount
    <2>1. Advances /\ line.form = "unrecognised" /\ Rejects(1, "unrecognised")
      BY <1>1, <1>4 DEF WrongFieldCount
    <2>2. Leads(line, 1)
      BY <2>1 DEF Leads, LeadsTo, FaultIn
    <2> QED
      BY <2>1, <2>2 DEF Rejected, Messages, Malformed, WellFormed
  <1>5. CASE StartDirective
    <2>1. Advances /\ line \in Line /\ line.form = "start"
      BY <1>1, <1>5 DEF StartDirective
    <2>2. line.columns[1] \in Nat \ {0} /\ line.columns[2] \in Nat \ {0}
      BY <2>1, ColumnsTyped
    <2>3. CASE has_start_address /\ Rejects(line.columns[1], "duplicate_start")
      <3>1. Leads(line, line.columns[1])
        BY <2>1, <2>3 DEF Leads, LeadsTo, FaultIn, Taken
      <3> QED
        BY <2>1, <2>2, <2>3, <3>1 DEF Rejected, Messages, Duplicate, Taken
    <2>4. CASE ~has_start_address /\ line.address = {} /\ Rejects(line.columns[2], "bad_address")
      <3>1. Leads(line, line.columns[2])
        BY <2>1, <2>4 DEF Leads, LeadsTo, FaultIn, Taken
      <3> QED
        BY <2>1, <2>2, <2>4, <3>1 DEF Rejected, Messages, Malformed, WellFormed
    <2>5. CASE ~has_start_address /\ line.address # {} /\ start_address' \in line.address
               /\ has_start_address' = TRUE /\ UNCHANGED <<memory, assigned, errorVars>>
      BY <2>1, <2>5 DEF StartSet
    <2> QED
      BY <1>5, <2>1, <2>3, <2>4, <2>5 DEF StartDirective
  <1>6. CASE BadLocation
    <2>1. Advances /\ line \in Line /\ line.form \in {"dw", "instruction"}
      BY <1>1, <1>6 DEF BadLocation
    <2>2. line.columns[1] \in Nat \ {0}
      BY <2>1, ColumnsTyped
    <2>3. CASE line.location = {} /\ Rejects(line.columns[1], "bad_address")
      <3>1. Leads(line, line.columns[1])
        BY <2>1, <2>3 DEF Leads, LeadsTo, FaultIn
      <3> QED
        BY <2>1, <2>2, <2>3, <3>1 DEF Rejected, Messages, Malformed, WellFormed
    <2>4. CASE IsAssigned(line.location) /\ Rejects(line.columns[1], "already_assigned")
      <3>1. Leads(line, line.columns[1])
        BY <2>1, <2>4 DEF Leads, LeadsTo, FaultIn, Taken
      <3> QED
        BY <2>1, <2>2, <2>4, <3>1 DEF Rejected, Messages, Duplicate, Taken
    <2> QED
      BY <1>6, <2>1, <2>3, <2>4 DEF BadLocation
  <1>7. CASE DataWord
    <2>1. /\ Advances /\ line \in Line /\ line.form = "dw"
          /\ line.location # {} /\ ~IsAssigned(line.location)
      BY <1>1, <1>7 DEF DataWord, Locates
    <2>2. line.value \in Field(Integer) /\ line.columns[3] \in Nat \ {0}
      BY <2>1, FieldsTyped, ColumnsTyped
    <2>3. line.value \cap Number = {} => Leads(line, line.columns[3])
      BY <2>1 DEF Leads, LeadsTo, FaultIn, Taken
    <2>4. ASSUME line.value = {}, Rejects(line.columns[3], "bad_integer") PROVE Kinds
      BY <2>1, <2>2, <2>3, <2>4 DEF Rejected, Messages, Malformed, WellFormed
    <2>5. ASSUME NEW value \in line.value, value \notin Number,
                 Rejects(line.columns[3], "out_of_range")
          PROVE  Kinds
      <3>1. line.value \cap Number = {}
        BY <2>2, <2>5 DEF Field
      <3> QED
        BY <2>1, <2>2, <2>3, <2>5, <3>1 DEF Rejected, Messages, Malformed, WellFormed
    <2>6. ASSUME NEW value \in line.value, value \in Number, Assigns(lgp30_word_from_signed(value))
          PROVE  Kinds
      <3>1. value \in Int
        BY <2>6, Layout DEF Number
      <3>2. lgp30_word_from_signed(value) \in DrumWord
        BY <3>1, WordFromSigned
      <3>3. ReadsBack(lgp30_word_from_signed(value), line)
        BY <2>1, <2>6, RoundTrip DEF ReadsBack, Number
      <3>4. WellFormed(line)
        BY <2>1, <2>6 DEF WellFormed
      <3> QED
        BY <2>1, <2>6, <3>2, <3>3, <3>4 DEF WordSet
    <2> HIDE DEF Kinds
    <2>7. Kinds
      BY <1>7, <2>4, <2>5, <2>6 DEF DataWord
    <2> QED
      BY <2>1, <2>7 DEF Kinds
  <1>8. CASE Instruction
    <2>1. /\ Advances /\ line \in Line /\ line.form = "instruction"
          /\ line.location # {} /\ ~IsAssigned(line.location)
      BY <1>1, <1>8 DEF Instruction, Locates
    <2>2. /\ line.opcode \in Field(0 .. 15) /\ line.operand \in Field(Address)
          /\ line.columns[2] \in Nat \ {0} /\ line.columns[3] \in Nat \ {0}
      BY <2>1, FieldsTyped, ColumnsTyped
    <2>3. ASSUME line.opcode = {}, Rejects(line.columns[2], "bad_opcode") PROVE Kinds
      <3>1. Leads(line, line.columns[2])
        BY <2>1, <2>3 DEF Leads, LeadsTo, FaultIn, Taken
      <3> QED
        BY <2>1, <2>2, <2>3, <3>1 DEF Rejected, Messages, Malformed, WellFormed
    <2>4. ASSUME line.opcode # {}, line.operand = {}, Rejects(line.columns[3], "bad_address")
          PROVE  Kinds
      <3>1. Leads(line, line.columns[3])
        BY <2>1, <2>4 DEF Leads, LeadsTo, FaultIn, Taken
      <3> QED
        BY <2>1, <2>2, <2>4, <3>1 DEF Rejected, Messages, Malformed, WellFormed
    <2>5. ASSUME NEW opcode \in line.opcode, NEW operand \in line.operand,
                 Assigns(lgp30_make_instruction(opcode, operand))
          PROVE  Kinds
      <3> DEFINE word == lgp30_make_instruction(opcode, operand)
      <3>1. opcode \in 0 .. 15 /\ operand \in Address
        BY <2>2 DEF Field
      <3>2. /\ word \in DrumWord /\ lgp30_opcode(word) = opcode
            /\ lgp30_instruction_address(word) = operand
        BY <3>1, InstructionWord
      <3>3. ReadsBack(word, line)
        BY <2>1, <3>2 DEF ReadsBack
      <3>4. WellFormed(line)
        BY <2>1, <2>5 DEF WellFormed
      <3> HIDE DEF word
      <3>5. Assigns(word)
        BY <2>5 DEF word
      <3> QED
        BY <2>1, <3>2, <3>3, <3>4, <3>5 DEF WordSet
    <2> HIDE DEF Kinds
    <2>6. Kinds
      BY <1>8, <2>3, <2>4, <2>5 DEF Instruction
    <2> QED
      BY <2>1, <2>6 DEF Kinds
  <1>9. CASE AsmDone
    BY <1>9 DEF AsmDone
  <1> QED
    BY <1>2, <1>3, <1>4, <1>5, <1>6, <1>7, <1>8, <1>9 DEF AsmNext

-----------------------------------------------------------------------------
(* Types, the list of errors, and spacers.                                 *)

AsmInv == AsmTypeOK /\ ImageHasNoSpacer /\ ErrorsFitTheirBuffer

LEMMA InitAsmInv == AsmInit => AsmInv
  <1> SUFFICES ASSUME AsmInit PROVE AsmInv
    OBVIOUS
  <1>1. source \in Seq(Line)
    BY AssemblerAssumption DEF AsmInit
  <1>2. Len(source) \in Nat
    BY <1>1, LenProperties
  <1>3. 0 \in DrumWord /\ 0 \in Word /\ 0 \in Address
    BY Layout DEF DrumWord, Word, Address
  <1>4. errors \in Seq([line : 1 .. line_no, column : Nat \ {0}, message : Messages]) /\ Len(errors) = 0
    BY EmptySeq DEF AsmInit
  <1>5. AsmTypeOK
    BY <1>1, <1>2, <1>3, <1>4 DEF AsmInit, AsmTypeOK
  <1>6. ImageHasNoSpacer /\ ErrorsFitTheirBuffer
    BY <1>3, <1>4, AssemblerAssumption DEF AsmInit, ImageHasNoSpacer, ErrorsFitTheirBuffer
  <1> QED
    BY <1>5, <1>6 DEF AsmInv

\* One error more, and a buffer that has grown if it was full.
LEMMA RejectsFits ==
  ASSUME AsmTypeOK, ErrorsFitTheirBuffer, NEW column, NEW message, Rejects(column, message)
  PROVE  ErrorsFitTheirBuffer'
  <1> DEFINE S == [line : 1 .. line_no, column : Nat \ {0}, message : Messages]
  <1>1. errors \in Seq(S) /\ error_capacity \in Nat /\ FIRST_CAPACITY \in Nat \ {0}
    BY AssemblerAssumption DEF AsmTypeOK
  <1> HIDE DEF S
  <1>2. Len(errors) \in Nat
    BY <1>1, LenProperties
  <1>3. Records(column, message) => Len(errors') = Len(errors) + 1
    BY <1>1 DEF Records
  <1>4. CASE Records(column, message) /\ Len(errors) # error_capacity /\ UNCHANGED error_capacity
    BY <1>1, <1>2, <1>3, <1>4 DEF ErrorsFitTheirBuffer
  <1>5. CASE Records(column, message) /\ Len(errors) = error_capacity /\ error_capacity' = grown_capacity
    BY <1>1, <1>2, <1>3, <1>5 DEF ErrorsFitTheirBuffer, grown_capacity
  <1>6. CASE UNCHANGED <<errors, error_capacity>>
    BY <1>6 DEF ErrorsFitTheirBuffer
  <1> QED
    BY <1>4, <1>5, <1>6 DEF Rejects, add_errorf

LEMMA NextAsmInv == AsmInv /\ [AsmNext]_asmVars => AsmInv'
  <1> SUFFICES ASSUME AsmInv, [AsmNext]_asmVars PROVE AsmInv'
    OBVIOUS
  <1> USE DEF AsmInv
  <1>1. CASE UNCHANGED asmVars
    BY <1>1 DEF asmVars, imageVars, errorVars, AsmTypeOK, ImageHasNoSpacer, ErrorsFitTheirBuffer
  <1>2. CASE Advances /\ Silent
    <2>1. AsmTypeOK'
      BY <1>2, SilentTyped DEF Silent, imageVars, AsmTypeOK
    <2> QED
      BY <1>2, <2>1 DEF Silent, imageVars, errorVars, ImageHasNoSpacer, ErrorsFitTheirBuffer
  <1>3. CASE Advances /\ Rejected
    <2>1. PICK column \in Nat \ {0}, message \in Messages : Rejects(column, message)
      BY <1>3 DEF Rejected
    <2>2. AsmTypeOK' /\ ErrorsFitTheirBuffer'
      BY <1>3, <2>1, RejectsTyped, RejectsFits
    <2> QED
      BY <2>1, <2>2 DEF Rejects, imageVars, ImageHasNoSpacer
  <1>4. CASE Advances /\ StartSet
    <2>1. start_address' \in Address
      <3>1. line.address \in Field(Address)
        BY <1>4, LineTyped, FieldsTyped DEF Advances, StartSet
      <3> QED
        BY <1>4, <3>1 DEF StartSet, Field
    <2>2. AsmTypeOK'
      BY <1>4, <2>1, SilentTyped DEF StartSet, AsmTypeOK
    <2> QED
      BY <1>4, <2>2 DEF StartSet, errorVars, ImageHasNoSpacer, ErrorsFitTheirBuffer
  <1>5. ASSUME Advances, NEW word, WordSet(word) PROVE AsmInv'
    <2>1. /\ memory' \in [Address -> DrumWord] /\ memory' \in [Address -> Word]
          /\ assigned' \in [Address -> BOOLEAN]
          /\ start_address' \in Address /\ has_start_address' \in BOOLEAN
          /\ UNCHANGED errorVars
      BY <1>5, AssignsDrumWord DEF WordSet
    <2>2. AsmTypeOK'
      BY <1>5, <2>1, SilentTyped
    <2> QED
      BY <2>1, <2>2 DEF errorVars, ImageHasNoSpacer, ErrorsFitTheirBuffer
  <1> QED
    BY <1>1, <1>2, <1>3, <1>4, <1>5, StepKinds

LEMMA AsmInvAlways == AsmSpec => []AsmInv
  BY InitAsmInv, NextAsmInv, PTL DEF AsmSpec

\* The image and the list of errors keep their types, whatever the program and
\* whenever memory runs out (asm.c:125-235).
THEOREM AsmTypeCorrect == AsmSpec => []AsmTypeOK
  BY AsmInvAlways, PTL DEF AsmInv

\* No error is written past the end of the list, which doubles from nothing
\* (asm.c:106-116), for every first capacity.
THEOREM ErrorsAlwaysFit == AsmSpec => []ErrorsFitTheirBuffer
  BY AsmInvAlways, PTL DEF AsmInv

\* No program, however its numbers and instructions are written, gives the loader
\* a word with a spacer: what MachineAssumption asks of the images of LGP30CPU.
THEOREM ImageNeverHasSpacer == AsmSpec => []ImageHasNoSpacer
  BY AsmInvAlways, PTL DEF AsmInv

\* Every program, also one cut short by a lost error, is for the loader a file of the
\* kind that its proofs assume and no other: what FilesAssumption asks of Files, the
\* assembler ensures (program_loader.c:52-75).
THEOREM AssembledProgramsAreLoadResults == AsmSpec => [](AssembledFile \in LoadResult)
  <1>1. AsmInv => AssembledFile \in LoadResult
    <2> SUFFICES ASSUME AsmInv PROVE AssembledFile \in LoadResult
      OBVIOUS
    <2>1. /\ memory \in [Address -> DrumWord] /\ start_address \in Address
          /\ {a \in Address : assigned[a]} \in SUBSET Address
      BY DEF AsmInv, AsmTypeOK, ImageHasNoSpacer
    <2>2. CASE errors = <<>>
      <3>1. (IF has_start_address THEN {start_address} ELSE {}) \in {{}} \cup {{a} : a \in Address}
        BY <2>1
      <3> QED
        BY <2>1, <2>2, <3>1 DEF AssembledFile, LoadResult, ImageFile
    <2>3. CASE errors # <<>>
      BY <2>3 DEF AssembledFile, LoadResult, FailedFile
    <2> QED
      BY <2>2, <2>3
  <1> QED
    BY <1>1, AsmInvAlways, PTL

-----------------------------------------------------------------------------
(* The image is the accepted lines, and every other line is reported.      *)

EarlierLinesTake ==
  \A i \in 1 .. line_no : WellFormed(source[i]) => Taken(source[i])

ImageInv == ImageHoldsAcceptedLines /\ EarlierLinesTake /\ EveryLineIsAccountedFor

Fresh == WellFormed(line)
         /\ \A j \in 1 .. line_no : WellFormed(source[j]) => ~SameTarget(source[j], line)

LEMMA WellFormedForms ==
  ASSUME NEW l, WellFormed(l)
  PROVE  l.form \in {"start", "dw", "instruction"}
  BY DEF WellFormed

LEMMA AcceptedGrows ==
  ASSUME AsmTypeOK, Advances
  PROVE  /\ Accepted \subseteq 1 .. line_no
         /\ line_no + 1 \notin Accepted
         /\ Accepted' = IF Fresh THEN Accepted \cup {line_no + 1} ELSE Accepted
  <1>1. line_no \in Nat /\ line_no' = line_no + 1 /\ source' = source
    BY LineTyped DEF Advances
  <1>2. Accepted \subseteq 1 .. line_no /\ line_no + 1 \notin Accepted
    BY <1>1 DEF Accepted
  <1>3. 1 .. line_no' = 1 .. line_no \cup {line_no + 1} /\ 1 .. (line_no + 1) - 1 = 1 .. line_no
    BY <1>1
  <1> DEFINE First(i) == WellFormed(source[i]) /\ ~Repeats(i)
  <1>4. Accepted = {i \in 1 .. line_no : First(i)}
    BY DEF Accepted
  <1>5. Accepted' = {i \in 1 .. line_no' : First(i)}
    BY <1>1 DEF Accepted, Repeats, WellFormed, SameTarget
  <1>6. First(line_no + 1) <=> Fresh
    BY <1>3, WellFormedForms DEF Repeats, Fresh, line
  <1> HIDE DEF First
  <1>7. Accepted' = {i \in 1 .. line_no : First(i)} \cup {i \in {line_no + 1} : First(i)}
    BY <1>3, <1>5
  <1> QED
    BY <1>2, <1>4, <1>6, <1>7

\* For the assembler a target is taken exactly when a correct line before has it.
LEMMA TakenIsRepeated ==
  ASSUME AsmTypeOK, ImageInv, Advances, line.form \in {"start", "dw", "instruction"}
  PROVE  Taken(line) <=>
           \E j \in 1 .. line_no : WellFormed(source[j]) /\ SameTarget(source[j], line)
  <1>1. line \in Line /\ source \in Seq(Line)
    BY LineTyped DEF Advances, AsmTypeOK
  <1>2. ASSUME Taken(line), line.form = "start"
        PROVE  \E j \in 1 .. line_no : WellFormed(source[j]) /\ SameTarget(source[j], line)
    <2>1. PICK i \in Accepted : source[i].form = "start"
      BY <1>2 DEF Taken, ImageInv, ImageHoldsAcceptedLines
    <2> QED
      BY <1>2, <2>1 DEF Accepted, SameTarget
  <1>3. ASSUME Taken(line), line.form # "start"
        PROVE  \E j \in 1 .. line_no : WellFormed(source[j]) /\ SameTarget(source[j], line)
    <2>1. PICK a \in line.location : assigned[a]
      BY <1>3 DEF Taken, IsAssigned
    <2>2. line.location \in Field(Address)
      BY <1>1, <1>3, FieldsTyped
    <2>3. line.location = {a} /\ a \in Address
      BY <2>1, <2>2 DEF Field
    <2>4. PICK i \in Accepted : source[i].form # "start" /\ source[i].location = {a}
      BY <2>1, <2>3 DEF ImageInv, ImageHoldsAcceptedLines
    <2> QED
      BY <1>3, <2>3, <2>4 DEF Accepted, SameTarget
  <1>4. ASSUME NEW j \in 1 .. line_no, WellFormed(source[j]), SameTarget(source[j], line)
        PROVE  Taken(line)
    <2>1. Taken(source[j])
      BY <1>4 DEF ImageInv, EarlierLinesTake
    <2> QED
      BY <1>4, <2>1 DEF SameTarget, Taken
  <1> QED
    BY <1>2, <1>3, <1>4

\* A line is accepted exactly when it is well formed and its target is free.
LEMMA FreshIsFree ==
  ASSUME AsmTypeOK, ImageInv, Advances
  PROVE  Fresh <=> WellFormed(line) /\ ~Taken(line)
  BY TakenIsRepeated, WellFormedForms DEF Fresh

\* The image as it is when the next line leaves it alone.
LEMMA LeavesImage ==
  ASSUME AsmTypeOK, ImageInv, Advances, ~Fresh, UNCHANGED imageVars
  PROVE  ImageHoldsAcceptedLines' /\ EarlierLinesTake'
  <1>1. Accepted' = Accepted /\ Accepted \subseteq 1 .. line_no
    BY AcceptedGrows
  <1>2. line_no \in Nat /\ line_no' = line_no + 1 /\ source' = source
    BY LineTyped DEF Advances
  <1>3. ImageHoldsAcceptedLines'
    BY <1>1, <1>2 DEF ImageInv, ImageHoldsAcceptedLines, imageVars, ReadsBack
  <1>4. \A i \in 1 .. line_no' : i \in 1 .. line_no \/ source[i] = line
    BY <1>2 DEF line
  <1>5. WellFormed(line) => Taken(line)
    BY FreshIsFree
  <1>6. EarlierLinesTake'
    BY <1>2, <1>4, <1>5
    DEF ImageInv, EarlierLinesTake, imageVars, Taken, IsAssigned, WellFormed
  <1> QED
    BY <1>3, <1>6

\* The image when the next line sets the entry point.
LEMMA SetsStart ==
  ASSUME AsmTypeOK, ImageInv, Advances, StartSet
  PROVE  Fresh /\ ImageHoldsAcceptedLines' /\ EarlierLinesTake'
  <1>1. line \in Line /\ line_no \in Nat /\ line_no' = line_no + 1 /\ source' = source
    BY LineTyped DEF Advances
  <1>2. line.form = "start" /\ line.address = {start_address'} /\ has_start_address'
        /\ ~has_start_address /\ memory' = memory /\ assigned' = assigned
    <2>1. line.address \in Field(Address)
      BY <1>1, FieldsTyped DEF StartSet
    <2> QED
      BY <2>1 DEF StartSet, Field
  <1>3. Fresh
    BY <1>2, FreshIsFree DEF StartSet, WellFormed, Taken
  <1>4. Accepted' = Accepted \cup {line_no + 1} /\ Accepted \subseteq 1 .. line_no
    BY <1>3, AcceptedGrows
  <1>5. source'[line_no + 1] = line
    BY <1>1 DEF line
  <1>6. \A i \in Accepted : source[i].form # "start"
    BY <1>2 DEF ImageInv, ImageHoldsAcceptedLines
  <1>7. \A i \in Accepted : \A a \in source[i].location : ReadsBack(memory[a], source[i])
    BY <1>6 DEF ImageInv, ImageHoldsAcceptedLines
  <1>8. \A a \in Address :
          /\ assigned[a] <=>
               \E i \in Accepted : source[i].form # "start" /\ source[i].location = {a}
          /\ ~assigned[a] => memory[a] = 0
    BY DEF ImageInv, ImageHoldsAcceptedLines
  <1>9. ImageHoldsAcceptedLines'
    <2>1. \A a \in Address :
            /\ assigned'[a] <=>
                 \E i \in Accepted' : source'[i].form # "start" /\ source'[i].location = {a}
            /\ ~assigned'[a] => memory'[a] = 0
      BY <1>1, <1>2, <1>4, <1>5, <1>8
    <2>2. has_start_address' <=> \E i \in Accepted' : source'[i].form = "start"
      BY <1>2, <1>4, <1>5
    <2>3. \A i \in Accepted' :
            IF source'[i].form = "start" THEN source'[i].address = {start_address'}
            ELSE \A a \in source'[i].location : ReadsBack(memory'[a], source'[i])
      BY <1>1, <1>2, <1>4, <1>5, <1>6, <1>7
    <2> QED
      BY <2>1, <2>2, <2>3 DEF ImageHoldsAcceptedLines, ReadsBack
  <1>10. EarlierLinesTake'
    <2>1. \A i \in 1 .. line_no' : i \in 1 .. line_no \/ source[i] = line
      BY <1>1 DEF line
    <2>2. \A i \in 1 .. line_no : WellFormed(source[i]) =>
            source[i].form # "start" /\ IsAssigned(source[i].location)
      BY <1>2 DEF ImageInv, EarlierLinesTake, Taken
    <2>3. \A i \in 1 .. line_no' : WellFormed(source'[i]) =>
            \/ source'[i].form = "start" /\ has_start_address'
            \/ source'[i].form # "start" /\ \E a \in source'[i].location : assigned'[a]
      BY <1>1, <1>2, <2>1, <2>2 DEF IsAssigned
    <2> QED
      BY <2>3 DEF EarlierLinesTake, Taken, IsAssigned, WellFormed
  <1> QED
    BY <1>3, <1>9, <1>10

\* The image when the next line assigns a word.
LEMMA SetsWord ==
  ASSUME AsmTypeOK, ImageInv, Advances, NEW word, WordSet(word)
  PROVE  Fresh /\ ImageHoldsAcceptedLines' /\ EarlierLinesTake'
  <1>1. line \in Line /\ line_no \in Nat /\ line_no' = line_no + 1 /\ source' = source
    BY LineTyped DEF Advances
  <1>2. PICK at \in Address : line.location = {at}
    <2>1. line.location \in Field(Address) /\ line.location # {}
      BY <1>1, FieldsTyped DEF WordSet, WellFormed
    <2> QED
      BY <2>1 DEF Field
  <1>3. /\ line.form # "start" /\ ~assigned[at] /\ ReadsBack(word, line)
        /\ start_address' = start_address /\ has_start_address' = has_start_address
    BY <1>2 DEF WordSet, IsAssigned, Assigns
  <1>4. /\ \A a \in Address : memory'[a] = IF a = at THEN word ELSE memory[a]
        /\ \A a \in Address : assigned'[a] <=> (a = at \/ assigned[a])
    BY <1>2 DEF WordSet, Assigns
  <1>5. Fresh
    BY <1>3, FreshIsFree DEF WordSet, Taken
  <1>6. Accepted' = Accepted \cup {line_no + 1} /\ Accepted \subseteq 1 .. line_no
    BY <1>5, AcceptedGrows
  <1>7. source'[line_no + 1] = line
    BY <1>1 DEF line
  <1>8. /\ \A a \in Address :
             /\ assigned[a] <=>
                  \E i \in Accepted : source[i].form # "start" /\ source[i].location = {a}
             /\ ~assigned[a] => memory[a] = 0
        /\ has_start_address <=> \E i \in Accepted : source[i].form = "start"
        /\ \A i \in Accepted :
             IF source[i].form = "start" THEN source[i].address = {start_address}
             ELSE \A a \in source[i].location : ReadsBack(memory[a], source[i])
    BY DEF ImageInv, ImageHoldsAcceptedLines
  <1>9. \A i \in Accepted : source[i].form # "start" =>
          source[i].location \subseteq Address /\ at \notin source[i].location
    <2>1. SUFFICES ASSUME NEW i \in Accepted, source[i].form # "start"
          PROVE  source[i].location \subseteq Address /\ at \notin source[i].location
      OBVIOUS
    <2>2. i \in 1 .. line_no /\ WellFormed(source[i])
      BY <2>1 DEF Accepted
    <2>3. source[i] \in Line
      <3>1. source \in Seq(Line) /\ i \in 1 .. Len(source)
        BY <2>2, LenProperties DEF AsmTypeOK
      <3> QED
        BY <3>1, ElementOfSeq
    <2>4. source[i].location \in Field(Address)
      BY <2>1, <2>2, <2>3, FieldsTyped DEF WellFormed
    <2>5. ASSUME at \in source[i].location PROVE FALSE
      BY <1>3, <1>8, <2>1, <2>4, <2>5 DEF Field
    <2> QED
      BY <2>4, <2>5 DEF Field
  <1>10. ImageHoldsAcceptedLines'
    <2>1. \A a \in Address :
            /\ assigned'[a] <=>
                 \E i \in Accepted' : source'[i].form # "start" /\ source'[i].location = {a}
            /\ ~assigned'[a] => memory'[a] = 0
      BY <1>1, <1>2, <1>3, <1>4, <1>6, <1>7, <1>8
    <2>2. has_start_address' <=> \E i \in Accepted' : source'[i].form = "start"
      BY <1>1, <1>3, <1>6, <1>7, <1>8
    <2>3. \A i \in Accepted' :
            IF source'[i].form = "start" THEN source'[i].address = {start_address'}
            ELSE \A a \in source'[i].location : ReadsBack(memory'[a], source'[i])
      <3>1. \A a \in line.location : ReadsBack(memory'[a], line)
        BY <1>2, <1>3, <1>4
      <3>2. \A i \in Accepted : source[i].form # "start" =>
              \A a \in source[i].location : memory'[a] = memory[a]
        BY <1>4, <1>9
      <3> QED
        BY <1>1, <1>3, <1>6, <1>7, <1>8, <3>1, <3>2
    <2> QED
      BY <2>1, <2>2, <2>3 DEF ImageHoldsAcceptedLines, ReadsBack
  <1>11. EarlierLinesTake'
    <2>1. \A i \in 1 .. line_no' : i \in 1 .. line_no \/ source[i] = line
      BY <1>1 DEF line
    <2>2. \A i \in 1 .. line_no : WellFormed(source[i]) =>
            IF source[i].form = "start" THEN has_start_address
            ELSE \E a \in source[i].location : assigned[a]
      BY DEF ImageInv, EarlierLinesTake, Taken, IsAssigned
    <2>3. \A i \in 1 .. line_no : WellFormed(source[i]) /\ source[i].form # "start" =>
            source[i].location \subseteq Address
      <3>1. SUFFICES ASSUME NEW i \in 1 .. line_no, WellFormed(source[i]), source[i].form # "start"
            PROVE  source[i].location \subseteq Address
        OBVIOUS
      <3>2. source[i] \in Line
        <4>1. source \in Seq(Line) /\ i \in 1 .. Len(source)
          BY LenProperties DEF AsmTypeOK
        <4> QED
          BY <4>1, ElementOfSeq
      <3>3. source[i].location \in Field(Address)
        BY <3>1, <3>2, FieldsTyped DEF WellFormed
      <3> QED
        BY <3>3 DEF Field
    <2>4. \A i \in 1 .. line_no' : WellFormed(source[i]) =>
            IF source[i].form = "start" THEN has_start_address'
            ELSE \E a \in source[i].location : assigned'[a]
      <3>1. \E a \in line.location : assigned'[a]
        BY <1>2, <1>4
      <3> QED
        BY <1>3, <1>4, <2>1, <2>2, <2>3, <3>1
    <2> QED
      BY <1>1, <2>4 DEF EarlierLinesTake, Taken, IsAssigned, WellFormed
  <1> QED
    BY <1>5, <1>10, <1>11

-----------------------------------------------------------------------------
(* The lines reported.                                                     *)

ReportedLines == {errors[i].line : i \in DOMAIN errors}

\* What one step does to the lines that are reported, lost and accounted for.
LEMMA AccountsForLine ==
  ASSUME AsmTypeOK, EveryLineIsAccountedFor, Advances,
         \/ ~Fresh /\ line.form # "blank" /\ \E column, message : Rejects(column, message)
         \/ (Fresh \/ line.form = "blank") /\ UNCHANGED errorVars
  PROVE  EveryLineIsAccountedFor'
  <1> DEFINE S == [line : 1 .. line_no, column : Nat \ {0}, message : Messages]
             Spoken == {i \in 1 .. line_no : source[i].form # "blank"}
  <1>1. line_no \in Nat /\ line_no' = line_no + 1 /\ source' = source
    BY LineTyped DEF Advances
  <1>2. errors \in Seq(S) /\ lost \subseteq 1 .. line_no
    BY DEF AsmTypeOK
  <1>3. /\ Len(errors) \in Nat /\ DOMAIN errors = 1 .. Len(errors)
        /\ \A i \in DOMAIN errors : errors[i] \in S
    <2> HIDE DEF S
    <2> QED
      BY <1>2, LenProperties, ElementOfSeq
  <1>4. \A i \in DOMAIN errors : errors[i].line \in 1 .. line_no
    BY <1>3
  <1>5. /\ \A i, j \in DOMAIN errors : i < j => errors[i].line < errors[j].line
        /\ ReportedLines \cap lost = {}
        /\ ReportedLines \cup lost = Spoken \ Accepted
    BY DEF EveryLineIsAccountedFor, ReportedLines
  <1>6. ReportedLines \subseteq 1 .. line_no
    BY <1>4 DEF ReportedLines
  <1>7. /\ Accepted \subseteq 1 .. line_no
        /\ Accepted' = IF Fresh THEN Accepted \cup {line_no + 1} ELSE Accepted
    BY AcceptedGrows
  <1>8. Spoken' = IF line.form = "blank" THEN Spoken ELSE Spoken \cup {line_no + 1}
    BY <1>1 DEF line
  <1>9. (Spoken \ Accepted)' =
          IF Fresh \/ line.form = "blank" THEN Spoken \ Accepted
          ELSE (Spoken \ Accepted) \cup {line_no + 1}
    <2>1. line_no + 1 \notin Spoken /\ line_no + 1 \notin Accepted
      BY <1>1, <1>7
    <2>2. Fresh => line.form # "blank"
      BY WellFormedForms DEF Fresh
    <2> HIDE DEF Spoken
    <2> QED
      BY <1>7, <1>8, <2>1, <2>2
  <1> HIDE DEF Spoken
  <1>10. CASE (Fresh \/ line.form = "blank") /\ UNCHANGED errorVars
    <2>1. ReportedLines' = ReportedLines /\ lost' = lost /\ errors' = errors
      BY <1>10 DEF ReportedLines, errorVars
    <2>2. (ReportedLines \cup lost)' = (Spoken \ Accepted)'
      BY <1>5, <1>9, <1>10, <2>1
    <2> QED
      BY <1>5, <2>1, <2>2 DEF EveryLineIsAccountedFor, ReportedLines, Spoken
  <1>11. ASSUME ~Fresh, line.form # "blank", NEW column, NEW message, Rejects(column, message)
         PROVE  EveryLineIsAccountedFor'
    <2>1. CASE Records(column, message)
      <3> DEFINE e == [line |-> line_no + 1, column |-> column, message |-> message]
      <3>1. errors' = Append(errors, e) /\ lost' = lost
        BY <2>1 DEF Records
      <3>2. /\ DOMAIN errors' = 1 .. Len(errors) + 1
            /\ \A i \in DOMAIN errors : errors'[i] = errors[i]
            /\ errors'[Len(errors) + 1] = e
        <4> HIDE DEF S, e
        <4> QED
          BY <1>2, <1>3, <3>1
      <3>3. ReportedLines' = ReportedLines \cup {line_no + 1}
        <4>1. DOMAIN errors' = DOMAIN errors \cup {Len(errors) + 1}
          BY <1>3, <3>2
        <4>2. e.line = line_no + 1
          OBVIOUS
        <4> QED
          BY <3>2, <4>1, <4>2 DEF ReportedLines
      <3>4. \A i, j \in DOMAIN errors' : i < j => errors'[i].line < errors'[j].line
        <4>1. SUFFICES ASSUME NEW i \in DOMAIN errors', NEW j \in DOMAIN errors', i < j
              PROVE  errors'[i].line < errors'[j].line
          OBVIOUS
        <4>2. i \in DOMAIN errors /\ errors'[i] = errors[i]
          BY <1>3, <3>2, <4>1
        <4>3. CASE j \in DOMAIN errors
          BY <1>5, <3>2, <4>1, <4>2, <4>3
        <4>4. CASE j = Len(errors) + 1
          <5>1. errors'[j].line = line_no + 1 /\ errors'[i].line \in 1 .. line_no
            BY <1>4, <3>2, <4>2, <4>4
          <5> QED
            BY <1>1, <5>1
        <4> QED
          BY <1>3, <3>2, <4>3, <4>4
      <3>5. (ReportedLines \cap lost)' = {}
        BY <1>1, <1>2, <1>5, <3>1, <3>3
      <3>6. (ReportedLines \cup lost)' = (Spoken \ Accepted)'
        BY <1>5, <1>9, <1>11, <3>1, <3>3
      <3> QED
        BY <3>4, <3>5, <3>6 DEF EveryLineIsAccountedFor, ReportedLines, Spoken
    <2>2. CASE lost' = lost \cup {line_no + 1} /\ UNCHANGED errors
      <3>1. ReportedLines' = ReportedLines
        BY <2>2 DEF ReportedLines
      <3>2. (ReportedLines \cap lost)' = {}
        BY <1>1, <1>5, <1>6, <2>2, <3>1
      <3>3. (ReportedLines \cup lost)' = (Spoken \ Accepted)'
        BY <1>5, <1>9, <1>11, <2>2, <3>1
      <3> QED
        BY <1>5, <2>2, <3>2, <3>3 DEF EveryLineIsAccountedFor, ReportedLines, Spoken
    <2> QED
      BY <1>11, <2>1, <2>2 DEF Rejects, add_errorf
  <1> QED
    BY <1>10, <1>11

\* A step reports at most the line it takes, at a column that leads to its fault.
LEMMA StepErrors ==
  ASSUME AsmTypeOK, AsmNext
  PROVE  \/ errors' = errors
         \/ /\ Advances
            /\ \E column, message :
                 /\ Leads(line, column)
                 /\ errors' = Append(errors, [line |-> line_no + 1, column |-> column,
                                             message |-> message])
  <1>1. ASSUME NEW column, NEW message, Rejects(column, message)
        PROVE  \/ errors' = errors
               \/ errors' = Append(errors, [line |-> line_no + 1, column |-> column,
                                            message |-> message])
    BY <1>1 DEF Rejects, add_errorf, Records
  <1>2. CASE UNCHANGED asmVars
    BY <1>2 DEF asmVars, errorVars
  <1>3. CASE Silent \/ StartSet \/ \E word : WordSet(word)
    BY <1>3 DEF Silent, StartSet, WordSet, Assigns, errorVars
  <1>4. CASE Advances /\ Rejected
    <2>1. PICK column \in Nat \ {0}, message \in Messages :
            Rejects(column, message) /\ Leads(line, column)
      BY <1>4 DEF Rejected
    <2> QED
      BY <1>1, <1>4, <2>1
  <1> QED
    BY <1>2, <1>3, <1>4, StepKinds

\* The column of an error leads to a field at fault, in the lines as they stand.
ErrorsLead ==
  \A n \in DOMAIN errors : \A i, column :
    i = errors[n].line /\ column = errors[n].column => LeadsTo(source[i], Repeats(i), column)

\* For a line as for the assembler: its target is one of a line before it.
LEMMA LeadsInText ==
  ASSUME AsmTypeOK, ImageInv, Advances, NEW column, Leads(line, column),
         NEW i, i = line_no + 1
  PROVE  LeadsTo(source[i], Repeats(i), column)
  <1> DEFINE taken == Taken(line)
             repeats == Repeats(i)
  <1>1. line_no \in Nat /\ i - 1 = line_no /\ source[i] = line
    BY LineTyped DEF Advances, line
  <1>2. line.form \in {"start", "dw", "instruction"} => (taken <=> repeats)
    <2>1. line.form \in {"start", "dw", "instruction"} =>
            (taken <=> \E j \in 1 .. line_no : WellFormed(source[j]) /\ SameTarget(source[j], line))
      BY TakenIsRepeated
    <2> QED
      BY <1>1, <2>1, Zenon DEF Repeats
  <1>3. LeadsTo(line, taken, column)
    BY DEF Leads
  <1> HIDE DEF taken, repeats
  <1>4. \A k : FaultIn(line, taken, k) <=> FaultIn(line, repeats, k)
    BY <1>2, Zenon DEF FaultIn
  <1> QED
    BY <1>1, <1>3, <1>4, Zenon DEF LeadsTo, repeats

LEMMA KeepsErrorsLead ==
  ASSUME AsmTypeOK, ErrorsLead, UNCHANGED errors,
         \A j \in 1 .. line_no : source'[j] = source[j]
  PROVE  ErrorsLead'
  <1> DEFINE S == [line : 1 .. line_no, column : Nat \ {0}, message : Messages]
  <1>1. \A n \in DOMAIN errors : errors[n].line \in 1 .. line_no /\ line_no \in Nat
    <2>1. errors \in Seq(S) /\ line_no \in 0 .. Len(source) /\ source \in Seq(Line)
      BY DEF AsmTypeOK
    <2>2. \A n \in DOMAIN errors : errors[n] \in S
      <3> HIDE DEF S
      <3> QED
        BY <2>1, LenProperties, ElementOfSeq
    <2> QED
      BY <2>1, <2>2
  <1> HIDE DEF S
  <1>2. ASSUME NEW n \in DOMAIN errors, NEW i, NEW column,
               i = errors[n].line, column = errors[n].column
        PROVE  LeadsTo(source'[i], Repeats(i)', column)
    <2>1. i \in 1 .. line_no /\ line_no \in Nat
      BY <1>1, <1>2
    <2>2. source'[i] = source[i] /\ \A j \in 1 .. i - 1 : source'[j] = source[j]
      BY <2>1
    <2>3. Repeats(i)' <=> Repeats(i)
      BY <2>2 DEF Repeats, WellFormed, SameTarget
    <2>4. LeadsTo(source[i], Repeats(i), column)
      BY <1>2 DEF ErrorsLead
    <2> QED
      BY <2>2, <2>3, <2>4, Zenon DEF LeadsTo, FaultIn
  <1> QED
    BY <1>2 DEF ErrorsLead

LEMMA NextErrorsLead ==
  ASSUME AsmTypeOK, ImageInv, ErrorsLead, [AsmNext]_asmVars
  PROVE  ErrorsLead'
  <1>1. source \in Seq(Line) /\ line_no \in Nat
        /\ errors \in Seq([line : 1 .. line_no, column : Nat \ {0}, message : Messages])
    BY DEF AsmTypeOK
  <1>2. UNCHANGED source
    BY StepKinds DEF Advances, asmVars
  <1>3. CASE UNCHANGED errors
    BY <1>2, <1>3, KeepsErrorsLead
  <1>4. ASSUME Advances, NEW column, NEW message, Leads(line, column),
               errors' = Append(errors, [line |-> line_no + 1, column |-> column,
                                        message |-> message])
        PROVE  ErrorsLead'
    <2> DEFINE e == [line |-> line_no + 1, column |-> column, message |-> message]
    <2>1. /\ \A n \in DOMAIN errors' : n \in DOMAIN errors \/ n = Len(errors) + 1
          /\ \A n \in DOMAIN errors : errors'[n] = errors[n]
          /\ errors'[Len(errors) + 1] = e
      BY <1>1, <1>4
    <2>2. e.line = line_no + 1 /\ e.column = column
      OBVIOUS
    <2> HIDE DEF e
    <2>3. ASSUME NEW n \in DOMAIN errors', NEW i, NEW c,
                 i = errors'[n].line, c = errors'[n].column
          PROVE  LeadsTo(source'[i], Repeats(i)', c)
      <3>1. Repeats(i)' <=> Repeats(i)
        BY <1>2 DEF Repeats, WellFormed, SameTarget
      <3>2. LeadsTo(source[i], Repeats(i), c)
        <4>1. CASE n \in DOMAIN errors
          BY <2>1, <2>3, <4>1 DEF ErrorsLead
        <4>2. CASE n = Len(errors) + 1
          BY <1>4, <2>1, <2>2, <2>3, <4>2, LeadsInText
        <4> QED
          BY <2>1, <2>3, <4>1, <4>2
      <3> QED
        BY <1>2, <3>1, <3>2, Zenon DEF LeadsTo, FaultIn
    <2> QED
      BY <2>3 DEF ErrorsLead
  <1>5. CASE UNCHANGED asmVars
    BY <1>3, <1>5 DEF asmVars, errorVars
  <1> QED
    BY <1>3, <1>4, <1>5, StepErrors

LEMMA InitImageInv == AsmInit => ImageInv
  <1> SUFFICES ASSUME AsmInit PROVE ImageInv
    OBVIOUS
  <1>1. Accepted = {} /\ 1 .. line_no = {}
    BY DEF AsmInit, Accepted
  <1>2. DOMAIN errors = {}
    BY DEF AsmInit
  <1>3. ImageHoldsAcceptedLines
    BY <1>1 DEF AsmInit, ImageHoldsAcceptedLines
  <1>4. EarlierLinesTake
    BY <1>1 DEF EarlierLinesTake
  <1>5. EveryLineIsAccountedFor
    BY <1>1, <1>2 DEF AsmInit, EveryLineIsAccountedFor
  <1> QED
    BY <1>3, <1>4, <1>5 DEF ImageInv

LEMMA NextImageInv == AsmInv /\ ImageInv /\ [AsmNext]_asmVars => ImageInv'
  <1> SUFFICES ASSUME AsmInv, ImageInv, [AsmNext]_asmVars PROVE ImageInv'
    OBVIOUS
  <1>1. AsmTypeOK /\ EveryLineIsAccountedFor
    BY DEF AsmInv, ImageInv
  <1>2. CASE UNCHANGED asmVars
    <2>1. UNCHANGED <<source, line_no, memory, assigned, start_address, has_start_address,
                      errors, lost>>
      BY <1>2 DEF asmVars, imageVars, errorVars
    <2>2. Accepted' = Accepted
      BY <2>1 DEF Accepted, Repeats, WellFormed, SameTarget
    <2>3. ImageHoldsAcceptedLines'
      BY <2>1, <2>2 DEF ImageInv, ImageHoldsAcceptedLines, ReadsBack
    <2>4. EarlierLinesTake'
      BY <2>1 DEF ImageInv, EarlierLinesTake, Taken, IsAssigned, WellFormed
    <2>5. EveryLineIsAccountedFor'
      BY <2>1, <2>2 DEF ImageInv, EveryLineIsAccountedFor
    <2> QED
      BY <2>3, <2>4, <2>5 DEF ImageInv
  <1>3. CASE Advances /\ Silent
    <2>1. ~Fresh
      BY <1>3, WellFormedForms DEF Silent, Fresh
    <2> QED
      BY <1>1, <1>3, <2>1, LeavesImage, AccountsForLine DEF Silent, ImageInv
  <1>4. CASE Advances /\ Rejected
    <2>1. ~Fresh
      BY <1>1, <1>4, FreshIsFree, WellFormedForms DEF Rejected, Malformed, Duplicate, Taken
    <2>2. UNCHANGED imageVars
      BY <1>4 DEF Rejected, Rejects
    <2> QED
      BY <1>1, <1>4, <2>1, <2>2, LeavesImage, AccountsForLine DEF Rejected, ImageInv
  <1>5. CASE Advances /\ StartSet
    BY <1>1, <1>5, SetsStart, AccountsForLine DEF StartSet, ImageInv, errorVars
  <1>6. ASSUME Advances, NEW word, WordSet(word) PROVE ImageInv'
    BY <1>1, <1>6, SetsWord, AccountsForLine DEF WordSet, Assigns, ImageInv, errorVars
  <1> QED
    BY <1>1, <1>2, <1>3, <1>4, <1>5, <1>6, StepKinds

LEMMA ImageInvAlways == AsmSpec => []ImageInv
  BY InitImageInv, NextImageInv, AsmInvAlways, PTL DEF AsmSpec

\* For every program: each accepted line can be read back from the image, and no
\* rejected one leaves a trace, in it or in what later lines may do (asm.c:167-233).
THEOREM ImageAlwaysHoldsAcceptedLines == AsmSpec => []ImageHoldsAcceptedLines
  BY ImageInvAlways, PTL DEF ImageInv

\* For every program, and wherever memory runs out: each line is blank, accepted,
\* reported once in order, or lost (asm.c:106-123, 133-234).
THEOREM EveryLineAlwaysAccountedFor == AsmSpec => []EveryLineIsAccountedFor
  BY ImageInvAlways, PTL DEF ImageInv

\* No error is lost unless memory can run out.
NothingLost == ~CAN_RUN_OUT => lost = {}

LEMMA InitNothingLost == AsmInit => NothingLost
  BY DEF AsmInit, NothingLost

LEMMA NextNothingLost == AsmTypeOK /\ NothingLost /\ [AsmNext]_asmVars => NothingLost'
  <1>1. SUFFICES ASSUME AsmTypeOK, NothingLost, ~CAN_RUN_OUT, [AsmNext]_asmVars PROVE lost' = lost
    BY DEF NothingLost
  <1>2. ASSUME NEW column, NEW message, Rejects(column, message) PROVE lost' = lost
    BY <1>1, <1>2 DEF Rejects, add_errorf, Records
  <1>3. CASE UNCHANGED asmVars
    BY <1>3 DEF asmVars, errorVars
  <1>4. CASE Silent \/ Rejected \/ StartSet \/ \E word : WordSet(word)
    BY <1>2, <1>4 DEF Silent, Rejected, StartSet, WordSet, Assigns, errorVars
  <1> QED
    BY <1>1, <1>3, <1>4, StepKinds

\* What asm.h promises of an empty list of errors holds with an allocator that
\* never fails (asm.h:34-35); assembler_claim shows that it needs one.
THEOREM WholeWhenMemoryLasts == AsmSpec => [](~CAN_RUN_OUT => NoErrorsMeansWhole)
  <1>1. NothingLost /\ EveryLineIsAccountedFor => (~CAN_RUN_OUT => NoErrorsMeansWhole)
    BY DEF NothingLost, EveryLineIsAccountedFor, NoErrorsMeansWhole
  <1>2. AsmSpec => []NothingLost
    BY InitNothingLost, NextNothingLost, AsmTypeCorrect, PTL DEF AsmSpec
  <1> QED
    BY <1>1, <1>2, EveryLineAlwaysAccountedFor, PTL
=============================================================================
