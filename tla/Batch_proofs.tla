---------------------------- MODULE Batch_proofs ----------------------------
(***************************************************************************)
(* Proofs about the batch host, for every machine, program, input, command *)
(* line and cap.  What the exit code says is true only because of what     *)
(* holds long before the exit: the invariant says where each phase finds   *)
(* the machine, the count of steps and the instruction in the register.    *)
(***************************************************************************)
EXTENDS Batch, LGP30CPU_proofs, SequenceTheorems

\* Until the program runs, the machine is as it was created.
NotYetRun ==
  phase \in {"options", "loading", "repl"} => steps = 0 /\ counter = 0 /\ memory \in Images

\* The loop is left at a halt and at the cap, and nothing else halts a machine.
LoopGoesOn ==
  /\ phase # "exited" => ~Halted
  /\ phase = "running" => steps = 0 \/ steps < max_steps

\* The word in progress is that of the instruction in the register.
WordIsOfInput == input_in_progress => lgp30_opcode(instruction_register) = 4

\* The inductive invariant of the host.
BatchInv ==
  /\ IInv
  /\ BatchTypeOK
  /\ command_line \in CommandLines
  /\ NotYetRun
  /\ LoopGoesOn
  /\ WordIsOfInput
  /\ CapHolds
  /\ ExitCodeIsTruthful

-----------------------------------------------------------------------------
(* Lemmas.                                                                 *)

\* A program brings its words without their spacer, a start that is an address,
\* and nothing else.
LEMMA LoadPreserves ==
  ASSUME IInv, NEW file \in Files, load_program(file)
  PROVE  IInv'
  <1>1. /\ memory \in [Address -> DrumWord] /\ counter \in Address
        /\ UNCHANGED <<accumulator, status, instruction_register, drum_ticks,
                       input_in_progress, input_shift_count, tape_pos, tape, printed>>
    BY DEF load_program, inputVars, IInv, TypeOK, DrumSpacerClear
  <1>2. CASE file.result = "LOAD_OK"
    <2>1. /\ file.image \in [Address -> DrumWord]
          /\ file.start = {} \/ \E a \in Address : file.start = {a}
      BY <1>2, FilesAssumption DEF LoadResult, FailedFile, ImageFile
    <2>2. memory' \in [Address -> DrumWord] /\ counter' \in Address
      BY <1>1, <1>2, <2>1 DEF load_program, loaded_memory
    <2> QED
      BY <1>1, <2>2, LoadedPreserves
  <1>3. CASE file.result # "LOAD_OK"
    BY <1>1, <1>3, LoadedPreserves DEF load_program
  <1> QED
    BY <1>2, <1>3

\* The argument that is parsed next.
LEMMA ArgumentTyped ==
  ASSUME command_line \in CommandLines, arg_pos \in 0 .. Len(command_line),
         NEW option, Parses(option)
  PROVE  /\ arg \in Argument
         /\ arg_pos + 1 \in 0 .. Len(command_line)
  <1>1. command_line \in Seq(Argument)
    BY BatchAssumption
  <1> QED
    BY <1>1 DEF Parses, arg

\* A call of lgp30_step that halts the machine leaves the instruction that did
\* it in the register: a `z`, an `i 0000` at the end of its input, or one whose
\* result is not a number.
LEMMA WhatHalts ==
  ASSUME IInv, WordIsOfInput, ~Halted, Step
  PROVE  /\ WordIsOfInput'
         /\ status' = "STOPPED" =>
              \/ lgp30_opcode(instruction_register') = 0
              \/ lgp30_opcode(instruction_register') = 4 /\ tape_pos' = Len(tape')
         /\ status' = "OVERFLOW" => lgp30_opcode(instruction_register') \in {5, 14, 15}
  <1>1. ASSUME NEW opcode, Executing(opcode)
        PROVE  lgp30_opcode(instruction_register') = opcode /\ ~input_in_progress
    BY <1>1 DEF Executing
  <1>2. CASE op_input \/ ContinueInput
    <2>1. PICK count : op_input_continue(count)
      BY <1>2 DEF op_input, ContinueInput
    <2>2. lgp30_opcode(instruction_register') = 4 /\ tape' = tape
      BY <1>1, <1>2 DEF op_input, Executing, ContinueInput, drumVars, WordIsOfInput
    <2>3. status' # "OVERFLOW" /\ (status' = "STOPPED" => tape_pos' = Len(tape))
      BY <2>1 DEF op_input_continue, ReaderBlocks, ReaderAtEnd, ReaderStops, ReaderShifts, Runs
    <2> QED
      BY <2>2, <2>3 DEF WordIsOfInput
  <1>3. CASE op_stop
    <2>1. lgp30_opcode(instruction_register') = 0 /\ ~input_in_progress' /\ status' = "STOPPED"
      BY <1>1, <1>3 DEF op_stop, Transfers, inputVars
    <2> QED
      BY <2>1 DEF WordIsOfInput
  <1>4. CASE \/ op_bring \/ op_store_address \/ op_return_address
             \/ op_hold_and_store \/ op_clear_and_store
             \/ op_print \/ op_unconditional_transfer \/ op_test
             \/ op_m_multiply \/ op_n_multiply \/ op_extract
    <2>1. status' = "RUNNING" /\ ~input_in_progress'
      BY <1>4 DEF op_bring, op_store_address, op_return_address, op_hold_and_store,
         op_clear_and_store, op_print, op_unconditional_transfer, op_test,
         op_m_multiply, op_n_multiply, op_extract, MMultiply, NMultiply, Extract,
         Executing, OperandRead, Stores, Transfers, Runs, inputVars
    <2> QED
      BY <2>1 DEF WordIsOfInput
  <1>5. CASE op_add \/ op_subtract \/ op_divide
    <2>1. /\ status' \in {"RUNNING", "OVERFLOW"} /\ ~input_in_progress'
          /\ lgp30_opcode(instruction_register') \in {5, 14, 15}
      BY <1>1, <1>5 DEF op_add, op_subtract, op_divide, Add, Subtract, Divide, Settle,
         Executing, OperandRead, inputVars
    <2> QED
      BY <2>1 DEF WordIsOfInput
  <1> QED
    BY <1>2, <1>3, <1>4, <1>5 DEF Step, HaltedStep

\* The last step of the loop gives the code that its state calls for.
LEMMA LoopEndsTruthfully ==
  ASSUME BatchInv, phase = "running", Step, steps' = steps + 1, max_steps' = max_steps,
         LeavesLoop, exit_code' = ExitCode(status')
  PROVE  ExitCodeIsTruthful'
  <1>1. ~Halted /\ steps \in Nat /\ max_steps \in Nat
    BY DEF BatchInv, LoopGoesOn, BatchTypeOK
  <1>2. /\ status' = "STOPPED" =>
             \/ lgp30_opcode(instruction_register') = 0
             \/ lgp30_opcode(instruction_register') = 4 /\ tape_pos' = Len(tape')
        /\ status' = "OVERFLOW" => lgp30_opcode(instruction_register') \in {5, 14, 15}
    BY <1>1, WhatHalts DEF BatchInv
  <1>3. CASE status' = "OVERFLOW"
    BY <1>2, <1>3 DEF ExitCode, ExitCodeIsTruthful, EXIT_OK, EXIT_OVERFLOW, EXIT_MAX_STEPS,
       EXIT_ASM_ERROR, EXIT_FILE_ERROR
  <1>4. CASE status' = "STOPPED"
    <2>1. exit_code' = EXIT_OK
      BY <1>4 DEF ExitCode
    <2> QED
      BY <1>2, <1>4, <2>1 DEF ExitCodeIsTruthful, EXIT_OK, EXIT_OVERFLOW, EXIT_MAX_STEPS,
         EXIT_ASM_ERROR, EXIT_FILE_ERROR
  <1>5. CASE status' \notin {"OVERFLOW", "STOPPED"}
    <2>1. exit_code' = EXIT_MAX_STEPS /\ ~Halted'
      BY <1>5 DEF ExitCode, Halted
    <2>2. steps' >= max_steps'
      BY <2>1 DEF LeavesLoop
    <2> QED
      BY <2>1, <2>2 DEF ExitCodeIsTruthful, EXIT_OK, EXIT_OVERFLOW, EXIT_MAX_STEPS,
         EXIT_ASM_ERROR, EXIT_FILE_ERROR
  <1> QED
    BY <1>3, <1>4, <1>5

\* What parsing an argument leaves alone.
LEMMA ParsesLeavesRest ==
  ASSUME BatchInv, NEW option, Parses(option)
  PROVE  /\ IInv' /\ TypeOK' /\ WordIsOfInput'
         /\ command_line' \in CommandLines
         /\ arg_pos' \in 0 .. Len(command_line')
         /\ upper_case' \in BOOLEAN /\ codes' \in Seq(PrintCode)
         /\ steps' = 0 /\ counter' = 0 /\ memory' \in Images /\ ~Halted'
         /\ phase = "options" /\ exit_code = NoExit
         /\ arg \in Argument /\ arg.option = option
  <1>1. UNCHANGED <<vars, command_line, steps, outputVars>> /\ phase = "options" /\ arg.option = option
    BY DEF Parses
  <1>2. IInv'
    BY <1>1, NextIInv DEF BatchInv
  <1>3. arg \in Argument /\ arg_pos' \in 0 .. Len(command_line')
    BY <1>1, ArgumentTyped DEF BatchInv, BatchTypeOK, Parses
  <1>4. exit_code = NoExit
    BY <1>1 DEF BatchInv, BatchTypeOK
  <1> QED
    BY <1>1, <1>2, <1>3, <1>4
    DEF IInv, vars, drumVars, inputVars, outputVars, Halted,
        BatchInv, BatchTypeOK, NotYetRun, LoopGoesOn, WordIsOfInput

LEMMA InitBatchInv == BatchInit => BatchInv
  <1> SUFFICES ASSUME BatchInit PROVE BatchInv
    OBVIOUS
  <1>1. IInv
    BY InitIInv DEF BatchInit
  <1>2. /\ command_line \in Seq(Argument) /\ DEFAULT_MAX_STEPS \in Nat /\ StartAddresses = {0}
        /\ ~input_in_progress /\ ~Halted
    BY BatchAssumption, CreatedAssumption DEF BatchInit, Init, Halted
  <1>3. BatchTypeOK
    <2>1. arg_pos \in 0 .. Len(command_line) /\ codes \in Seq(PrintCode)
      BY <1>2 DEF BatchInit, OutputInit
    <2>2. exit_code \in NoExit .. EXIT_MAX_STEPS
      BY DEF BatchInit, NoExit, EXIT_MAX_STEPS
    <2> QED
      BY <1>1, <1>2, <2>1, <2>2 DEF BatchInit, OutputInit, IInv, BatchTypeOK
  <1>4. CapHolds /\ ExitCodeIsTruthful
    BY <1>2 DEF BatchInit, CapHolds, ExitCodeIsTruthful, NoExit, EXIT_OK, EXIT_OVERFLOW,
       EXIT_MAX_STEPS, EXIT_ASM_ERROR, EXIT_FILE_ERROR
  <1> QED
    BY <1>1, <1>2, <1>3, <1>4 DEF BatchInit, Init, BatchInv, NotYetRun, LoopGoesOn, WordIsOfInput

\* A host that has not run anything may exit with any code but 3 and 4.
LEMMA EarlyExit ==
  ASSUME steps' = 0, counter' = 0, memory' \in Images, max_steps' \in Nat,
         exit_code' \in {NoExit, EXIT_OK, EXIT_ASM_ERROR, EXIT_FILE_ERROR}
  PROVE  ExitCodeIsTruthful' /\ CapHolds' /\ NotYetRun'
  BY DEF ExitCodeIsTruthful, CapHolds, NotYetRun, NoExit, EXIT_OK, EXIT_OVERFLOW,
     EXIT_MAX_STEPS, EXIT_ASM_ERROR, EXIT_FILE_ERROR

\* An argument either leaves main among its options or makes it exit.
LEMMA ParsesPreserves ==
  ASSUME BatchInv, NEW option, Parses(option),
         program' \subseteq Files, max_steps' \in Nat,
         Continues \/ Exits(EXIT_OK) \/ Exits(EXIT_ASM_ERROR)
  PROVE  BatchInv'
  <1>1. \/ phase' = "options" /\ exit_code' = NoExit
        \/ phase' = "exited" /\ exit_code' \in {EXIT_OK, EXIT_ASM_ERROR}
    BY ParsesLeavesRest DEF Continues, Exits
  <1>2. ExitCodeIsTruthful' /\ CapHolds' /\ NotYetRun'
    BY <1>1, ParsesLeavesRest, EarlyExit
  <1>3. BatchTypeOK'
    BY <1>1, ParsesLeavesRest
    DEF BatchTypeOK, NoExit, EXIT_OK, EXIT_ASM_ERROR, EXIT_MAX_STEPS
  <1> QED
    BY <1>1, <1>2, <1>3, ParsesLeavesRest DEF BatchInv, LoopGoesOn

LEMMA OptionsPreserve == ASSUME BatchInv, ParsesOptions PROVE BatchInv'
  <1>1. program \subseteq Files /\ max_steps \in Nat
    BY DEF BatchInv, BatchTypeOK
  <1>2. CASE AsksForHelp \/ IsVerbose \/ IsUnknown
    BY <1>1, <1>2, ParsesPreserves DEF AsksForHelp, IsVerbose, IsUnknown
  <1>3. CASE SetsBackend
    BY <1>1, <1>3, ParsesPreserves DEF SetsBackend
  <1>4. CASE SetsCap
    <2>1. arg.number \subseteq Nat
      BY <1>4, ParsesLeavesRest DEF SetsCap, Argument
    <2> QED
      BY <1>1, <1>4, <2>1, ParsesPreserves DEF SetsCap
  <1>5. CASE NamesProgram
    <2>1. arg.file \in Files
      BY <1>5, ParsesLeavesRest DEF NamesProgram, Argument
    <2> QED
      BY <1>1, <1>5, <2>1, ParsesPreserves DEF NamesProgram
  <1>6. CASE EndsOptions
    <2>1. /\ phase = "options" /\ UNCHANGED <<vars, command_line, optionVars, steps, outputVars>>
          /\ \/ phase' = "exited" /\ exit_code' = EXIT_ASM_ERROR
             \/ phase' = "loading" /\ exit_code' = exit_code /\ program # {} /\ io_mode \in Backends
      BY <1>6 DEF EndsOptions, Exits
    <2>2. IInv'
      BY <2>1, NextIInv DEF BatchInv
    <2>3. /\ ~Halted' /\ exit_code = NoExit /\ steps' = 0 /\ counter' = 0 /\ memory' \in Images
          /\ max_steps' \in Nat /\ io_mode' = io_mode /\ program' = program
      BY <2>1 DEF BatchInv, BatchTypeOK, NotYetRun, LoopGoesOn, Halted, vars, drumVars, optionVars
    <2>4. ExitCodeIsTruthful' /\ CapHolds' /\ NotYetRun'
      BY <2>1, <2>3, EarlyExit
    <2>5. BatchTypeOK'
      BY <2>1, <2>2, <2>3 DEF BatchInv, IInv, BatchTypeOK, optionVars, outputVars,
         NoExit, EXIT_ASM_ERROR, EXIT_MAX_STEPS
    <2> QED
      BY <2>1, <2>2, <2>3, <2>4, <2>5
      DEF BatchInv, LoopGoesOn, WordIsOfInput, vars, drumVars, inputVars
  <1>7. CASE StartsRepl
    <2>1. /\ phase = "options" /\ phase' = "repl" /\ exit_code' = exit_code
          /\ UNCHANGED <<vars, command_line, optionVars, steps, outputVars>>
      BY <1>7 DEF StartsRepl
    <2>2. IInv'
      BY <2>1, NextIInv DEF BatchInv
    <2>3. /\ ~Halted' /\ exit_code = NoExit /\ steps' = 0 /\ counter' = 0 /\ memory' \in Images
          /\ max_steps' \in Nat /\ io_mode' = io_mode /\ program' = program
      BY <2>1 DEF BatchInv, BatchTypeOK, NotYetRun, LoopGoesOn, Halted, vars, drumVars, optionVars
    <2>4. ExitCodeIsTruthful' /\ CapHolds' /\ NotYetRun'
      BY <2>1, <2>3, EarlyExit
    <2>5. BatchTypeOK'
      BY <2>1, <2>2, <2>3 DEF BatchInv, IInv, BatchTypeOK, optionVars, outputVars, NoExit
    <2> QED
      BY <2>1, <2>2, <2>3, <2>4, <2>5
      DEF BatchInv, LoopGoesOn, WordIsOfInput, vars, drumVars, inputVars
  <1> QED
    BY <1>2, <1>3, <1>4, <1>5, <1>6, <1>7 DEF ParsesOptions

LEMMA LoadsPreserves == ASSUME BatchInv, LoadsProgram PROVE BatchInv'
  <1>1. PICK file \in program :
          /\ load_program(file)
          /\ \/ file.result = "LOAD_OK" /\ phase' = "running" /\ UNCHANGED exit_code
             \/ file.result = "LOAD_FILE_ERROR" /\ Exits(EXIT_FILE_ERROR)
             \/ file.result = "LOAD_ASM_ERROR" /\ Exits(EXIT_ASM_ERROR)
    BY DEF LoadsProgram
  <1>2. phase = "loading" /\ UNCHANGED <<command_line, optionVars, steps, outputVars>>
    BY DEF LoadsProgram
  <1>3. IInv'
    BY <1>1, LoadPreserves DEF BatchInv, BatchTypeOK
  <1>4. UNCHANGED <<status, instruction_register, input_in_progress>>
    BY <1>1 DEF load_program, inputVars
  <1>5. /\ ~Halted' /\ WordIsOfInput' /\ exit_code = NoExit /\ steps' = 0 /\ max_steps' \in Nat
        /\ io_mode' \in Backends /\ program' # {}
    BY <1>2, <1>4 DEF BatchInv, BatchTypeOK, NotYetRun, LoopGoesOn, WordIsOfInput, Halted, optionVars
  <1>6. \/ phase' = "running" /\ exit_code' = NoExit
        \/ /\ phase' = "exited" /\ exit_code' \in {EXIT_FILE_ERROR, EXIT_ASM_ERROR}
           /\ counter' = 0 /\ memory' \in Images
    BY <1>1, <1>2, <1>5 DEF Exits, load_program, BatchInv, NotYetRun
  <1>7. ExitCodeIsTruthful' /\ CapHolds' /\ NotYetRun'
    BY <1>5, <1>6, EarlyExit DEF ExitCodeIsTruthful, CapHolds, NotYetRun, NoExit, EXIT_OK,
       EXIT_OVERFLOW, EXIT_MAX_STEPS, EXIT_ASM_ERROR, EXIT_FILE_ERROR
  <1>8. BatchTypeOK'
    BY <1>2, <1>3, <1>5, <1>6 DEF BatchInv, IInv, BatchTypeOK, optionVars, outputVars,
       NoExit, EXIT_FILE_ERROR, EXIT_ASM_ERROR, EXIT_MAX_STEPS
  <1> QED
    BY <1>2, <1>3, <1>5, <1>6, <1>7, <1>8 DEF BatchInv, LoopGoesOn

\* A step that prints prints one of the codes there are.
LEMMA PrintsCode == ASSUME BatchInv, Step, Prints PROVE printed' \in PrintCode
  <1>1. op_print
    BY DEF Prints, Step, HaltedStep, ContinueInput, Executing,
       op_stop, op_bring, op_store_address, op_return_address, op_input, op_divide,
       op_n_multiply, op_m_multiply, op_extract, op_unconditional_transfer, op_test,
       op_hold_and_store, op_clear_and_store, op_add, op_subtract
  <1> QED
    BY <1>1, FetchRanges, SectorRange DEF op_print, BatchInv, IInv, PrintCode

LEMMA RunPreserves == ASSUME BatchInv, RunsStep PROVE BatchInv'
  <1>1. /\ phase = "running" /\ Step /\ steps' = steps + 1
        /\ UNCHANGED <<command_line, optionVars>>
        /\ \/ LeavesLoop /\ phase' = "exited" /\ exit_code' = ExitCode(status')
           \/ ~LeavesLoop /\ UNCHANGED <<phase, exit_code>>
    BY DEF RunsStep, CountsStep, Exits
  <1>2. /\ steps \in Nat /\ max_steps \in Nat /\ max_steps' = max_steps /\ exit_code = NoExit
        /\ ~Halted /\ (steps = 0 \/ steps < max_steps)
    BY <1>1 DEF BatchInv, BatchTypeOK, LoopGoesOn, optionVars
  <1>3. IInv' /\ WordIsOfInput'
    BY <1>1, <1>2, NextIInv, WhatHalts DEF BatchInv, Next
  <1>4. CapHolds' /\ NotYetRun'
    BY <1>1, <1>2 DEF CapHolds, NotYetRun
  <1>5. exit_code' \in {NoExit, EXIT_OK, EXIT_OVERFLOW, EXIT_MAX_STEPS}
        /\ (phase' = "exited" <=> exit_code' # NoExit)
    BY <1>1, <1>2 DEF ExitCode, NoExit, EXIT_OK, EXIT_OVERFLOW, EXIT_MAX_STEPS
  <1>6. upper_case' \in BOOLEAN /\ codes' \in Seq(PrintCode)
    <2>1. upper_case \in BOOLEAN /\ codes \in Seq(PrintCode)
      BY DEF BatchInv, BatchTypeOK
    <2>2. CASE UNCHANGED outputVars
      BY <2>1, <2>2 DEF outputVars
    <2>3. CASE Prints /\ write_char(printed')
      <3>1. printed' \in PrintCode
        BY <1>1, <2>3, PrintsCode
      <3>2. codes' = Append(codes, printed')
        BY <2>3 DEF write_char, simple_write_char, flexo_write_char
      <3>3. upper_case' \in BOOLEAN
        BY <2>1, <2>3 DEF write_char, simple_write_char, flexo_write_char, Shifted
      <3> QED
        BY <2>1, <3>1, <3>2, <3>3
    <2> QED
      BY <2>2, <2>3 DEF RunsStep
  <1>7. BatchTypeOK'
    BY <1>1, <1>2, <1>3, <1>5, <1>6 DEF BatchInv, IInv, BatchTypeOK, optionVars,
       NoExit, EXIT_OK, EXIT_OVERFLOW, EXIT_MAX_STEPS
  <1>8. ExitCodeIsTruthful'
    <2>1. CASE LeavesLoop
      BY <1>1, <1>2, <2>1, LoopEndsTruthfully
    <2>2. CASE ~LeavesLoop
      BY <1>1, <1>2, <2>2 DEF ExitCodeIsTruthful, NoExit, EXIT_OK, EXIT_OVERFLOW, EXIT_MAX_STEPS,
         EXIT_ASM_ERROR, EXIT_FILE_ERROR
    <2> QED
      BY <2>1, <2>2
  <1>9. LoopGoesOn'
    BY <1>1, <1>2 DEF LoopGoesOn, LeavesLoop
  <1> QED
    BY <1>1, <1>3, <1>4, <1>7, <1>8, <1>9 DEF BatchInv

LEMMA NextBatchInv == BatchInv /\ [BatchNext]_hostVars => BatchInv'
  <1> SUFFICES ASSUME BatchInv, [BatchNext]_hostVars PROVE BatchInv'
    OBVIOUS
  <1>1. CASE UNCHANGED hostVars
    <2>1. UNCHANGED <<vars, batchVars>>
      BY <1>1 DEF hostVars
    <2>2. IInv'
      BY <2>1, NextIInv DEF BatchInv
    <2> QED
      BY <2>1, <2>2 DEF vars, drumVars, inputVars, batchVars, optionVars, outputVars, Halted, BatchInv, IInv,
         BatchTypeOK, NotYetRun, LoopGoesOn, WordIsOfInput, CapHolds, ExitCodeIsTruthful
  <1> QED
    BY <1>1, OptionsPreserve, LoadsPreserves, RunPreserves DEF BatchNext, Exited

LEMMA BatchInvAlways == BatchSpec => []BatchInv
  BY InitBatchInv, NextBatchInv, PTL DEF BatchSpec

-----------------------------------------------------------------------------
(* The theorems.                                                           *)

\* The host and the machine in it keep their types (main.c:36-125).
THEOREM BatchTypeCorrect == BatchSpec => []BatchTypeOK
  BY BatchInvAlways, PTL DEF BatchInv

\* No program is given more steps than its cap, but for the one that a cap of 0
\* does not prevent (main.c:106-115).
THEOREM CapAlwaysHolds == BatchSpec => []CapHolds
  BY BatchInvAlways, PTL DEF BatchInv

\* Whatever the program, its input and the cap, the exit code says how the run
\* ended (main.c:82-124).
THEOREM ExitCodeIsAlwaysTruthful == BatchSpec => []ExitCodeIsTruthful
  BY BatchInvAlways, PTL DEF BatchInv

-----------------------------------------------------------------------------
(* The command line.  What the arguments parsed so far say is what the     *)
(* variables hold, and none of them has ended the parsing.                 *)

\* The last of the arguments parsed that are an `option`.
IsLatest(i, option) ==
  /\ i \in Given(option) /\ i <= arg_pos
  /\ \A j \in Given(option) : j <= arg_pos => j <= i

NoneYet(option) == \A i \in Given(option) : i > arg_pos

\* What --max-steps= gives for its text.
CapOf(i) == IF command_line[i].number = {} THEN {0} ELSE command_line[i].number

PathSoFar == program = {command_line[i].file : i \in {j \in Paths : j <= arg_pos}}

ModeSoFar ==
  \/ NoneYet("io") /\ io_mode = "simple"
  \/ \E i \in Given("io") : IsLatest(i, "io") /\ io_mode = command_line[i].mode

CapSoFar ==
  \/ NoneYet("max_steps") /\ max_steps = DEFAULT_MAX_STEPS
  \/ \E i \in Given("max_steps") : IsLatest(i, "max_steps") /\ max_steps \in CapOf(i)

\* Nothing is parsed of a command line that asks for the debugger.
ReplIsAlone == AsksForRepl => arg_pos = 0

ParsedSoFar ==
  phase = "options" =>
    /\ ReplIsAlone
    /\ \A i \in DOMAIN command_line : i <= arg_pos => ~Decides(i)
    /\ PathSoFar /\ ModeSoFar /\ CapSoFar

LEMMA CommandLineTyped ==
  ASSUME BatchInv
  PROVE  /\ command_line \in Seq(Argument) /\ Len(command_line) \in Nat
         /\ DOMAIN command_line = 1 .. Len(command_line)
         /\ arg_pos \in Nat /\ arg_pos <= Len(command_line)
  BY BatchAssumption DEF BatchInv, BatchTypeOK

\* Only one position is the last of its option.
LEMMA LatestIsLast ==
  ASSUME BatchInv, arg_pos = Len(command_line), NEW option, NEW i, IsLatest(i, option)
  PROVE  LastOf(Given(option)) = i
  <1>1. Given(option) \subseteq 1 .. Len(command_line)
    BY CommandLineTyped DEF Given
  <1>2. i \in Given(option) /\ \A j \in Given(option) : j <= i
    BY <1>1 DEF IsLatest
  <1>3. \A k \in Given(option) : (\A j \in Given(option) : j <= k) => k = i
    BY <1>1, <1>2
  <1> QED
    BY <1>2, <1>3 DEF LastOf

\* One more argument, of one option, is the latest of that option and changes
\* nothing about the others.
LEMMA OneMoreArgument ==
  ASSUME BatchInv, NEW option, Parses(option)
  PROVE  /\ \A other : Given(other)' = Given(other)
         /\ arg_pos + 1 \in Given(option)
         /\ \A other : other # option => arg_pos + 1 \notin Given(other)
         /\ Paths' = Paths
         /\ arg_pos + 1 \in Paths <=> option \in {"path", "repl"}
         /\ arg_pos' = arg_pos + 1 /\ command_line' = command_line
         /\ arg = command_line[arg_pos + 1]
         /\ \A other : \A i \in Given(other) : i \in Nat
         /\ \A i \in Paths : i \in Nat
  <1>1. arg_pos' = arg_pos + 1 /\ command_line' = command_line /\ arg_pos < Len(command_line)
        /\ command_line[arg_pos + 1].option = option
    BY DEF Parses, arg
  <1> QED
    BY <1>1, CommandLineTyped DEF Given, Paths, arg

LEMMA OneMoreIsLatest ==
  ASSUME BatchInv, NEW option, Parses(option)
  PROVE  /\ IsLatest(arg_pos, option)'
         /\ \A other : other # option =>
              /\ NoneYet(other) => NoneYet(other)'
              /\ \A i : IsLatest(i, other) => IsLatest(i, other)'
  <1>1. arg_pos \in Nat
    BY CommandLineTyped
  <1>2. IsLatest(arg_pos, option)'
    BY <1>1, OneMoreArgument DEF IsLatest
  <1>3. ASSUME NEW other, other # option
        PROVE  /\ NoneYet(other) => NoneYet(other)'
               /\ \A i : IsLatest(i, other) => IsLatest(i, other)'
    <2>1. \A i \in Given(other) : i \in Nat /\ (i <= arg_pos' <=> i <= arg_pos)
      BY <1>1, <1>3, OneMoreArgument
    <2> QED
      BY <1>1, <2>1, OneMoreArgument DEF NoneYet, IsLatest
  <1> QED
    BY <1>2, <1>3

\* The argument parsed becomes what the variables hold of its option.
LEMMA ParsesOneMore ==
  ASSUME BatchInv, ParsedSoFar, NEW option, Parses(option), Continues,
         option \in {"verbose", "io", "max_steps", "path", "repl"},
         IF option \in {"path", "repl"} THEN program = {} /\ program' = {arg.file} ELSE program' = program,
         io_mode' = IF option = "io" THEN arg.mode ELSE io_mode,
         IF option = "max_steps"
         THEN max_steps' \in CapOf(arg_pos + 1)
         ELSE max_steps' = max_steps
  PROVE  ParsedSoFar'
  <1>1. /\ \A i \in DOMAIN command_line : i <= arg_pos => ~Decides(i)
        /\ PathSoFar /\ ModeSoFar /\ CapSoFar
    BY DEF Parses, ParsedSoFar
  <1>2. arg_pos \in Nat /\ DOMAIN command_line \subseteq Nat
    BY CommandLineTyped
  <1>3. arg_pos' = arg_pos + 1 /\ command_line' = command_line
    BY OneMoreArgument
  <1>4. \A i : CapOf(i)' = CapOf(i)
    BY <1>3 DEF CapOf
  <1>5. PathSoFar'
    <2> DEFINE before == {j \in Paths : j <= arg_pos}
               after == {j \in Paths' : j <= arg_pos'}
    <2>1. CASE option \in {"path", "repl"}
      <3>1. before = {}
        BY <1>1, <2>1 DEF PathSoFar
      <3>2. after = {arg_pos + 1}
        BY <1>2, <1>3, <2>1, <3>1, OneMoreArgument
      <3> QED
        BY <1>3, <2>1, <3>2, OneMoreArgument DEF PathSoFar
    <2>2. CASE option \notin {"path", "repl"}
      <3>1. after = before
        BY <1>2, <1>3, <2>2, OneMoreArgument
      <3> QED
        BY <1>1, <1>3, <2>2, <3>1 DEF PathSoFar
    <2> QED
      BY <2>1, <2>2
  <1>6. ModeSoFar'
    <2>1. CASE option = "io"
      <3>1. IsLatest(arg_pos, "io")'
        BY <2>1, OneMoreIsLatest
      <3>2. arg_pos' \in Given("io")' /\ io_mode' = command_line'[arg_pos'].mode
        BY <1>3, <2>1, OneMoreArgument
      <3> QED
        BY <1>3, <3>1, <3>2, OneMoreArgument DEF ModeSoFar
    <2>2. CASE option # "io"
      BY <1>1, <1>3, <2>2, OneMoreIsLatest, OneMoreArgument DEF ModeSoFar
    <2> QED
      BY <2>1, <2>2
  <1>7. CapSoFar'
    <2>1. CASE option = "max_steps"
      <3>1. IsLatest(arg_pos, "max_steps")' /\ max_steps' \in CapOf(arg_pos)'
        BY <1>3, <1>4, <2>1, OneMoreIsLatest DEF CapOf
      <3>2. arg_pos' \in Given("max_steps")'
        BY <1>3, <2>1, OneMoreArgument
      <3> QED
        BY <1>3, <3>1, <3>2, OneMoreArgument DEF CapSoFar
    <2>2. CASE option # "max_steps"
      BY <1>1, <1>3, <1>4, <2>2, OneMoreIsLatest, OneMoreArgument DEF CapSoFar
    <2> QED
      BY <2>1, <2>2
  <1>8. ASSUME NEW i \in DOMAIN command_line, i <= arg_pos + 1 PROVE ~Decides(i)
    <2>1. CASE i <= arg_pos
      BY <1>1, <2>1
    <2>2. CASE i = arg_pos + 1
      <3>1. i \notin Given("help") \cup Given("unknown")
        BY <2>2, OneMoreArgument
      <3>2. CASE option \in {"path", "repl"}
        <4>1. \A j \in Paths : ~(j <= arg_pos)
          BY <1>1, <3>2 DEF PathSoFar
        <4> QED
          BY <1>2, <2>2, <3>1, <4>1, OneMoreArgument DEF Decides
      <3>3. CASE option \notin {"path", "repl"}
        BY <2>2, <3>1, <3>3, OneMoreArgument DEF Decides
      <3> QED
        BY <3>2, <3>3
    <2> QED
      BY <1>2, <1>8, <2>1, <2>2
  <1>9. \A i : Decides(i)' <=> Decides(i)
    BY OneMoreArgument DEF Decides
  <1>10. ReplIsAlone'
    BY <1>3 DEF Parses, AsksForRepl, ReplIsAlone
  <1> QED
    BY <1>3, <1>5, <1>6, <1>7, <1>8, <1>9, <1>10 DEF ParsedSoFar

\* The first argument that main cannot take is the verdict on the command line.
LEMMA FirstDecides ==
  ASSUME BatchInv, ParsedSoFar, phase = "options",
         arg_pos + 1 \in DOMAIN command_line, Decides(arg_pos + 1)
  PROVE  Verdict = IF arg_pos + 1 \in Given("help") THEN EXIT_OK ELSE EXIT_ASM_ERROR
  <1> DEFINE deciding == {i \in DOMAIN command_line : Decides(i)}
             first == CHOOSE i \in deciding : \A j \in deciding : i <= j
  <1>1. arg_pos \in Nat /\ DOMAIN command_line \subseteq Nat
    BY CommandLineTyped
  <1>2. arg_pos + 1 \in deciding /\ \A j \in deciding : arg_pos + 1 <= j
    BY <1>1 DEF ParsedSoFar
  <1>3. \A k \in deciding : (\A j \in deciding : k <= j) => k = arg_pos + 1
    BY <1>1, <1>2
  <1> HIDE DEF deciding
  <1>4. first = arg_pos + 1 /\ deciding # {}
    BY <1>2, <1>3
  <1> HIDE DEF first
  <1> QED
    BY <1>4 DEF Verdict, deciding, first

\* At the end of the arguments, what the variables hold is what all of them ask.
LEMMA AllParsed ==
  ASSUME BatchInv, ParsedSoFar, phase = "options", arg_pos = Len(command_line)
  PROVE  /\ program = {command_line[i].file : i \in Paths}
         /\ io_mode = AskedMode /\ max_steps \in AskedCap
         /\ Verdict = IF program = {} \/ io_mode \notin Backends THEN EXIT_ASM_ERROR ELSE NoExit
  <1>1. /\ \A i \in DOMAIN command_line : ~Decides(i)
        /\ \A option : \A i \in Given(option) : i <= arg_pos
        /\ \A option : NoneYet(option) => Given(option) = {}
        /\ \A i \in Paths : i <= arg_pos
    BY CommandLineTyped DEF ParsedSoFar, Given, Paths, NoneYet
  <1>2. program = {command_line[i].file : i \in Paths}
    BY <1>1 DEF ParsedSoFar, PathSoFar
  <1>3. io_mode = AskedMode
    <2>1. CASE NoneYet("io") /\ io_mode = "simple"
      BY <1>1, <2>1 DEF AskedMode
    <2>2. CASE \E i \in Given("io") : IsLatest(i, "io") /\ io_mode = command_line[i].mode
      BY <2>2, LatestIsLast DEF AskedMode
    <2> QED
      BY <2>1, <2>2 DEF ParsedSoFar, ModeSoFar
  <1>4. max_steps \in AskedCap
    <2>1. CASE NoneYet("max_steps") /\ max_steps = DEFAULT_MAX_STEPS
      BY <1>1, <2>1 DEF AskedCap
    <2>2. CASE \E i \in Given("max_steps") : IsLatest(i, "max_steps") /\ max_steps \in CapOf(i)
      BY <2>2, LatestIsLast DEF AskedCap, CapOf
    <2> QED
      BY <2>1, <2>2 DEF ParsedSoFar, CapSoFar
  <1>5. program = {} <=> Paths = {}
    BY <1>2
  <1>6. {i \in DOMAIN command_line : Decides(i)} = {}
    BY <1>1
  <1>7. Verdict = IF Paths = {} \/ AskedMode \notin Backends THEN EXIT_ASM_ERROR ELSE NoExit
    BY <1>6 DEF Verdict
  <1> QED
    BY <1>2, <1>3, <1>4, <1>5, <1>7

LEMMA InitParsed == BatchInit => ParsedSoFar /\ OptionsDecide
  <1> SUFFICES ASSUME BatchInit PROVE ParsedSoFar /\ OptionsDecide
    OBVIOUS
  <1>1. BatchInv /\ arg_pos = 0 /\ phase = "options"
    BY InitBatchInv DEF BatchInit
  <1>2. \A i \in DOMAIN command_line : i \in Nat \ {0}
    BY <1>1, CommandLineTyped
  <1>3. NoneYet("io") /\ NoneYet("max_steps") /\ {i \in Paths : i <= arg_pos} = {}
    BY <1>1, <1>2 DEF NoneYet, Given, Paths
  <1>4. PathSoFar /\ ModeSoFar /\ CapSoFar
    BY <1>3 DEF BatchInit, PathSoFar, ModeSoFar, CapSoFar
  <1>5. \A i \in DOMAIN command_line : ~(i <= arg_pos)
    BY <1>1, <1>2
  <1> QED
    BY <1>1, <1>4, <1>5 DEF ParsedSoFar, ReplIsAlone, OptionsDecide

\* An argument that ends the parsing is the one that the verdict is about.
LEMMA ParsesAndExits ==
  ASSUME BatchInv, ParsedSoFar, NEW option, Parses(option), NEW code, Exits(code),
         \/ option = "help" /\ code = EXIT_OK
         \/ option = "unknown" /\ code = EXIT_ASM_ERROR
         \/ option \in {"path", "repl"} /\ program # {} /\ code = EXIT_ASM_ERROR
  PROVE  ParsedSoFar' /\ OptionsDecide'
  <1>1. arg_pos + 1 \in DOMAIN command_line /\ phase = "options" /\ command_line' = command_line
        /\ ~AsksForRepl /\ ~AsksForRepl'
    BY CommandLineTyped DEF Parses, AsksForRepl
  <1>2. Decides(arg_pos + 1)
    <2>1. CASE option \in {"help", "unknown"}
      BY <2>1, OneMoreArgument DEF Decides
    <2>2. CASE option \in {"path", "repl"} /\ program # {}
      <3>1. PICK j \in Paths : j <= arg_pos
        BY <1>1, <2>2 DEF ParsedSoFar, PathSoFar
      <3>2. j < arg_pos + 1
        BY <3>1, CommandLineTyped, OneMoreArgument
      <3> QED
        BY <2>2, <3>2, OneMoreArgument DEF Decides
    <2> QED
      BY <2>1, <2>2
  <1>3. Verdict = code
    BY <1>1, <1>2, FirstDecides, OneMoreArgument
  <1>4. Verdict' = Verdict
    BY <1>1 DEF Verdict, Decides, Given, Paths, AskedMode, LastOf
  <1>5. phase' = "exited" /\ exit_code' = code /\ code # NoExit
    BY DEF Exits, NoExit, EXIT_OK, EXIT_ASM_ERROR
  <1>6. steps' = 0 /\ memory' \in Images
    BY ParsesLeavesRest
  <1> QED
    BY <1>1, <1>3, <1>4, <1>5, <1>6 DEF ParsedSoFar, OptionsDecide

LEMMA OptionsParse == ASSUME BatchInv, ParsedSoFar, ParsesOptions PROVE ParsedSoFar' /\ OptionsDecide'
  <1>1. phase = "options"
    BY DEF ParsesOptions, StartsRepl, AsksForHelp, SetsBackend, SetsCap, IsVerbose, IsUnknown,
       NamesProgram, EndsOptions, Parses
  <1>2. CASE AsksForHelp \/ IsUnknown
    BY <1>2, ParsesAndExits DEF AsksForHelp, IsUnknown
  <1>3. Continues => (ParsedSoFar' => OptionsDecide')
    BY <1>1 DEF Continues, OptionsDecide
  <1>4. CASE SetsBackend \/ IsVerbose
    BY <1>3, <1>4, ParsesOneMore DEF SetsBackend, IsVerbose
  <1>5. CASE SetsCap
    <2>1. max_steps' \in CapOf(arg_pos + 1)
      BY <1>5 DEF SetsCap, CapOf, arg
    <2> QED
      BY <1>3, <1>5, <2>1, ParsesOneMore DEF SetsCap
  <1>6. CASE NamesProgram
    <2>1. CASE program = {} /\ program' = {arg.file} /\ Continues
      BY <1>3, <1>6, <2>1, ParsesOneMore DEF NamesProgram
    <2>2. CASE program # {} /\ Exits(EXIT_ASM_ERROR)
      BY <1>6, <2>2, ParsesAndExits DEF NamesProgram
    <2> QED
      BY <1>6, <2>1, <2>2 DEF NamesProgram
  <1>7. CASE EndsOptions
    <2>1. /\ arg_pos = Len(command_line)
          /\ UNCHANGED <<command_line, program, io_mode, max_steps, steps, memory>>
          /\ \/ /\ program = {} \/ io_mode \notin Backends
                /\ phase' = "exited" /\ exit_code' = EXIT_ASM_ERROR
             \/ program # {} /\ io_mode \in Backends /\ phase' = "loading"
      BY <1>7 DEF EndsOptions, Exits, optionVars, vars
    <2>0. ~AsksForRepl /\ ~AsksForRepl'
      <3>1. AsksForRepl => Len(command_line) = 0 /\ command_line # <<>>
        BY <1>1, <2>1 DEF ParsedSoFar, ReplIsAlone, AsksForRepl
      <3>2. Len(command_line) = 0 => command_line = <<>>
        BY CommandLineTyped, EmptySeq
      <3> QED
        BY <2>1, <3>1, <3>2 DEF AsksForRepl
    <2>2. Verdict' = Verdict /\ AskedMode' = AskedMode /\ AskedCap' = AskedCap /\ Paths' = Paths
      BY <2>1 DEF Verdict, Decides, Given, Paths, AskedMode, AskedCap, LastOf
    <2>3. /\ program = {command_line[i].file : i \in Paths}
          /\ io_mode = AskedMode /\ max_steps \in AskedCap
          /\ Verdict = IF program = {} \/ io_mode \notin Backends THEN EXIT_ASM_ERROR ELSE NoExit
      BY <1>1, <2>1, AllParsed
    <2>4. steps' = 0 /\ memory' \in Images
      BY <1>1, <2>1 DEF BatchInv, NotYetRun
    <2>5. phase' # "options"
      BY <2>1
    <2>6. CASE program = {} \/ io_mode \notin Backends
      <3>1. Verdict' = EXIT_ASM_ERROR /\ exit_code' = EXIT_ASM_ERROR
        BY <2>1, <2>2, <2>3, <2>6
      <3> QED
        BY <2>0, <2>1, <2>4, <2>5, <2>6, <3>1 DEF ParsedSoFar, OptionsDecide, NoExit, EXIT_ASM_ERROR
    <2>7. CASE ~(program = {} \/ io_mode \notin Backends)
      <3>1. Verdict' = NoExit
        BY <2>2, <2>3, <2>7
      <3> QED
        BY <2>0, <2>1, <2>2, <2>3, <2>5, <2>7, <3>1 DEF ParsedSoFar, OptionsDecide
    <2> QED
      BY <2>6, <2>7
  <1>8. CASE StartsRepl
    <2>1. AsksForRepl' /\ phase' = "repl" /\ program' = program /\ memory' = memory /\ arg_pos = 0
      BY <1>8, <1>1 DEF StartsRepl, AsksForRepl, ParsedSoFar, ReplIsAlone, optionVars, vars
    <2>2. program = {} /\ memory \in Images
      <3>1. {j \in Paths : j <= arg_pos} = {}
        BY <2>1, CommandLineTyped DEF Paths, Given
      <3> QED
        BY <1>1, <3>1 DEF ParsedSoFar, PathSoFar, BatchInv, NotYetRun
    <2> QED
      BY <2>1, <2>2 DEF ParsedSoFar, OptionsDecide
  <1> QED
    BY <1>2, <1>4, <1>5, <1>6, <1>7, <1>8 DEF ParsesOptions

LEMMA NextParsed ==
  BatchInv /\ ParsedSoFar /\ OptionsDecide /\ [BatchNext]_hostVars => ParsedSoFar' /\ OptionsDecide'
  <1> SUFFICES ASSUME BatchInv, ParsedSoFar, OptionsDecide, [BatchNext]_hostVars
               PROVE  ParsedSoFar' /\ OptionsDecide'
    OBVIOUS
  <1>1. CASE UNCHANGED hostVars
    <2>1. UNCHANGED <<phase, command_line, arg_pos, program, io_mode, max_steps, steps, exit_code, memory>>
      BY <1>1 DEF hostVars, vars, batchVars, optionVars
    <2> QED
      BY <2>1 DEF ParsedSoFar, ReplIsAlone, PathSoFar, ModeSoFar, CapSoFar, CapOf, IsLatest, NoneYet,
         OptionsDecide, AsksForRepl, Verdict, Decides, Given, Paths, AskedMode, AskedCap, LastOf
  <1>2. CASE LoadsProgram \/ RunsStep
    <2>1. /\ phase \in {"loading", "running"} /\ phase' # "options"
          /\ UNCHANGED <<command_line, program, io_mode, max_steps>>
      BY <1>2 DEF LoadsProgram, RunsStep, Exits, optionVars
    <2>2. Verdict' = Verdict /\ AskedMode' = AskedMode /\ AskedCap' = AskedCap /\ Paths' = Paths
      BY <2>1 DEF Verdict, Decides, Given, Paths, AskedMode, AskedCap, LastOf
    <2>3. Verdict = NoExit /\ ~AsksForRepl /\ ~AsksForRepl' /\ phase' # "repl"
      BY <1>2, <2>1 DEF OptionsDecide, BatchInv, BatchTypeOK, AsksForRepl, LoadsProgram, RunsStep, Exits
    <2> QED
      BY <2>1, <2>2, <2>3 DEF ParsedSoFar, OptionsDecide
  <1> QED
    BY <1>1, <1>2, OptionsParse DEF BatchNext, Exited

\* Every command line decides what is run and how, or that nothing is, wherever
\* its options stand and however often they are given, and the debugger exactly
\* when the first argument asks for it (main.c:40-80).
THEOREM OptionsAlwaysDecide == BatchSpec => []OptionsDecide
  BY InitParsed, NextParsed, BatchInvAlways, PTL DEF BatchSpec

-----------------------------------------------------------------------------
(***************************************************************************)
(* The paper.  It is the concatenation of what each code printed, in the   *)
(* shift that the codes before it left: the invariant says that the shift  *)
(* of the type basket is that of the codes received so far, however long   *)
(* ago it was set.                                                         *)
(***************************************************************************)

NoMark == ""

\* The tables of the Flexowriter: the codes 1 + 4 * opcode are the letters of the
\* opcodes in either case, the codes 2 + 4 * digit the digits in lower case.
LEMMA LettersInTable ==
  /\ LOWER_GLYPHS[2] = OPCODE_LETTERS[1] /\ LOWER_GLYPHS[6] = OPCODE_LETTERS[2]
  /\ LOWER_GLYPHS[10] = OPCODE_LETTERS[3] /\ LOWER_GLYPHS[14] = OPCODE_LETTERS[4]
  /\ LOWER_GLYPHS[18] = OPCODE_LETTERS[5] /\ LOWER_GLYPHS[22] = OPCODE_LETTERS[6]
  /\ LOWER_GLYPHS[26] = OPCODE_LETTERS[7] /\ LOWER_GLYPHS[30] = OPCODE_LETTERS[8]
  /\ LOWER_GLYPHS[34] = OPCODE_LETTERS[9] /\ LOWER_GLYPHS[38] = OPCODE_LETTERS[10]
  /\ LOWER_GLYPHS[42] = OPCODE_LETTERS[11] /\ LOWER_GLYPHS[46] = OPCODE_LETTERS[12]
  /\ LOWER_GLYPHS[50] = OPCODE_LETTERS[13] /\ LOWER_GLYPHS[54] = OPCODE_LETTERS[14]
  /\ LOWER_GLYPHS[58] = OPCODE_LETTERS[15] /\ LOWER_GLYPHS[62] = OPCODE_LETTERS[16]
  BY Zenon DEF LOWER_GLYPHS, OPCODE_LETTERS

LEMMA CapitalsInTable ==
  /\ UPPER_GLYPHS[2] = CAPITAL_LETTERS[1] /\ UPPER_GLYPHS[6] = CAPITAL_LETTERS[2]
  /\ UPPER_GLYPHS[10] = CAPITAL_LETTERS[3] /\ UPPER_GLYPHS[14] = CAPITAL_LETTERS[4]
  /\ UPPER_GLYPHS[18] = CAPITAL_LETTERS[5] /\ UPPER_GLYPHS[22] = CAPITAL_LETTERS[6]
  /\ UPPER_GLYPHS[26] = CAPITAL_LETTERS[7] /\ UPPER_GLYPHS[30] = CAPITAL_LETTERS[8]
  /\ UPPER_GLYPHS[34] = CAPITAL_LETTERS[9] /\ UPPER_GLYPHS[38] = CAPITAL_LETTERS[10]
  /\ UPPER_GLYPHS[42] = CAPITAL_LETTERS[11] /\ UPPER_GLYPHS[46] = CAPITAL_LETTERS[12]
  /\ UPPER_GLYPHS[50] = CAPITAL_LETTERS[13] /\ UPPER_GLYPHS[54] = CAPITAL_LETTERS[14]
  /\ UPPER_GLYPHS[58] = CAPITAL_LETTERS[15] /\ UPPER_GLYPHS[62] = CAPITAL_LETTERS[16]
  BY Zenon DEF UPPER_GLYPHS, CAPITAL_LETTERS

LEMMA DigitsInTable ==
  /\ LOWER_GLYPHS[3] = HEX_DIGITS[1] /\ LOWER_GLYPHS[7] = HEX_DIGITS[2]
  /\ LOWER_GLYPHS[11] = HEX_DIGITS[3] /\ LOWER_GLYPHS[15] = HEX_DIGITS[4]
  /\ LOWER_GLYPHS[19] = HEX_DIGITS[5] /\ LOWER_GLYPHS[23] = HEX_DIGITS[6]
  /\ LOWER_GLYPHS[27] = HEX_DIGITS[7] /\ LOWER_GLYPHS[31] = HEX_DIGITS[8]
  /\ LOWER_GLYPHS[35] = HEX_DIGITS[9] /\ LOWER_GLYPHS[39] = HEX_DIGITS[10]
  /\ LOWER_GLYPHS[43] = HEX_DIGITS[11] /\ LOWER_GLYPHS[47] = HEX_DIGITS[12]
  /\ LOWER_GLYPHS[51] = HEX_DIGITS[13] /\ LOWER_GLYPHS[55] = HEX_DIGITS[14]
  /\ LOWER_GLYPHS[59] = HEX_DIGITS[15] /\ LOWER_GLYPHS[63] = HEX_DIGITS[16]
  BY Zenon DEF LOWER_GLYPHS, HEX_DIGITS

LEMMA LettersAreMarks ==
  /\ LOWER_GLYPHS[2] # NoMark /\ LOWER_GLYPHS[6] # NoMark /\ LOWER_GLYPHS[10] # NoMark
  /\ LOWER_GLYPHS[14] # NoMark /\ LOWER_GLYPHS[18] # NoMark /\ LOWER_GLYPHS[22] # NoMark
  /\ LOWER_GLYPHS[26] # NoMark /\ LOWER_GLYPHS[30] # NoMark /\ LOWER_GLYPHS[34] # NoMark
  /\ LOWER_GLYPHS[38] # NoMark /\ LOWER_GLYPHS[42] # NoMark /\ LOWER_GLYPHS[46] # NoMark
  /\ LOWER_GLYPHS[50] # NoMark /\ LOWER_GLYPHS[54] # NoMark /\ LOWER_GLYPHS[58] # NoMark
  /\ LOWER_GLYPHS[62] # NoMark
  BY Zenon DEF LOWER_GLYPHS, NoMark

LEMMA CapitalsAreMarks ==
  /\ UPPER_GLYPHS[2] # NoMark /\ UPPER_GLYPHS[6] # NoMark /\ UPPER_GLYPHS[10] # NoMark
  /\ UPPER_GLYPHS[14] # NoMark /\ UPPER_GLYPHS[18] # NoMark /\ UPPER_GLYPHS[22] # NoMark
  /\ UPPER_GLYPHS[26] # NoMark /\ UPPER_GLYPHS[30] # NoMark /\ UPPER_GLYPHS[34] # NoMark
  /\ UPPER_GLYPHS[38] # NoMark /\ UPPER_GLYPHS[42] # NoMark /\ UPPER_GLYPHS[46] # NoMark
  /\ UPPER_GLYPHS[50] # NoMark /\ UPPER_GLYPHS[54] # NoMark /\ UPPER_GLYPHS[58] # NoMark
  /\ UPPER_GLYPHS[62] # NoMark
  BY Zenon DEF UPPER_GLYPHS, NoMark

LEMMA DigitsAreMarks ==
  /\ LOWER_GLYPHS[3] # NoMark /\ LOWER_GLYPHS[7] # NoMark /\ LOWER_GLYPHS[11] # NoMark
  /\ LOWER_GLYPHS[15] # NoMark /\ LOWER_GLYPHS[19] # NoMark /\ LOWER_GLYPHS[23] # NoMark
  /\ LOWER_GLYPHS[27] # NoMark /\ LOWER_GLYPHS[31] # NoMark /\ LOWER_GLYPHS[35] # NoMark
  /\ LOWER_GLYPHS[39] # NoMark /\ LOWER_GLYPHS[43] # NoMark /\ LOWER_GLYPHS[47] # NoMark
  /\ LOWER_GLYPHS[51] # NoMark /\ LOWER_GLYPHS[55] # NoMark /\ LOWER_GLYPHS[59] # NoMark
  /\ LOWER_GLYPHS[63] # NoMark
  BY Zenon DEF LOWER_GLYPHS, NoMark

LEMMA Sixteen ==
  ASSUME NEW n \in 1 .. 16
  PROVE  \/ n = 1 \/ n = 2 \/ n = 3 \/ n = 4 \/ n = 5 \/ n = 6 \/ n = 7 \/ n = 8
         \/ n = 9 \/ n = 10 \/ n = 11 \/ n = 12 \/ n = 13 \/ n = 14 \/ n = 15 \/ n = 16
  OBVIOUS

\* "code = 1 + 4*opcode" (flexowriter.c:32) holds of every code of the table.
LEMMA LetterOfCode ==
  ASSUME NEW c \in FlexoCode, c % 4 = 1, NEW upper \in BOOLEAN
  PROVE  Marks(c, upper) =
           <<IF upper THEN CAPITAL_LETTERS[(c \div 4) + 1] ELSE OPCODE_LETTERS[(c \div 4) + 1]>>
  <1>1. PICK n \in 1 .. 16 : (c \div 4) + 1 = n /\ c + 1 = 4 * n - 2
    BY DEF FlexoCode
  <1>2. LOWER_GLYPHS[c + 1] = OPCODE_LETTERS[n]
    BY <1>1, Sixteen, LettersInTable
  <1>3. UPPER_GLYPHS[c + 1] = CAPITAL_LETTERS[n]
    BY <1>1, Sixteen, CapitalsInTable
  <1>4. LOWER_GLYPHS[c + 1] # NoMark
    BY <1>1, Sixteen, LettersAreMarks
  <1>5. UPPER_GLYPHS[c + 1] # NoMark
    BY <1>1, Sixteen, CapitalsAreMarks
  <1> QED
    BY <1>1, <1>2, <1>3, <1>4, <1>5, Zenon DEF Marks, Glyph, NoMark

\* "code = 2 + 4*digit" (flexowriter.c:32) holds of every code, in lower case.
LEMMA DigitOfCode ==
  ASSUME NEW c \in FlexoCode, c % 4 = 2
  PROVE  Marks(c, FALSE) = <<lgp30_hex_digit_char(c \div 4)>>
  <1>1. PICK n \in 1 .. 16 : (c \div 4) + 1 = n /\ ((c \div 4) % 16) + 1 = n /\ c + 1 = 4 * n - 1
    BY DEF FlexoCode
  <1>2. LOWER_GLYPHS[c + 1] = HEX_DIGITS[n]
    BY <1>1, Sixteen, DigitsInTable
  <1>3. LOWER_GLYPHS[c + 1] # NoMark
    BY <1>1, Sixteen, DigitsAreMarks
  <1> QED
    BY <1>1, <1>2, <1>3, Zenon DEF Marks, Glyph, NoMark, lgp30_hex_digit_char

\* A code prints what it means in the shift that the type basket is in.
LEMMA PrintsItsMeaning ==
  ASSUME NEW code, NEW upper \in BOOLEAN
  PROVE  Meaning(code, upper) = IF code \in FlexoCode THEN Marks(code, upper) ELSE <<>>
  <1>1. CASE code \notin FlexoCode
    BY <1>1 DEF Meaning
  <1>2. CASE code \in FlexoCode /\ code % 4 = 1
    <2>1. Marks(code, upper) = <<IF upper THEN CAPITAL_LETTERS[(code \div 4) + 1]
                                          ELSE OPCODE_LETTERS[(code \div 4) + 1]>>
      BY <1>2, LetterOfCode
    <2>2. code % 4 # 2
      BY <1>2
    <2> QED
      BY <1>2, <2>1, <2>2, Zenon DEF Meaning
  <1>3. CASE code \in FlexoCode /\ code % 4 = 2 /\ ~upper
    <2>1. Marks(code, upper) = <<lgp30_hex_digit_char(code \div 4)>>
      <3>1. upper = FALSE
        BY <1>3
      <3> QED
        BY <1>3, <3>1, DigitOfCode, Zenon
    <2>2. ((code \div 4) + 1) - 1 = code \div 4 /\ code % 4 # 1
      BY <1>3 DEF FlexoCode
    <2> QED
      BY <1>3, <2>1, <2>2, Zenon DEF Meaning
  <1>4. CASE code \in FlexoCode /\ code % 4 # 1 /\ ~(code % 4 = 2 /\ ~upper)
    BY <1>4, Zenon DEF Meaning
  <1> QED
    BY <1>1, <1>2, <1>3, <1>4

\* The function in FlattenSeq's definition: text[i] is the first i pieces in a row.
IsText(text, piece, n) ==
  text = [i \in 1 .. n |-> IF i = 1 THEN piece[i] ELSE text[i - 1] \o piece[i]]

LEMMA TextUnfolds ==
  ASSUME NEW text, NEW piece, NEW n \in Nat, IsText(text, piece, n)
  PROVE  \A i \in 1 .. n : text[i] = IF i = 1 THEN piece[i] ELSE text[i - 1] \o piece[i]
  BY Zenon DEF IsText

\* Any pieces have a text.
LEMMA TextExists ==
  ASSUME NEW piece, NEW n \in Nat
  PROVE  \E text : IsText(text, piece, n)
  <1> DEFINE none == {i \in Nat : ~\E text : IsText(text, piece, i)}
  <1>1. SUFFICES ASSUME none # {} PROVE FALSE
    BY <1>1
  <1>2. PICK least \in none : \A i \in none : least <= i
    BY <1>1, LeastNumber
  <1>3. CASE least = 0
    <2> DEFINE empty == [i \in 1 .. 0 |-> <<>>]
    <2>1. IsText(empty, piece, 0)
      BY DEF IsText
    <2> QED
      BY <1>2, <1>3, <2>1
  <1>4. CASE least # 0
    <2>1. least \in Nat /\ least - 1 \in Nat /\ least - 1 \notin none /\ least \in 1 .. least
      BY <1>2, <1>4
    <2>2. PICK text : IsText(text, piece, least - 1)
      BY <2>1
    <2> DEFINE last == IF least = 1 THEN piece[least] ELSE text[least - 1] \o piece[least]
               longer == [i \in 1 .. least |-> IF i = least THEN last ELSE text[i]]
    <2>3. \A i \in 1 .. least - 1 :
            /\ text[i] = IF i = 1 THEN piece[i] ELSE text[i - 1] \o piece[i]
            /\ i \in 1 .. least /\ i # least
      BY <2>1, <2>2, TextUnfolds
    <2>4. /\ longer = [i \in 1 .. least |-> longer[i]]
          /\ longer[least] = last
          /\ \A i \in 1 .. least - 1 : longer[i] = text[i]
      BY <2>1, <2>3, Zenon
    <2> HIDE DEF longer
    <2>5. ASSUME NEW i \in 1 .. least
          PROVE  longer[i] = IF i = 1 THEN piece[i] ELSE longer[i - 1] \o piece[i]
      <3>1. CASE i = least
        <4>1. i # 1 => i - 1 \in 1 .. least - 1
          BY <2>1, <3>1
        <4> QED
          BY <2>4, <3>1, <4>1, Zenon
      <3>2. CASE i # least
        <4>1. i \in 1 .. least - 1 /\ (i # 1 => i - 1 \in 1 .. least - 1)
          BY <2>1, <3>2
        <4> QED
          BY <2>3, <2>4, <4>1, Zenon
      <3> QED
        BY <3>1, <3>2
    <2>6. IsText(longer, piece, least)
      BY <2>4, <2>5, Zenon DEF IsText
    <2> QED
      BY <1>2, <2>6
  <1> QED
    BY <1>3, <1>4

\* Texts agree as far as their pieces do.
LEMMA TextsAgree ==
  ASSUME NEW text, NEW longer, NEW piece, NEW more, NEW m \in Nat, NEW n \in Nat, m <= n,
         IsText(text, piece, m), IsText(longer, more, n),
         \A i \in 1 .. m : more[i] = piece[i]
  PROVE  \A i \in 1 .. m : text[i] = longer[i]
  <1> DEFINE differ == {i \in Nat : i \in 1 .. m /\ text[i] # longer[i]}
  <1>1. SUFFICES ASSUME differ # {} PROVE FALSE
    BY <1>1
  <1>2. PICK least \in differ : \A i \in differ : least <= i
    BY <1>1, LeastNumber
  <1>3. /\ \A i \in 1 .. m : text[i] = IF i = 1 THEN piece[i] ELSE text[i - 1] \o piece[i]
        /\ \A i \in 1 .. n : longer[i] = IF i = 1 THEN more[i] ELSE longer[i - 1] \o more[i]
    BY TextUnfolds
  <1>4. least \in 1 .. m /\ least \in 1 .. n /\ text[least] # longer[least]
    BY <1>2
  <1>5. least # 1 => text[least - 1] = longer[least - 1]
    <2>1. least # 1 => least - 1 \in 1 .. m /\ least - 1 \in Nat /\ ~(least <= least - 1)
      BY <1>4
    <2> QED
      BY <1>2, <2>1
  <1> QED
    BY <1>3, <1>4, <1>5, Zenon

\* One piece more makes the text longer by that piece.
LEMMA FlattenAppend ==
  ASSUME NEW S, NEW pieces \in Seq(Seq(S)), NEW piece \in Seq(S)
  PROVE  FlattenSeq(Append(pieces, piece)) = FlattenSeq(pieces) \o piece
  <1> DEFINE more == Append(pieces, piece)
             n == Len(pieces)
             text == CHOOSE f : IsText(f, pieces, n)
             longer == CHOOSE f : IsText(f, more, n + 1)
  <1>1. /\ n \in Nat /\ n + 1 \in Nat /\ n <= n + 1
        /\ Len(more) = n + 1 /\ more[n + 1] = piece
        /\ \A i \in 1 .. n : more[i] = pieces[i]
    OBVIOUS
  <1>2. FlattenSeq(more) = longer[n + 1]
    <2>1. Len(more) # 0
      BY <1>1
    <2> HIDE DEF more
    <2>2. FlattenSeq(more) = (CHOOSE f : IsText(f, more, Len(more)))[Len(more)]
      BY <2>1, Zenon DEF FlattenSeq, IsText
    <2> QED
      BY <1>1, <2>2, Zenon
  <1>3. n # 0 => FlattenSeq(pieces) = text[n]
    BY Zenon DEF FlattenSeq, IsText
  <1> HIDE DEF more
  <1>4. IsText(text, pieces, n) /\ IsText(longer, more, n + 1)
    <2> HIDE DEF n
    <2> QED
      BY <1>1, TextExists, Zenon
  <1> HIDE DEF text, longer
  <1>5. longer[n + 1] = IF n + 1 = 1 THEN more[n + 1] ELSE longer[(n + 1) - 1] \o more[n + 1]
    <2>1. n + 1 \in 1 .. n + 1
      BY <1>1
    <2> QED
      BY <1>1, <1>4, <2>1, TextUnfolds
  <1>6. CASE n = 0
    <2>1. FlattenSeq(pieces) = pieces
      BY <1>6, Zenon DEF FlattenSeq
    <2>2. pieces \o piece = piece
      BY <1>6
    <2> QED
      BY <1>1, <1>2, <1>5, <1>6, <2>1, <2>2 DEF more
  <1>7. CASE n # 0
    <2>1. n \in 1 .. n /\ n + 1 # 1 /\ (n + 1) - 1 = n
      BY <1>1, <1>7
    <2>2. text[n] = longer[n]
      <3> HIDE DEF n
      <3>1. \A i \in 1 .. n : text[i] = longer[i]
        BY <1>1, <1>4, TextsAgree, SMT
      <3> QED
        BY <2>1, <3>1
    <2> QED
      BY <1>1, <1>2, <1>3, <1>5, <1>7, <2>1, <2>2, Zenon DEF more
  <1> QED
    BY <1>6, <1>7

PaperMarks == {Glyph(c, upper) : c \in FlexoCode, upper \in BOOLEAN}

\* The inductive invariant: nothing is written before the program runs; then, on
\* the Flexowriter, the shift is the one that the next code is to be read in.
PaperInv ==
  /\ phase \in {"options", "loading"} => OutputInit
  /\ io_mode = "flexowriter" =>
       /\ out \in Seq(PaperMarks)
       /\ upper_case <=> Upper(Len(codes) + 1)
       /\ PaperMeansItsCodes

\* Before anything is printed, the paper is empty and the shift is down.
LEMMA EmptyPaper ==
  ASSUME OutputInit
  PROVE  out \in Seq(PaperMarks) /\ (upper_case <=> Upper(Len(codes) + 1)) /\ PaperMeansItsCodes
  <1>1. codes \in Seq(PrintCode) /\ Len(codes) = 0 /\ out = <<>> /\ ~upper_case
    BY DEF OutputInit
  <1>2. ~Upper(Len(codes) + 1)
    BY <1>1 DEF Upper
  <1>3. FlattenSeq([k \in 1 .. Len(codes) |-> Meaning(codes[k], Upper(k))]) = <<>>
    <2> DEFINE meanings == [k \in 1 .. Len(codes) |-> Meaning(codes[k], Upper(k))]
    <2>1. meanings = <<>> /\ Len(meanings) = 0
      BY <1>1
    <2> HIDE DEF meanings
    <2>2. FlattenSeq(meanings) = <<>>
      BY <2>1, Zenon DEF FlattenSeq
    <2> QED
      BY <2>2 DEF meanings
  <1> QED
    BY <1>1, <1>2, <1>3 DEF PaperMeansItsCodes

\* Another code changes the shift of no code received before.
LEMMA ShiftsStay ==
  ASSUME codes \in Seq(PrintCode), NEW c, codes' = Append(codes, c)
  PROVE  /\ codes' \in Seq(PrintCode \cup {c}) /\ Len(codes') = Len(codes) + 1
         /\ codes'[Len(codes) + 1] = c
         /\ \A k \in 1 .. Len(codes) : codes'[k] = codes[k]
         /\ \A k \in 1 .. Len(codes) + 1 : Upper(k)' <=> Upper(k)
  <1>1. /\ codes' \in Seq(PrintCode \cup {c}) /\ Len(codes') = Len(codes) + 1
        /\ codes'[Len(codes) + 1] = c
        /\ \A k \in 1 .. Len(codes) : codes'[k] = codes[k]
    OBVIOUS
  <1>2. ASSUME NEW k \in 1 .. Len(codes) + 1 PROVE Upper(k)' <=> Upper(k)
    <2>1. \A i \in 1 .. k - 1 : codes'[i] = codes[i]
      BY <1>1
    <2>2. \A i \in 1 .. k - 1 : \A j \in i + 1 .. k - 1 : j \in 1 .. k - 1
      OBVIOUS
    <2> QED
      BY <2>1, <2>2, Zenon DEF Upper
  <1> QED
    BY <1>1, <1>2

\* The shift after a code is that of the code and of those before it.
LEMMA ShiftFollows ==
  ASSUME codes \in Seq(PrintCode), NEW c, codes' = Append(codes, c),
         NEW n \in Nat, n = Len(codes)
  PROVE  Upper(n + 2)' <=> c = FLEXO_SHIFT_UPPER \/ (Upper(n + 1) /\ c # FLEXO_SHIFT_LOWER)
  <1>1. /\ (n + 2) - 1 = n + 1 /\ (n + 1) - 1 = n
        /\ codes'[n + 1] = c /\ \A k \in 1 .. n : codes'[k] = codes[k]
    BY ShiftsStay
  <1>2. Upper(n + 2)' <=> \E i \in 1 .. n + 1 :
          codes'[i] = FLEXO_SHIFT_UPPER /\ \A j \in i + 1 .. n + 1 : codes'[j] # FLEXO_SHIFT_LOWER
    BY <1>1, Zenon DEF Upper
  <1>3. Upper(n + 1) <=> \E i \in 1 .. n :
          codes[i] = FLEXO_SHIFT_UPPER /\ \A j \in i + 1 .. n : codes[j] # FLEXO_SHIFT_LOWER
    BY <1>1, Zenon DEF Upper
  <1>4. CASE c = FLEXO_SHIFT_UPPER
    <2>1. n + 1 \in 1 .. n + 1 /\ (n + 1) + 1 .. n + 1 = {}
      BY <1>1
    <2> QED
      BY <1>1, <1>2, <1>4, <2>1
  <1>5. CASE c # FLEXO_SHIFT_UPPER
    <2>1. ASSUME NEW i \in 1 .. n + 1, codes'[i] = FLEXO_SHIFT_UPPER,
                 \A j \in i + 1 .. n + 1 : codes'[j] # FLEXO_SHIFT_LOWER
          PROVE  Upper(n + 1) /\ c # FLEXO_SHIFT_LOWER
      <3>1. i \in 1 .. n /\ n + 1 \in i + 1 .. n + 1
        BY <1>1, <1>5, <2>1
      <3>2. \A j \in i + 1 .. n : j \in i + 1 .. n + 1 /\ codes'[j] = codes[j]
        BY <1>1, <3>1
      <3> QED
        BY <1>1, <1>3, <2>1, <3>1, <3>2
    <2>2. ASSUME NEW i \in 1 .. n, codes[i] = FLEXO_SHIFT_UPPER, c # FLEXO_SHIFT_LOWER,
                 \A j \in i + 1 .. n : codes[j] # FLEXO_SHIFT_LOWER
          PROVE  Upper(n + 2)'
      <3>1. i \in 1 .. n + 1 /\ codes'[i] = FLEXO_SHIFT_UPPER
        BY <1>1, <2>2
      <3>2. \A j \in i + 1 .. n + 1 : codes'[j] # FLEXO_SHIFT_LOWER
        <4>1. \A j \in i + 1 .. n + 1 : j \in i + 1 .. n \/ j = n + 1
          BY <1>1
        <4>2. \A j \in i + 1 .. n : codes'[j] = codes[j]
          BY <1>1
        <4> QED
          BY <1>1, <2>2, <4>1, <4>2
      <3> QED
        BY <1>2, <3>1, <3>2, Zenon
    <2> QED
      BY <1>2, <1>3, <1>5, <2>1, <2>2, Zenon
  <1> QED
    BY <1>4, <1>5

\* A code written on the Flexowriter adds its meaning to the paper.
LEMMA WritesMeaning ==
  ASSUME codes \in Seq(PrintCode), upper_case \in BOOLEAN, out \in Seq(PaperMarks),
         upper_case <=> Upper(Len(codes) + 1), PaperMeansItsCodes,
         NEW c \in PrintCode, flexo_write_char(c)
  PROVE  /\ out' \in Seq(PaperMarks)
         /\ (upper_case <=> Upper(Len(codes) + 1))'
         /\ PaperMeansItsCodes'
  <1> DEFINE meanings == [k \in 1 .. Len(codes) |-> Meaning(codes[k], Upper(k))]
  <1>0. PICK n \in Nat : n = Len(codes)
    OBVIOUS
  <1>1. /\ codes' = Append(codes, c)
        /\ upper_case' = (IF c \in FlexoCode THEN Shifted(c) ELSE upper_case)
        /\ out' = IF c \in FlexoCode THEN out \o Marks(c, upper_case) ELSE out
    BY DEF flexo_write_char
  <1>2. /\ codes' \in Seq(PrintCode) /\ Len(codes') = n + 1 /\ codes'[n + 1] = c
        /\ \A k \in 1 .. n : codes'[k] = codes[k]
        /\ \A k \in 1 .. n + 1 : Upper(k)' <=> Upper(k)
    <2>1. PrintCode \cup {c} = PrintCode
      OBVIOUS
    <2> QED
      BY <1>0, <1>1, <2>1, ShiftsStay
  <1>3. \A code \in PrintCode, upper \in BOOLEAN : Meaning(code, upper) \in Seq(PaperMarks)
    <2> SUFFICES ASSUME NEW code \in PrintCode, NEW upper \in BOOLEAN
                 PROVE  Meaning(code, upper) \in Seq(PaperMarks)
      OBVIOUS
    <2>1. CASE code \in FlexoCode
      <3>1. Glyph(code, upper) \in PaperMarks
        BY <2>1 DEF PaperMarks
      <3>2. Marks(code, upper) = <<>> \/ Marks(code, upper) = <<Glyph(code, upper)>>
        BY Zenon DEF Marks
      <3>3. <<>> \in Seq(PaperMarks) /\ \A mark \in PaperMarks : <<mark>> \in Seq(PaperMarks)
        OBVIOUS
      <3>4. Marks(code, upper) \in Seq(PaperMarks)
        BY <3>1, <3>2, <3>3, Zenon
      <3> QED
        BY <2>1, <3>4, PrintsItsMeaning
    <2>2. CASE code \notin FlexoCode
      <3>1. Meaning(code, upper) = <<>>
        BY <2>2, PrintsItsMeaning
      <3> QED
        BY <3>1
    <2> QED
      BY <2>1, <2>2
  <1>4. Meaning(c, upper_case) \in Seq(PaperMarks) /\ out' = out \o Meaning(c, upper_case)
    <2>1. Meaning(c, upper_case) \in Seq(PaperMarks) /\ out \o <<>> = out
      BY <1>3
    <2>2. Meaning(c, upper_case) = IF c \in FlexoCode THEN Marks(c, upper_case) ELSE <<>>
      BY PrintsItsMeaning
    <2> QED
      BY <1>1, <2>1, <2>2, Zenon
  <1>5. out' \in Seq(PaperMarks)
    BY <1>4
  <1>6. (upper_case <=> Upper(Len(codes) + 1))'
    <2>1. Upper(n + 2)' <=> c = FLEXO_SHIFT_UPPER \/ (upper_case /\ c # FLEXO_SHIFT_LOWER)
      BY <1>0, <1>1, ShiftFollows
    <2>2. c \notin FlexoCode => c # FLEXO_SHIFT_UPPER /\ c # FLEXO_SHIFT_LOWER
      BY DEF FlexoCode, FLEXO_SHIFT_UPPER, FLEXO_SHIFT_LOWER
    <2>3. Len(codes') + 1 = n + 2
      BY <1>2
    <2>4. upper_case' <=> c = FLEXO_SHIFT_UPPER \/ (upper_case /\ c # FLEXO_SHIFT_LOWER)
      BY <1>1, <2>2, Zenon DEF Shifted
    <2> QED
      BY <2>1, <2>3, <2>4, Zenon
  <1>7. PaperMeansItsCodes'
    <2>1. /\ \A k \in 1 .. n : codes[k] \in PrintCode /\ Upper(k) \in BOOLEAN
          /\ \A k \in 1 .. n + 1 : Upper(k)' = Upper(k)
      <3>1. \A k \in 1 .. n : codes[k] \in PrintCode
        BY <1>0
      <3>2. \A k : Upper(k) \in BOOLEAN /\ Upper(k)' \in BOOLEAN
        BY Zenon DEF Upper
      <3> QED
        BY <1>2, <3>1, <3>2, Zenon
    <2>2. Upper(n + 1)' = upper_case
      <3>1. n + 1 \in 1 .. n + 1
        OBVIOUS
      <3>2. upper_case <=> Upper(n + 1)
        BY <1>0, Zenon
      <3>3. Upper(n + 1)' = Upper(n + 1)
        BY <2>1, <3>1
      <3>4. Upper(n + 1) \in BOOLEAN
        BY Zenon DEF Upper
      <3> QED
        BY <3>2, <3>3, <3>4, Zenon
    <2>3. meanings \in Seq(Seq(PaperMarks)) /\ Len(meanings) = n
      <3>1. \A k \in 1 .. n : Meaning(codes[k], Upper(k)) \in Seq(PaperMarks)
        BY <1>3, <2>1
      <3>2. meanings = [k \in 1 .. n |-> Meaning(codes[k], Upper(k))]
        BY <1>0
      <3> QED
        BY <3>1, <3>2
    <2>4. meanings' = Append(meanings, Meaning(c, upper_case))
      <3> DEFINE more == [k \in 1 .. n + 1 |-> Meaning(codes'[k], Upper(k)')]
      <3>1. meanings' = more
        BY <1>2, Zenon
      <3>2. \A k \in 1 .. n : Meaning(codes'[k], Upper(k)') = meanings[k]
        <4>1. \A k \in 1 .. n : k \in 1 .. n + 1
          OBVIOUS
        <4> QED
          BY <1>0, <1>2, <2>1, <4>1, Zenon
      <3>3. Meaning(codes'[n + 1], Upper(n + 1)') = Meaning(c, upper_case)
        BY <1>2, <2>2, Zenon
      <3> HIDE DEF meanings
      <3>4. more = Append(meanings, Meaning(c, upper_case))
        <4>1. Len(meanings) = n
          BY <2>3
        <4>2. /\ DOMAIN Append(meanings, Meaning(c, upper_case)) = 1 .. n + 1
              /\ \A k \in 1 .. n : Append(meanings, Meaning(c, upper_case))[k] = meanings[k]
              /\ Append(meanings, Meaning(c, upper_case))[n + 1] = Meaning(c, upper_case)
          BY <2>3, <1>4
        <4>3. \A k \in 1 .. n + 1 : k \in 1 .. n \/ k = n + 1
          OBVIOUS
        <4>4. \A k \in 1 .. n + 1 : more[k] = Append(meanings, Meaning(c, upper_case))[k]
          BY <3>2, <3>3, <4>2, <4>3, Zenon
        <4>5. DOMAIN more = 1 .. n + 1 /\ more = [k \in 1 .. n + 1 |-> more[k]]
          OBVIOUS
        <4>6. Append(meanings, Meaning(c, upper_case)) \in Seq(Seq(PaperMarks))
          BY <1>4, <2>3
        <4>7. Append(meanings, Meaning(c, upper_case))
              = [k \in 1 .. n + 1 |-> Append(meanings, Meaning(c, upper_case))[k]]
          <5>1. Append(meanings, Meaning(c, upper_case)) \in [1 .. n + 1 -> Seq(PaperMarks)]
            BY <4>6, <4>2, LenProperties
          <5> QED
            BY <5>1, Zenon
        <4> HIDE DEF more
        <4> QED
          BY <4>4, <4>5, <4>7, Zenon
      <3> QED
        BY <3>1, <3>4
    <2> HIDE DEF meanings
    <2>5. FlattenSeq(meanings') = FlattenSeq(meanings) \o Meaning(c, upper_case)
      BY <1>4, <2>3, <2>4, FlattenAppend
    <2> QED
      BY <1>4, <2>5 DEF PaperMeansItsCodes, meanings
  <1> QED
    BY <1>5, <1>6, <1>7

LEMMA InitPaper == BatchInit => PaperInv
  <1> SUFFICES ASSUME BatchInit PROVE PaperInv
    OBVIOUS
  <1>1. OutputInit /\ io_mode = "simple"
    BY DEF BatchInit
  <1> QED
    BY <1>1 DEF PaperInv

LEMMA NextPaper == BatchInv /\ PaperInv /\ [BatchNext]_hostVars => PaperInv'
  <1> SUFFICES ASSUME BatchInv, PaperInv, [BatchNext]_hostVars
               PROVE  PaperInv'
    OBVIOUS
  <1>1. ASSUME UNCHANGED outputVars
        PROVE  /\ OutputInit => OutputInit'
               /\ out \in Seq(PaperMarks) => out' \in Seq(PaperMarks)
               /\ (upper_case <=> Upper(Len(codes) + 1)) => (upper_case <=> Upper(Len(codes) + 1))'
               /\ PaperMeansItsCodes => PaperMeansItsCodes'
    <2>1. upper_case' = upper_case /\ out' = out /\ codes' = codes
      BY <1>1 DEF outputVars
    <2> QED
      BY <2>1, Zenon DEF OutputInit, Upper, PaperMeansItsCodes
  <1>2. CASE ParsesOptions
    <2>1. phase = "options" /\ UNCHANGED outputVars
      BY <1>2 DEF ParsesOptions, StartsRepl, AsksForHelp, SetsBackend, SetsCap, IsVerbose,
         IsUnknown, NamesProgram, EndsOptions, Parses
    <2>2. OutputInit
      BY <2>1 DEF PaperInv
    <2> QED
      BY <1>1, <2>1, <2>2, EmptyPaper DEF PaperInv
  <1>3. CASE LoadsProgram
    <2>1. phase = "loading" /\ UNCHANGED <<io_mode, outputVars>>
      BY <1>3 DEF LoadsProgram, optionVars, outputVars
    <2> QED
      BY <1>1, <2>1 DEF PaperInv
  <1>4. CASE RunsStep
    <2>1. /\ phase = "running" /\ phase' \in {"running", "exited"} /\ io_mode' = io_mode
          /\ (Prints /\ write_char(printed')) \/ UNCHANGED outputVars
          /\ Step
      BY <1>4 DEF RunsStep, Exits, optionVars
    <2>2. CASE UNCHANGED outputVars
      BY <1>1, <2>1, <2>2 DEF PaperInv
    <2>3. CASE Prints /\ write_char(printed') /\ io_mode = "flexowriter"
      <3>1. printed' \in PrintCode
        BY <2>1, <2>3, PrintsCode
      <3>2. flexo_write_char(printed')
        BY <2>3 DEF write_char
      <3>3. codes \in Seq(PrintCode) /\ upper_case \in BOOLEAN
        BY DEF BatchInv, BatchTypeOK
      <3>4. /\ out' \in Seq(PaperMarks)
            /\ (upper_case <=> Upper(Len(codes) + 1))'
            /\ PaperMeansItsCodes'
        BY <2>3, <3>1, <3>2, <3>3, WritesMeaning DEF PaperInv
      <3> QED
        BY <2>1, <3>4 DEF PaperInv
    <2>4. CASE io_mode # "flexowriter"
      BY <2>1, <2>4 DEF PaperInv
    <2> QED
      BY <2>1, <2>2, <2>3, <2>4
  <1>5. CASE UNCHANGED hostVars
    <2>1. UNCHANGED <<phase, io_mode, outputVars>>
      BY <1>5 DEF hostVars, batchVars, optionVars, outputVars
    <2> QED
      BY <1>1, <2>1 DEF PaperInv
  <1> QED
    BY <1>2, <1>3, <1>4, <1>5 DEF BatchNext, Exited

\* Whatever a program prints on the Flexowriter, and however it shifts, the paper
\* shows the meaning of each code in order (flexowriter.c:32, 99-134).
THEOREM PaperAlwaysMeansItsCodes == BatchSpec => []PaperOfTheRun
  <1>1. PaperInv => PaperOfTheRun
    BY DEF PaperInv, PaperOfTheRun
  <1> QED
    BY <1>1, InitPaper, NextPaper, BatchInvAlways, PTL DEF BatchSpec
-----------------------------------------------------------------------------
(* What BatchEnds rests on, but for the fairness: main comes nearer to its *)
(* exit with every step.                                                   *)

\* What main has still to go through, and how many turns of the loop it is in.
StagesLeft ==
  CASE phase = "options" -> 3
    [] phase = "loading" -> 2
    [] phase = "running" -> 1
    [] phase \in {"exited", "repl"} -> 0

TurnsLeft ==
  CASE phase = "options" -> Len(command_line) - arg_pos
    [] phase = "running" -> IF steps = 0 THEN max_steps + 1 ELSE max_steps - steps
    [] phase \in {"loading", "exited", "repl"} -> 0

NearsItsExit ==
  StagesLeft' < StagesLeft \/ (StagesLeft' = StagesLeft /\ TurnsLeft' < TurnsLeft)

LEMMA TurnsAreNatural == BatchInv => StagesLeft \in 0 .. 3 /\ TurnsLeft \in Nat
  <1> SUFFICES ASSUME BatchInv PROVE StagesLeft \in 0 .. 3 /\ TurnsLeft \in Nat
    OBVIOUS
  <1>1. /\ phase \in {"options", "loading", "running", "exited", "repl"}
        /\ max_steps \in Nat /\ steps \in Nat /\ arg_pos \in 0 .. Len(command_line)
        /\ phase = "running" => steps = 0 \/ steps < max_steps
    BY DEF BatchInv, BatchTypeOK, LoopGoesOn
  <1>2. Len(command_line) \in Nat
    BY BatchAssumption, LenProperties DEF BatchInv
  <1>3. StagesLeft \in 0 .. 3
    BY <1>1 DEF StagesLeft
  <1>4. TurnsLeft \in Nat
    BY <1>1, <1>2 DEF TurnsLeft
  <1> QED
    BY <1>3, <1>4

\* Whatever the program, its input and the options: main is never more than so many
\* stages and turns from its exit, and each of its steps leaves fewer; the first
\* step of a program and the one that halts at the cap are no exception
\* (main.c:45-80, 106-115).
THEOREM MainAlwaysNearsItsExit ==
  BatchSpec => /\ [](StagesLeft \in 0 .. 3 /\ TurnsLeft \in Nat)
               /\ [][phase \notin {"exited", "repl"} => NearsItsExit]_hostVars
  <1> DEFINE Nears == phase \notin {"exited", "repl"} => NearsItsExit
  <1>1. BatchInv /\ [BatchNext]_hostVars => [Nears]_hostVars
    <2> SUFFICES ASSUME BatchInv, BatchNext, phase \notin {"exited", "repl"} PROVE NearsItsExit
      OBVIOUS
    <2>1. /\ max_steps \in Nat /\ steps \in Nat /\ arg_pos \in 0 .. Len(command_line)
          /\ Len(command_line) \in Nat
          /\ phase = "running" => steps = 0 \/ steps < max_steps
      <3>1. Len(command_line) \in Nat
        BY BatchAssumption, LenProperties DEF BatchInv
      <3> QED
        BY <3>1 DEF BatchInv, BatchTypeOK, LoopGoesOn
    <2>2. CASE ParsesOptions
      <3>1. phase = "options"
        BY <2>2 DEF ParsesOptions, StartsRepl, AsksForHelp, SetsBackend, SetsCap, IsVerbose,
           IsUnknown, NamesProgram, EndsOptions, Parses
      <3>2. \/ phase' \in {"loading", "exited", "repl"}
            \/ phase' = "options" /\ arg_pos' = arg_pos + 1 /\ command_line' = command_line
        BY <2>2 DEF ParsesOptions, StartsRepl, AsksForHelp, SetsBackend, SetsCap, IsVerbose,
           IsUnknown, NamesProgram, EndsOptions, Parses, Continues, Exits
      <3>3. CASE phase' \in {"loading", "exited", "repl"}
        BY <3>1, <3>3 DEF NearsItsExit, StagesLeft
      <3>4. CASE phase' = "options" /\ arg_pos' = arg_pos + 1 /\ command_line' = command_line
        BY <2>1, <3>1, <3>4 DEF NearsItsExit, StagesLeft, TurnsLeft
      <3> QED
        BY <3>2, <3>3, <3>4
    <2>3. CASE LoadsProgram
      <3>1. phase = "loading" /\ phase' \in {"running", "exited"}
        BY <2>3 DEF LoadsProgram, Exits
      <3> QED
        BY <3>1 DEF NearsItsExit, StagesLeft
    <2>4. CASE RunsStep
      <3>1. /\ phase = "running" /\ steps' = steps + 1 /\ max_steps' = max_steps
            /\ phase' = "exited" \/ (phase' = "running" /\ ~LeavesLoop)
        BY <2>4 DEF RunsStep, CountsStep, Exits, optionVars
      <3>2. CASE phase' = "exited"
        BY <3>1, <3>2 DEF NearsItsExit, StagesLeft
      <3>3. CASE phase' = "running" /\ ~LeavesLoop
        <4>1. ~(steps + 1 >= max_steps) /\ steps' # 0
          BY <2>1, <3>1, <3>3 DEF LeavesLoop
        <4>2. TurnsLeft' = max_steps - (steps + 1)
          BY <3>1, <3>3, <4>1 DEF TurnsLeft
        <4>3. TurnsLeft >= max_steps - steps
          BY <2>1, <3>1 DEF TurnsLeft
        <4>4. TurnsLeft \in Nat
          BY TurnsAreNatural
        <4>5. StagesLeft' = StagesLeft
          BY <3>1, <3>3 DEF StagesLeft
        <4>6. TurnsLeft' < TurnsLeft
          BY <2>1, <4>2, <4>3, <4>4
        <4> QED
          BY <4>5, <4>6 DEF NearsItsExit
      <3> QED
        BY <3>1, <3>2, <3>3
    <2> QED
      BY <2>2, <2>3, <2>4 DEF BatchNext, Exited
  <1> HIDE DEF Nears
  <1>2. BatchSpec => []BatchInv
    BY BatchInvAlways
  <1>3. BatchSpec => [][Nears]_hostVars
    BY <1>1, <1>2, PTL DEF BatchSpec
  <1>4. BatchSpec => [](StagesLeft \in 0 .. 3 /\ TurnsLeft \in Nat)
    BY <1>2, TurnsAreNatural, PTL
  <1> QED
    BY <1>3, <1>4 DEF Nears
=============================================================================
