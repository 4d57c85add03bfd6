------------------------------- MODULE Batch -------------------------------
(***************************************************************************)
(* The batch host (host/cli/main.c): hand over to the debugger, or read    *)
(* the options, load a program, run it on the chosen backend to its halt   *)
(* or to the cap on steps, and exit with a code that says which.           *)
(***************************************************************************)
EXTENDS ProgramLoader, Flexowriter

CONSTANTS
  CommandLines,     \* the sequences of arguments main may be given
  DEFAULT_MAX_STEPS \* 1000000

VARIABLES
  phase,        \* where main stands: "options", "loading", "running", "exited", or in "repl"
  command_line, \* argv, from its second element on
  arg_pos,      \* the arguments parsed
  program,      \* the file that program_path names, in a set: {} is NULL
  io_mode,      \* the backend asked for
  max_steps,    \* the cap on steps
  steps,        \* the calls of lgp30_step so far
  exit_code     \* enum exit_code, once it has exited

optionVars == <<arg_pos, program, io_mode, max_steps>>
batchVars == <<phase, command_line, optionVars, steps, exit_code, outputVars>>
hostVars == <<vars, batchVars>>

NoExit == -1
EXIT_OK == 0
EXIT_ASM_ERROR == 1
EXIT_FILE_ERROR == 2
EXIT_OVERFLOW == 3
EXIT_MAX_STEPS == 4

Backends == {"simple", "flexowriter"}

\* What an argument is.  After --max-steps= there may be no number at all; the
\* word `repl` names a file too, where it does not ask for the debugger.
Argument ==
  [option : {"help", "verbose", "unknown"}]
    \cup [option : {"io"}, mode : STRING]
    \cup [option : {"max_steps"}, number : SUBSET Nat]
    \cup [option : {"path", "repl"}, file : Files]

ASSUME BatchAssumption ==
  /\ CommandLines \subseteq Seq(Argument)
  /\ DEFAULT_MAX_STEPS \in Nat

\* Both backends of io/ answer with a character or with the end of the input.
ASSUME BatchReaderAssumption == CAN_BLOCK = FALSE

BatchInit ==
  /\ Init
  /\ OutputInit
  /\ command_line \in CommandLines
  /\ phase = "options"
  /\ arg_pos = 0
  /\ program = {}
  /\ io_mode = "simple"
  /\ max_steps = DEFAULT_MAX_STEPS
  /\ steps = 0
  /\ exit_code = NoExit

-----------------------------------------------------------------------------
(* The command line.                                                       *)

Exits(code) == phase' = "exited" /\ exit_code' = code

arg == command_line[arg_pos + 1]

AsksForRepl == command_line # <<>> /\ command_line[1].option = "repl"

\* What comes of the rest of the command line, its options too, is repl_main's
\* affair: it takes the second argument for the first file to load.
StartsRepl ==
  /\ phase = "options"
  /\ AsksForRepl
  /\ phase' = "repl"
  /\ UNCHANGED <<vars, command_line, optionVars, steps, exit_code, outputVars>>

\* The next argument is an `option`, and parsing goes on after it.
Parses(option) ==
  /\ phase = "options"
  /\ ~AsksForRepl
  /\ arg_pos < Len(command_line)
  /\ arg.option = option
  /\ arg_pos' = arg_pos + 1
  /\ UNCHANGED <<vars, command_line, steps, outputVars>>

Continues == UNCHANGED <<phase, exit_code>>

AsksForHelp == Parses("help") /\ Exits(EXIT_OK) /\ UNCHANGED <<program, io_mode, max_steps>>

SetsBackend ==
  /\ Parses("io")
  /\ io_mode' = arg.mode
  /\ Continues
  /\ UNCHANGED <<program, max_steps>>

\* strtoull of what is not a number is 0.
SetsCap ==
  /\ Parses("max_steps")
  /\ max_steps' \in (IF arg.number = {} THEN {0} ELSE arg.number)
  /\ Continues
  /\ UNCHANGED <<program, io_mode>>

IsVerbose == Parses("verbose") /\ Continues /\ UNCHANGED <<program, io_mode, max_steps>>

IsUnknown == Parses("unknown") /\ Exits(EXIT_ASM_ERROR) /\ UNCHANGED <<program, io_mode, max_steps>>

\* Mutant of NamesProgram: a second program takes the place of the first.
NamesProgram_LastWins ==
  /\ Parses("path") \/ Parses("repl")
  /\ program' = {arg.file}
  /\ Continues
  /\ UNCHANGED <<io_mode, max_steps>>

NamesProgram ==
  /\ Parses("path") \/ Parses("repl")
  /\ \/ program = {} /\ program' = {arg.file} /\ Continues
     \/ program # {} /\ Exits(EXIT_ASM_ERROR) /\ UNCHANGED program
  /\ UNCHANGED <<io_mode, max_steps>>

\* Mutant of EndsOptions: a program is not required.
EndsOptions_NoProgram ==
  /\ phase = "options"
  /\ arg_pos = Len(command_line)
  /\ \/ io_mode \notin Backends /\ Exits(EXIT_ASM_ERROR)
     \/ io_mode \in Backends /\ phase' = "loading" /\ UNCHANGED exit_code
  /\ UNCHANGED <<vars, command_line, optionVars, steps, outputVars>>

\* The last argument is parsed: a program is required, and a backend known.
EndsOptions ==
  /\ phase = "options"
  /\ arg_pos = Len(command_line)
  /\ \/ (program = {} \/ io_mode \notin Backends) /\ Exits(EXIT_ASM_ERROR)
     \/ program # {} /\ io_mode \in Backends /\ phase' = "loading" /\ UNCHANGED exit_code
  /\ UNCHANGED <<vars, command_line, optionVars, steps, outputVars>>

ParsesOptions ==
  \/ StartsRepl
  \/ AsksForHelp \/ SetsBackend \/ SetsCap \/ IsVerbose \/ IsUnknown \/ NamesProgram
  \/ EndsOptions

-----------------------------------------------------------------------------
(* The run.                                                                *)

LoadsProgram ==
  /\ phase = "loading"
  /\ \E file \in program :
       /\ load_program(file)
       /\ \/ file.result = "LOAD_OK" /\ phase' = "running" /\ UNCHANGED exit_code
          \/ file.result = "LOAD_FILE_ERROR" /\ Exits(EXIT_FILE_ERROR)
          \/ file.result = "LOAD_ASM_ERROR" /\ Exits(EXIT_ASM_ERROR)
  /\ UNCHANGED <<command_line, optionVars, steps, outputVars>>

\* Mutant of ExitCode: the cap is looked at first, and a halt in the last step
\* that it allows goes unseen.
ExitCode_CapFirst(last_status) ==
  CASE steps' >= max_steps      -> EXIT_MAX_STEPS
    [] last_status = "OVERFLOW" -> EXIT_OVERFLOW
    [] OTHER                    -> EXIT_OK

\* The code for the state in which the loop is left.
ExitCode(last_status) ==
  CASE last_status = "OVERFLOW" -> EXIT_OVERFLOW
    [] last_status = "STOPPED"  -> EXIT_OK
    [] OTHER                    -> EXIT_MAX_STEPS

\* Mutant of LeavesLoop: one step more than the cap.
LeavesLoop_AfterCap == Halted' \/ steps' > max_steps

\* The loop is left at a halt, and at the cap after the step that reaches it.
LeavesLoop == Halted' \/ steps' >= max_steps

\* The step hands a code to write_char of the backend that is attached.
Prints == ~Halted /\ ~input_in_progress /\ lgp30_opcode(instr) = 8

write_char(code) ==
  \/ io_mode = "simple" /\ simple_write_char(code)
  \/ io_mode = "flexowriter" /\ flexo_write_char(code)

\* Mutant of CountsStep: the steps are not counted.
CountsStep_Not == UNCHANGED steps

CountsStep == steps' = steps + 1

RunsStep ==
  /\ phase = "running"
  /\ Step
  /\ \/ Prints /\ write_char(printed')
     \/ ~Prints /\ UNCHANGED outputVars
  /\ CountsStep
  /\ IF LeavesLoop THEN Exits(ExitCode(status')) ELSE UNCHANGED <<phase, exit_code>>
  /\ UNCHANGED <<command_line, optionVars>>

\* main has returned, or the debugger goes on in its place.
Exited == phase \in {"exited", "repl"} /\ UNCHANGED hostVars

BatchNext == ParsesOptions \/ LoadsProgram \/ RunsStep \/ Exited

\* main waits for nobody: neither io/ backend ever answers "would block".
BatchSpec == BatchInit /\ [][BatchNext]_hostVars /\ WF_hostVars(BatchNext)

-----------------------------------------------------------------------------
(* Properties.                                                             *)

\* The types of the machine and of the host around it.
BatchTypeOK ==
  /\ TypeOK
  /\ phase \in {"options", "loading", "running", "exited", "repl"}
  /\ arg_pos \in 0 .. Len(command_line)
  /\ program \subseteq Files
  /\ max_steps \in Nat
  /\ steps \in Nat
  /\ exit_code \in NoExit .. EXIT_MAX_STEPS
  /\ phase = "exited" <=> exit_code # NoExit
  /\ phase \in {"loading", "running"} => io_mode \in Backends /\ program # {}
  /\ upper_case \in BOOLEAN
  /\ codes \in Seq(PrintCode)

\* The positions of the arguments that are an `option`.
Given(option) == {i \in DOMAIN command_line : command_line[i].option = option}

\* The arguments that name a program for main.
Paths == Given("path") \cup Given("repl")

LastOf(positions) == CHOOSE i \in positions : \A j \in positions : j <= i

\* main goes no further than an argument it cannot take: a help, an option it
\* does not know, a second program.
Decides(i) ==
  \/ i \in Given("help") \cup Given("unknown")
  \/ i \in Paths /\ \E j \in Paths : j < i

AskedMode ==
  IF Given("io") = {} THEN "simple" ELSE command_line[LastOf(Given("io"))].mode

AskedCap ==
  CASE Given("max_steps") = {} -> {DEFAULT_MAX_STEPS}
    [] OTHER -> LET number == command_line[LastOf(Given("max_steps"))].number
                IN IF number = {} THEN {0} ELSE number

\* The exit code of a command line that starts no program, NoExit of the others.
Verdict ==
  LET deciding == {i \in DOMAIN command_line : Decides(i)}
      first == CHOOSE i \in deciding : \A j \in deciding : i <= j
  IN CASE deciding # {} -> IF first \in Given("help") THEN EXIT_OK ELSE EXIT_ASM_ERROR
       [] deciding = {} /\ (Paths = {} \/ AskedMode \notin Backends) -> EXIT_ASM_ERROR
       [] OTHER -> NoExit

\* The command line as a whole says what is run, or that nothing is: the debugger
\* exactly when the first argument asks for it, whatever follows; or else a program,
\* and only when exactly one is named, every option is known and the backend too,
\* wherever the options stand and however often they are given, and then with the
\* last backend and the last cap given (main.c:40-80).
OptionsDecide ==
  phase # "options" =>
    IF AsksForRepl THEN phase = "repl" /\ program = {} /\ memory \in Images
    ELSE /\ phase # "repl"
         /\ IF Verdict # NoExit THEN exit_code = Verdict /\ steps = 0 /\ memory \in Images
            ELSE /\ program = {command_line[i].file : i \in Paths}
                 /\ io_mode = AskedMode
                 /\ max_steps \in AskedCap

\* Exit code 0 of a program is one that came to a `z`, or to the end of its
\* input in an `i`; 3 is one whose last instruction overflowed; 4 is one that
\* could have gone on, after every step it was allowed; and a program that could
\* not be loaded has not touched the machine (main.c:82-124).
ExitCodeIsTruthful ==
  LET opcode == lgp30_opcode(instruction_register)
  IN /\ exit_code = EXIT_OK /\ steps > 0 =>
          opcode = 0 \/ (opcode = 4 /\ tape_pos = Len(tape))
     /\ exit_code = EXIT_OVERFLOW => status = "OVERFLOW" /\ opcode \in {5, 14, 15}
     /\ exit_code = EXIT_MAX_STEPS => ~Halted /\ steps >= max_steps
     /\ exit_code \in {EXIT_ASM_ERROR, EXIT_FILE_ERROR} =>
          counter = 0 /\ memory \in Images /\ steps = 0

\* A program is never given more than its cap, except for the one step that
\* is taken before the cap is first looked at (main.c:106-115).
CapHolds == steps <= max_steps \/ steps = 1

\* On the Flexowriter the paper means what the codes printed so far mean.
PaperOfTheRun == io_mode = "flexowriter" => PaperMeansItsCodes

\* The host always exits, whatever the program does, or has become the debugger.
BatchEnds == <>(phase \in {"exited", "repl"})

\* "LGP-30 hex digit 11" is what the table says of the code of the key g, 46, and
\* so on for every digit (flexowriter.c:75-85, "code = 2 + 4*digit" at :32); input
\* is "raw pre-encoded code bytes" (flexowriter.h:9-13).  The last character read
\* is then the last digit of the accumulator.
DigitCodesEnterDigits ==
  (io_mode = "flexowriter" /\ input_in_progress /\ input_shift_count > 0) =>
    LET code == tape[tape_pos]
    IN code \in FlexoCode /\ code % 4 = 2 => accumulator % 16 = code \div 4
=============================================================================
