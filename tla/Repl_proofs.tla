----------------------------- MODULE Repl_proofs -----------------------------
(***************************************************************************)
(* Proofs about the debugger, for every machine, program file and cap.     *)
(* The machine under it keeps the inductive invariant of LGP30CPU_proofs,  *)
(* also when a program is loaded over another; what is new is that the     *)
(* reader, always at its end, never leaves the machine within a word.      *)
(***************************************************************************)
EXTENDS Repl, LGP30CPU_proofs

\* A run that has executed something has not halted: it would have returned.
RunGoesOn == mode = "run" /\ run_steps > 0 => ~Halted

\* A path without a breakpoint after its first address.
PassesNone(path) == \A k \in 2 .. Len(path) : path[k] \notin breakpoints

\* The turns of a run are the instructions it has executed, and it would have
\* come back at a breakpoint.
PathOfRun == mode = "run" => run_steps = Len(executed) /\ PassesNone(executed)

\* The inductive invariant of the debugger.
ReplInv == IInv /\ ReplTypeOK /\ NeverMidWord /\ RunGoesOn /\ PathOfRun

-----------------------------------------------------------------------------
(* The machine under the debugger.                                         *)

\* A program brings its words without their spacer, a start that is an address,
\* and nothing else.
LEMMA LoadPreserves ==
  ASSUME IInv, NEW file \in Files, load_program(file)
  PROVE  IInv'
  <1>1. /\ memory \in [Address -> DrumWord] /\ counter \in Address
        /\ UNCHANGED <<accumulator, status, instruction_register, drum_ticks,
                       input_in_progress, input_shift_count, tape_pos, tape, printed>>
    BY DEF load_program, inputVars, IInv, TypeOK, DrumSpacerClear
  <1>2. CASE file.result = "LOAD_OK"
    <2>1. /\ file.image \in [Address -> DrumWord]
          /\ file.start = {} \/ \E a \in Address : file.start = {a}
      BY <1>2, FilesAssumption DEF LoadResult, FailedFile, ImageFile
    <2>2. memory' \in [Address -> DrumWord] /\ counter' \in Address
      BY <1>1, <1>2, <2>1 DEF load_program, loaded_memory
    <2> QED
      BY <1>1, <2>2, LoadedPreserves
  <1>3. CASE file.result # "LOAD_OK"
    BY <1>1, <1>3, LoadedPreserves DEF load_program
  <1> QED
    BY <1>2, <1>3

\* No reader of the debugger holds a character.
LEMMA ReaderIsEmpty ==
  ASSUME TypeOK
  PROVE  tape_pos = Len(tape)
  <1>1. tape = <<>>
    BY ReplReaderAssumption DEF TypeOK
  <1> QED
    BY <1>1 DEF TypeOK

\* A call of lgp30_step never stops within a word: `i 0000` finds the end of
\* the reader in the call that begins it.
LEMMA StepEndsWord ==
  ASSUME TypeOK, NeverMidWord, Step
  PROVE  NeverMidWord'
  <1>1. ~input_in_progress /\ status # "WAITING_FOR_IO"
    BY DEF NeverMidWord
  <1>2. CASE op_input
    <2>1. ReaderAtEnd(0)
      BY <1>2, ReaderIsEmpty, ReplReaderAssumption
      DEF op_input, op_input_continue, ReaderBlocks, ReaderStops, ReaderShifts
    <2> QED
      BY <2>1 DEF ReaderAtEnd, NeverMidWord
  <1>3. CASE \/ op_bring \/ op_store_address \/ op_return_address
             \/ op_hold_and_store \/ op_clear_and_store
             \/ op_stop \/ op_print \/ op_unconditional_transfer \/ op_test
    BY <1>1, <1>3 DEF op_bring, op_store_address, op_return_address, op_hold_and_store,
       op_clear_and_store, op_stop, op_print, op_unconditional_transfer, op_test,
       OperandRead, Stores, Transfers, Runs, inputVars, NeverMidWord
  <1>4. CASE \/ op_add \/ op_subtract \/ op_m_multiply \/ op_n_multiply
             \/ op_divide \/ op_extract
    BY <1>1, <1>4 DEF op_add, op_subtract, op_m_multiply, op_n_multiply, op_divide, op_extract,
       Add, Subtract, MMultiply, NMultiply, Divide, Extract, Settle,
       OperandRead, inputVars, NeverMidWord
  <1>5. CASE HaltedStep
    BY <1>1, <1>5 DEF HaltedStep, vars, inputVars, NeverMidWord
  <1> QED
    BY <1>1, <1>2, <1>3, <1>4, <1>5 DEF Step, ContinueInput

\* No call of lgp30_step sets a halted machine going.
LEMMA HaltedStays ==
  ASSUME Halted, Step
  PROVE  UNCHANGED vars
  BY DEF Step, HaltedStep, ContinueInput, Executing,
     op_stop, op_bring, op_store_address, op_return_address, op_input, op_divide,
     op_n_multiply, op_m_multiply, op_print, op_extract, op_unconditional_transfer, op_test,
     op_hold_and_store, op_clear_and_store, op_add, op_subtract

\* What a turn that executes something adds to the path of its run.
LEMMA PathGrows ==
  ASSUME IInv, ReplTypeOK, RunGoesOn, PathOfRun, RunExecutes
  PROVE  /\ executed' \in Seq(Address)
         /\ \A k \in 2 .. Len(executed') : executed'[k] \notin breakpoints
         /\ ~Halted' => Len(executed') = run_steps + 1 /\ mode' = "run"
  <1>1. /\ executed \in Seq(Address) /\ counter \in Address /\ run_steps \in Nat
        /\ run_steps = Len(executed) /\ PassesNone(executed) /\ ~AtBreakpoint /\ mode = "run"
        /\ MAX_RUN_STEPS \in Nat /\ run_steps < MAX_RUN_STEPS
    BY ReplAssumption DEF ReplTypeOK, TypeOK, PathOfRun, RunExecutes
  <1>2. CASE Halted
    <2>1. UNCHANGED vars /\ executed' = executed
      BY <1>2, HaltedStays DEF RunExecutes, RunSteps
    <2> QED
      BY <1>1, <1>2, <2>1 DEF PassesNone, vars, Halted
  <1>3. CASE ~Halted
    <2>1. executed' = Append(executed, counter)
      BY <1>1, <1>3 DEF RunExecutes, RunSteps
    <2>2. Len(executed') = Len(executed) + 1 /\ executed' \in Seq(Address)
      BY <1>1, <2>1
    <2>3. ASSUME NEW k \in 2 .. Len(executed') PROVE executed'[k] \notin breakpoints
      <3>1. CASE k \in 2 .. Len(executed)
        BY <1>1, <2>1, <3>1 DEF PassesNone
      <3>2. CASE k = Len(executed) + 1
        <4>1. executed'[k] = counter /\ run_steps > 0
          BY <1>1, <2>1, <2>3, <3>2
        <4> QED
          BY <1>1, <4>1 DEF AtBreakpoint
      <3> QED
        BY <1>1, <2>2, <2>3, <3>1, <3>2
    <2>4. ~Halted' => mode' = mode
      BY DEF RunExecutes
    <2> QED
      BY <1>1, <2>2, <2>3, <2>4
  <1> QED
    BY <1>2, <1>3

LEMMA InitReplInv == ReplInit => ReplInv
  <1> SUFFICES ASSUME ReplInit PROVE ReplInv
    OBVIOUS
  <1>1. IInv
    BY InitIInv DEF ReplInit
  <1> QED
    BY <1>1, ReplAssumption 
    DEF ReplInit, Init, ReplInv, IInv, ReplTypeOK, RunResults, NeverMidWord, RunGoesOn, PathOfRun

\* What a command or a turn does to the machine: a call of lgp30_step, a reset,
\* a load, or nothing.
LEMMA MachineStepPreserves ==
  ASSUME IInv, NeverMidWord, Step \/ Reset \/ UNCHANGED vars \/ \E file \in Files : load_program(file)
  PROVE  IInv' /\ NeverMidWord'
  <1>1. CASE Step
    BY <1>1, NextIInv, StepEndsWord DEF Next, IInv
  <1>2. CASE Reset
    BY <1>2, NextIInv DEF Next, Reset, NeverMidWord
  <1>3. CASE UNCHANGED vars
    BY <1>3, NextIInv DEF vars, inputVars, NeverMidWord
  <1>4. CASE \E file \in Files : load_program(file)
    BY <1>4, LoadPreserves DEF load_program, inputVars, NeverMidWord
  <1> QED
    BY <1>1, <1>2, <1>3, <1>4

\* The machine of every debugger step is one of those.
LEMMA ReplMachineStep ==
  ASSUME [ReplNext]_allVars
  PROVE  Step \/ Reset \/ UNCHANGED vars \/ \E file \in Files : load_program(file)
  BY DEF ReplNext, allVars, cmd_step, cmd_run, cmd_break, cmd_clear, cmd_reset, cmd_load, cmd_quit,
     SetsBreakpoints, RunExecutes, RunSteps, RunBreaks, RunReachesLimit, ReplEnded

LEMMA NextReplInv == ReplInv /\ [ReplNext]_allVars => ReplInv'
  <1> SUFFICES ASSUME ReplInv, [ReplNext]_allVars PROVE ReplInv'
    OBVIOUS
  <1>1. IInv' /\ NeverMidWord'
    BY MachineStepPreserves, ReplMachineStep DEF ReplInv
  <1>2. TypeOK' /\ MAX_RUN_STEPS \in Nat \ {0}
    BY <1>1, ReplAssumption DEF IInv
  <1>3. CASE cmd_step \/ cmd_reset \/ cmd_load
    BY <1>1, <1>2, <1>3 DEF cmd_step, cmd_reset, cmd_load, replVars, ReplInv, ReplTypeOK, RunGoesOn, PathOfRun
  <1>4. CASE cmd_run
    BY <1>1, <1>2, <1>4 DEF cmd_run, vars, ReplInv, ReplTypeOK, RunResults, RunGoesOn, PathOfRun, PassesNone, Halted
  <1>5. CASE cmd_break \/ cmd_clear
    <2>1. PICK addresses \in SUBSET Address : SetsBreakpoints(addresses)
      BY <1>5 DEF cmd_break, cmd_clear, ReplInv, ReplTypeOK
    <2> QED
      BY <1>1, <1>2, <2>1 DEF SetsBreakpoints, ReplInv, ReplTypeOK, RunGoesOn, PathOfRun
  <1>6. CASE cmd_quit
    BY <1>1, <1>2, <1>6 DEF cmd_quit, ReplInv, ReplTypeOK, RunGoesOn, PathOfRun
  <1>7. CASE RunExecutes
    <2>1. /\ executed' \in Seq(Address) /\ UNCHANGED breakpoints
          /\ PassesNone(executed)'
          /\ ~Halted' => Len(executed') = run_steps + 1
      BY <1>7, PathGrows DEF ReplInv, PassesNone, RunExecutes
    <2>2. CASE Halted'
      <3>1. Returns("halted")
        BY <1>7, <2>2 DEF RunExecutes
      <3> QED
        BY <1>1, <1>2, <2>1, <3>1 DEF Returns, ReplInv, ReplTypeOK, RunResults, RunGoesOn, PathOfRun
    <2>3. CASE ~Halted'
      <3>1. run_steps' = run_steps + 1 /\ run_steps < MAX_RUN_STEPS /\ UNCHANGED <<mode, run_result>>
        BY <1>7, <2>3 DEF RunExecutes
      <3> QED
        BY <1>1, <1>2, <1>7, <2>1, <2>3, <3>1
        DEF RunExecutes, ReplInv, ReplTypeOK, RunGoesOn, PathOfRun
    <2> QED
      BY <2>2, <2>3
  <1>8. CASE RunBreaks \/ RunReachesLimit
    BY <1>1, <1>2, <1>8 DEF RunBreaks, RunReachesLimit, Returns, vars, ReplInv, ReplTypeOK,
       RunResults, RunGoesOn, PathOfRun, Halted
  <1>9. CASE ReplEnded \/ UNCHANGED allVars
    BY <1>1, <1>2, <1>9 DEF ReplEnded, allVars, replVars, vars, ReplInv, ReplTypeOK, RunGoesOn,
       PathOfRun, PassesNone, Halted
  <1> QED
    BY <1>3, <1>4, <1>5, <1>6, <1>7, <1>8, <1>9 DEF ReplNext

LEMMA ReplInvAlways == ReplSpec => []ReplInv
  BY InitReplInv, NextReplInv, PTL DEF ReplSpec

-----------------------------------------------------------------------------
(* The theorems.                                                           *)

\* Whatever is loaded over whatever, and however runs are cut short, the
\* machine and the debugger keep their types (repl.c:62-102, 138-158).
THEOREM ReplTypeCorrect == ReplSpec => []ReplTypeOK
  BY ReplInvAlways, PTL DEF ReplInv

\* No command ever finds or leaves the machine within a word (repl.c:10-24).
THEOREM NeverMidWordAlways == ReplSpec => []NeverMidWord
  BY ReplInvAlways, PTL DEF ReplInv

\* For every program, set of breakpoints and cap: a run that returns has executed
\* no instruction of a breakpoint after its first one, and reports a breakpoint
\* exactly when it is still going at one with turns to spare (repl.c:73-89).
THEOREM RunHonoursBreakpointsAlways == ReplSpec => RunHonoursBreakpoints
  <1> DEFINE Honoured ==
        mode = "run" /\ mode' = "prompt" =>
          /\ \A k \in 2 .. Len(executed') : executed'[k] \notin breakpoints
          /\ run_result' = "breakpoint" <=>
               /\ executed' # <<>> /\ Len(executed') < MAX_RUN_STEPS
               /\ ~Halted' /\ counter' \in breakpoints
  <1>1. ReplInv /\ [ReplNext]_allVars => [Honoured]_allVars
    <2>1. SUFFICES ASSUME ReplInv, ReplNext, mode = "run", mode' = "prompt" PROVE Honoured
      OBVIOUS
    <2>2. RunExecutes \/ RunBreaks \/ RunReachesLimit
      BY <2>1 DEF ReplNext, cmd_step, cmd_run, cmd_break, cmd_clear, cmd_reset, cmd_load,
         cmd_quit, SetsBreakpoints, ReplEnded
    <2>3. /\ run_steps = Len(executed) /\ PassesNone(executed) /\ executed \in Seq(Address)
          /\ run_steps > 0 => ~Halted
          /\ MAX_RUN_STEPS \in Nat
      BY <2>1, ReplAssumption DEF ReplInv, PathOfRun, ReplTypeOK, RunGoesOn
    <2>4. CASE RunExecutes
      <3>1. \A k \in 2 .. Len(executed') : executed'[k] \notin breakpoints
        BY <2>1, <2>4, PathGrows DEF ReplInv
      <3>2. Halted' /\ run_result' = "halted"
        BY <2>1, <2>4 DEF RunExecutes, Returns
      <3> QED
        BY <3>1, <3>2
    <2>5. CASE RunBreaks
      <3>1. /\ run_result' = "breakpoint" /\ run_steps > 0 /\ run_steps < MAX_RUN_STEPS
            /\ counter' \in breakpoints /\ executed' = executed /\ Halted' = Halted
        BY <2>5 DEF RunBreaks, Returns, AtBreakpoint, vars, drumVars, Halted
      <3> QED
        BY <2>3, <3>1 DEF PassesNone
    <2>6. CASE RunReachesLimit
      <3>1. run_result' = "step_limit" /\ run_steps = MAX_RUN_STEPS /\ executed' = executed
        BY <2>6 DEF RunReachesLimit, Returns
      <3>2. Len(executed') = MAX_RUN_STEPS /\ run_result' # "breakpoint"
        BY <2>3, <3>1
      <3>3. ~(Len(executed') < MAX_RUN_STEPS)
        BY <2>3, <3>2
      <3>4. \A k \in 2 .. Len(executed') : executed'[k] \notin breakpoints
        BY <2>3, <3>1 DEF PassesNone
      <3> QED
        BY <3>2, <3>3, <3>4
    <2> QED
      BY <2>2, <2>4, <2>5, <2>6
  <1> QED
    BY <1>1, ReplInvAlways, PTL DEF ReplSpec, RunHonoursBreakpoints

\* The reason a run gives for its end is the true one (repl.c:73-101).
THEOREM RunTellsWhyItStoppedAlways == ReplSpec => RunTellsWhyItStopped
  <1> DEFINE Told == mode = "run" /\ mode' = "prompt" =>
                       /\ run_result' = "halted" <=> Halted'
                       /\ run_result' = "breakpoint" => counter' \in breakpoints /\ UNCHANGED vars
  <1>1. ReplInv /\ [ReplNext]_allVars => [Told]_allVars
    <2>1. SUFFICES ASSUME ReplInv, ReplNext, mode = "run", mode' = "prompt" PROVE Told
      OBVIOUS
    <2>2. RunExecutes \/ RunBreaks \/ RunReachesLimit
      BY <2>1 DEF ReplNext, cmd_step, cmd_run, cmd_break, cmd_clear, cmd_reset, cmd_load,
         cmd_quit, SetsBreakpoints, ReplEnded
    <2>3. CASE RunExecutes
      BY <2>1, <2>3 DEF RunExecutes, Returns
    <2>4. CASE RunBreaks
      BY <2>1, <2>4 DEF RunBreaks, AtBreakpoint, Returns, ReplInv, RunGoesOn, Halted, vars, drumVars
    <2>5. CASE RunReachesLimit
      BY <2>1, <2>5, ReplAssumption DEF RunReachesLimit, Returns, vars, ReplInv, ReplTypeOK, RunGoesOn, Halted
    <2> QED
      BY <2>2, <2>3, <2>4, <2>5
  <1> QED
    BY <1>1, ReplInvAlways, PTL DEF ReplSpec, RunTellsWhyItStopped

\* Neither a load nor a call of lgp30_step sets a halted machine going
\* (cpu.c:291-294, program_loader.c:66-75).
THEOREM OnlyResetRevivesAlways == ReplSpec => OnlyResetRevives
  <1> DEFINE Revived == Halted /\ ~Halted' => counter' = 0 /\ drum_ticks' = 0 /\ memory' = memory
  <1>1. [ReplNext]_allVars => [Revived]_allVars
    <2>1. SUFFICES ASSUME [ReplNext]_allVars, Halted, ~Halted' PROVE Revived
      OBVIOUS
    <2>2. ~UNCHANGED vars
      BY <2>1 DEF vars, Halted
    <2>3. ~Step
      BY <2>1, <2>2, HaltedStays
    <2>4. ~(\E file \in Files : load_program(file))
      BY <2>1 DEF load_program, Halted
    <2>5. Reset
      BY <2>1, <2>2, <2>3, <2>4, ReplMachineStep
    <2> QED
      BY <2>5 DEF Reset
  <1> QED
    BY <1>1, PTL DEF ReplSpec, OnlyResetRevives
-----------------------------------------------------------------------------
(* What RunReturns rests on, but for the fairness.                         *)

RunsOn ==
  /\ mode' = "run"
  /\ run_steps' = run_steps + 1
  /\ run_steps' <= MAX_RUN_STEPS

\* Whatever the program does, every step taken in a run ends it or is one more of
\* the at most MAX_RUN_STEPS turns its loop has: no program, breakpoint or wait for
\* the operator makes a turn that does not count (repl.c:73-97).
THEOREM RunAlwaysNearsItsReturn ==
  ReplSpec => [][mode = "run" => mode' = "prompt" \/ RunsOn]_allVars
  <1> DEFINE Nears == mode = "run" => mode' = "prompt" \/ RunsOn
  <1>1. ReplInv /\ [ReplNext]_allVars => [Nears]_allVars
    <2> SUFFICES ASSUME ReplInv, ReplNext, mode = "run" PROVE mode' = "prompt" \/ RunsOn
      OBVIOUS
    <2>1. RunExecutes \/ RunBreaks \/ RunReachesLimit
      BY DEF ReplNext, cmd_step, cmd_run, cmd_break, cmd_clear, cmd_reset, cmd_load,
         cmd_quit, SetsBreakpoints, ReplEnded
    <2>2. CASE RunExecutes
      BY <2>2, ReplAssumption DEF RunExecutes, Returns, RunsOn, ReplInv, ReplTypeOK
    <2>3. CASE RunBreaks \/ RunReachesLimit
      BY <2>3 DEF RunBreaks, RunReachesLimit, Returns
    <2> QED
      BY <2>1, <2>2, <2>3
  <1> QED
    BY <1>1, ReplInvAlways, PTL DEF ReplSpec
=============================================================================
