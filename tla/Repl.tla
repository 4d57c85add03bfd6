-------------------------------- MODULE Repl --------------------------------
(***************************************************************************)
(* The interactive debugger (host/cli/repl.c).  A command is one step,     *)
(* except `run`, whose loop takes a step for each turn.  Commands that     *)
(* only show something (registers, dump, help, anything malformed) change  *)
(* nothing and are left out.                                               *)
(***************************************************************************)
EXTENDS ProgramLoader, Sequences

CONSTANT MAX_RUN_STEPS \* 1000000

VARIABLES
  breakpoints, \* struct LGP30.breakpoints, as a set of addresses
  run_steps,   \* i of cmd_run: the instructions its loop has executed
  mode,        \* at the "prompt", in the loop of a "run", or "ended"
  run_result,  \* what the last run printed when it came to its end
  executed     \* history: the addresses of the instructions the last run executed

replVars == <<breakpoints, run_steps, mode, run_result, executed>>
allVars == <<vars, replVars>>

RunResults == {"none", "breakpoint", "halted", "step_limit"}

ASSUME ReplAssumption == MAX_RUN_STEPS \in Nat \ {0}

\* repl_read_char always reports the end of the input.
ASSUME ReplReaderAssumption == Tapes = {<<>>} /\ CAN_BLOCK = FALSE

ReplInit ==
  /\ Init
  /\ breakpoints = {}
  /\ run_steps = 0
  /\ mode = "prompt"
  /\ run_result = "none"
  /\ executed = <<>>

-----------------------------------------------------------------------------
(* Commands at the prompt.                                                 *)

cmd_step == mode = "prompt" /\ Step /\ UNCHANGED replVars

cmd_run ==
  /\ mode = "prompt"
  /\ mode' = "run"
  /\ run_steps' = 0
  /\ run_result' = "none"
  /\ executed' = <<>>
  /\ UNCHANGED <<vars, breakpoints>>

\* lgp30_set_breakpoint, lgp30_clear_breakpoint.
SetsBreakpoints(addresses) ==
  /\ mode = "prompt"
  /\ breakpoints' = addresses
  /\ UNCHANGED <<vars, run_steps, mode, run_result, executed>>

cmd_break == \E address \in Address : SetsBreakpoints(breakpoints \cup {address})

cmd_clear == \E address \in Address : SetsBreakpoints(breakpoints \ {address})

cmd_reset == mode = "prompt" /\ Reset /\ UNCHANGED replVars

cmd_load ==
  /\ mode = "prompt"
  /\ \E file \in Files : load_program(file)
  /\ UNCHANGED replVars

\* quit, exit, or the end of the commands.
cmd_quit ==
  /\ mode = "prompt"
  /\ mode' = "ended"
  /\ UNCHANGED <<vars, breakpoints, run_steps, run_result, executed>>

-----------------------------------------------------------------------------
(* The loop of cmd_run.                                                    *)

\* The run ends, and its count with it.
Returns(result) == mode' = "prompt" /\ run_result' = result /\ run_steps' = 0

\* A call of lgp30_step; a halted machine executes nothing (cpu.c:286-288).  The
\* history has room for MAX_RUN_STEPS instructions, as many as a run can execute.
RunSteps ==
  /\ Step
  /\ executed' = IF Halted \/ Len(executed) = MAX_RUN_STEPS THEN executed
                 ELSE Append(executed, counter)

\* Mutant of AtBreakpoint: a breakpoint is noticed one instruction late.
AtBreakpoint_Late == run_steps > 1 /\ counter \in breakpoints

\* The address a run starts at is never taken for a breakpoint.
AtBreakpoint == run_steps > 0 /\ counter \in breakpoints

\* Mutants of RunExecutes: the loop does not count its turns; it does not look
\* for an overflow.
RunExecutes_Uncounted ==
  /\ mode = "run"
  /\ run_steps < MAX_RUN_STEPS
  /\ ~AtBreakpoint
  /\ RunSteps
  /\ IF Halted' THEN Returns("halted") ELSE UNCHANGED <<run_steps, mode, run_result>>
  /\ UNCHANGED breakpoints

RunExecutes_IgnoresOverflow ==
  /\ mode = "run"
  /\ run_steps < MAX_RUN_STEPS
  /\ ~AtBreakpoint
  /\ RunSteps
  /\ IF status' = "STOPPED" THEN Returns("halted")
     ELSE run_steps' = run_steps + 1 /\ UNCHANGED <<mode, run_result>>
  /\ UNCHANGED breakpoints

RunExecutes ==
  /\ mode = "run"
  /\ run_steps < MAX_RUN_STEPS
  /\ ~AtBreakpoint
  /\ RunSteps
  /\ IF Halted' THEN Returns("halted")
     ELSE run_steps' = run_steps + 1 /\ UNCHANGED <<mode, run_result>>
  /\ UNCHANGED breakpoints

RunBreaks ==
  /\ mode = "run"
  /\ run_steps < MAX_RUN_STEPS
  /\ AtBreakpoint
  /\ Returns("breakpoint")
  /\ UNCHANGED <<vars, breakpoints, executed>>

RunReachesLimit ==
  /\ mode = "run"
  /\ run_steps = MAX_RUN_STEPS
  /\ Returns("step_limit")
  /\ UNCHANGED <<vars, breakpoints, executed>>

RunTurn == RunExecutes \/ RunBreaks \/ RunReachesLimit

ReplEnded == mode = "ended" /\ UNCHANGED allVars

ReplNext ==
  \/ cmd_step \/ cmd_run \/ cmd_break \/ cmd_clear \/ cmd_reset \/ cmd_load \/ cmd_quit
  \/ RunExecutes \/ RunBreaks \/ RunReachesLimit
  \/ ReplEnded

\* Once begun, a run goes on: the loop waits for nobody.
ReplSpec == ReplInit /\ [][ReplNext]_allVars /\ WF_allVars(RunTurn)
-----------------------------------------------------------------------------
(* Properties.                                                             *)

\* The types of the machine and of the debugger around it.
ReplTypeOK ==
  /\ TypeOK
  /\ breakpoints \subseteq Address
  /\ run_steps \in 0 .. MAX_RUN_STEPS
  /\ mode \in {"prompt", "run", "ended"}
  /\ run_result \in RunResults
  /\ executed \in Seq(Address)
  /\ mode # "run" => run_steps = 0

\* "`i 0000` always reads EOF here and halts immediately" (repl.c:10): however
\* commands interleave, no command finds the machine in the middle of a word,
\* and none leaves it so.
NeverMidWord == ~input_in_progress /\ status # "WAITING_FOR_IO"

\* The path of a whole run: no instruction after its first came from a breakpoint,
\* and it reports one exactly when it stands at one, still going, with something
\* executed and turns to spare; one it stands at when it halts or uses up its
\* turns is not reported (repl.c:73-89).
RunHonoursBreakpoints ==
  [][mode = "run" /\ mode' = "prompt" =>
       /\ \A k \in 2 .. Len(executed') : executed'[k] \notin breakpoints
       /\ run_result' = "breakpoint" <=>
            /\ executed' # <<>> /\ Len(executed') < MAX_RUN_STEPS
            /\ ~Halted' /\ counter' \in breakpoints]_allVars

\* What a run prints when it returns is true of the machine it returns with:
\* "status is still running, not stopped, at the breakpoint" (repl_test.sh:30).
RunTellsWhyItStopped ==
  [][mode = "run" /\ mode' = "prompt" =>
       /\ run_result' = "halted" <=> Halted'
       /\ run_result' = "breakpoint" => counter' \in breakpoints /\ UNCHANGED vars]_allVars

\* A machine that has halted stays halted until a reset, which also sends it
\* to address 0: a program loaded into it neither runs nor, after the reset,
\* begins at its start address (cpu.c:31-39, program_loader.c:66-75).
OnlyResetRevives ==
  [][Halted /\ ~Halted' => counter' = 0 /\ drum_ticks' = 0 /\ memory' = memory]_allVars

\* Every run returns to the prompt, also that of a program that never halts.
RunReturns == mode = "run" ~> mode = "prompt"

\* "A breakpoint stops `run` BEFORE executing the breakpointed instruction"
\* (repl_test.sh:26): no instruction of a run came from a breakpoint.
BreakpointStopsRun ==
  [][mode = "run" /\ mode' = "prompt" =>
       \A k \in DOMAIN executed' : executed'[k] \notin breakpoints]_allVars
=============================================================================
