--------------------------- MODULE ProgramLoader ---------------------------
(***************************************************************************)
(* load_program (host/cli/program_loader.c), which both hosts use to bring *)
(* a program into their machine.  A file is what becomes of it.            *)
(***************************************************************************)
EXTENDS LGP30CPU, LoadResults

CONSTANT Files

ASSUME FilesAssumption == Files \subseteq LoadResult

\* A host creates its machine with nothing on the drum and the counter at 0.
ASSUME CreatedAssumption ==
  /\ Images = {[a \in Address |-> 0]}
  /\ StartAddresses = {0}

\* The words of the image over those already there.
loaded_memory(file) ==
  [a \in Address |-> IF a \in file.assigned THEN file.image[a] ELSE memory[a]]

\* Mutant of load_program: the machine is set running again.
load_program_Resumes(file) ==
  /\ IF file.result = "LOAD_OK"
     THEN /\ memory' = loaded_memory(file)
          /\ counter' \in IF file.start = {} THEN {counter} ELSE file.start
          /\ status' = "RUNNING"
     ELSE UNCHANGED <<memory, counter, status>>
  /\ UNCHANGED <<accumulator, instruction_register, drum_ticks,
                 inputVars, tape, printed>>

\* Nothing but memory and counter changes: not the accumulator, nor the status
\* of a machine that has halted.
load_program(file) ==
  /\ IF file.result = "LOAD_OK"
     THEN /\ memory' = loaded_memory(file)
          /\ counter' \in IF file.start = {} THEN {counter} ELSE file.start
     ELSE UNCHANGED <<memory, counter>>
  /\ UNCHANGED <<accumulator, status, instruction_register, drum_ticks,
                 inputVars, tape, printed>>
=============================================================================
