------------------------------ MODULE MCBatch ------------------------------
(***************************************************************************)
(* Batch runs of small programs on a machine of 64 tracks of one sector,   *)
(* so that every code can be printed: programs that stop, overflow, read,  *)
(* print, go round for ever, or are not programs at all.                   *)
(***************************************************************************)
EXTENDS Batch, TLC

DigitWeights == [k \in 0 .. INPUT_SHIFTS |-> 16 ^ k]

EmptyDrum == {[a \in Address |-> 0]}

Program(start, words) ==
  [result |-> "LOAD_OK", start |-> start, assigned |-> DOMAIN words,
   image |-> [a \in Address |-> IF a \in DOMAIN words THEN words[a] ELSE 0]]

\* Any two instructions, from address 0 or 3, on a word of the program itself.
SmallPrograms ==
  {Program(start, (0 :> lgp30_make_instruction(first, 3))
               @@ (1 :> lgp30_make_instruction(second, operand)) @@ (3 :> 1536)) :
     start \in {{}, {3}}, first \in 0 .. 15, second \in 0 .. 15, operand \in {0, 3}}

\* Prints three codes, of which two may be shifts; the first word is printed again
\* at the end of the round.
PrintPrograms ==
  {Program({}, (0 :> lgp30_make_instruction(8, c1)) @@ (1 :> lgp30_make_instruction(8, c2))
            @@ (2 :> lgp30_make_instruction(8, c3)) @@ (3 :> lgp30_make_instruction(10, 0))) :
     c1 \in {4, 8, 63}, c2 \in {1, 4, 8, 16}, c3 \in 0 .. 63}

\* Reads words for ever.
ReadProgram == Program({}, (0 :> lgp30_make_instruction(4, 0)) @@ (1 :> lgp30_make_instruction(10, 0)))

Unreadable == [result |-> "LOAD_FILE_ERROR"]
Malformed == [result |-> "LOAD_ASM_ERROR"]

BatchFiles == SmallPrograms \cup PrintPrograms \cup {ReadProgram, Unreadable, Malformed}

Repl(file) == [option |-> "repl", file |-> file]
Path(file) == [option |-> "path", file |-> file]
Io(mode) == [option |-> "io", mode |-> mode]
MaxSteps(number) == [option |-> "max_steps", number |-> number]
Plain(option) == [option |-> option]

\* Every small program under every cap; every print program on the Flexowriter.
Runs1 == {<<MaxSteps({n}), Path(file)>> : n \in {0, 2, 7}, file \in SmallPrograms}
Runs2 == {<<Path(file), Io("flexowriter")>> : file \in PrintPrograms \cup {ReadProgram}}

\* Every command line of up to three arguments out of these, and of no meaning too.
Arguments ==
  {Plain("help"), Plain("verbose"), Plain("unknown"), Io("simple"), Io("flexowriter"),
   Io("teletype"), MaxSteps({}), MaxSteps({2}), Path(ReadProgram), Path(Unreadable), Path(Malformed),
   Repl(ReadProgram)}
Mixtures == UNION {[1 .. n -> Arguments] : n \in 0 .. 3}

BatchCommandLines == Runs1 \cup Runs2 \cup Mixtures

\* The last is typed in the Flexowriter's codes for 1, g and 0.
BatchTapes == {<<>>, <<7>>, <<15, 3, 32, 3, 8>>, <<6, 46, 2>>}
=============================================================================
