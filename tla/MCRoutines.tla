----------------------------- MODULE MCRoutines -----------------------------
(***************************************************************************)
(* Two programs every LGP-30 had, on a machine of sixteen words of 12      *)
(* bits, three digits each: the bootstrap loader of tests/test_bootstrap.c *)
(* and a subroutine called by the `r`, `u` pair of the manual              *)
(* (cpu.c:99-107).                                                         *)
(***************************************************************************)
EXTENDS BootstrapLoader

DigitWeights == [k \in 0 .. INPUT_SHIFTS |-> 16 ^ k]

-----------------------------------------------------------------------------
(* The loader.                                                             *)

LoaderImage ==
  [a \in Address |->
     CASE a = 0 -> lgp30_make_instruction(8, 0)
       [] a = 1 -> lgp30_make_instruction(4, 0)
       [] a = CLEAR_AND_STORE -> lgp30_make_instruction(13, LOAD_ADDRESS)
       [] a = 3 -> lgp30_make_instruction(1, CLEAR_AND_STORE)
       [] a = 4 -> lgp30_make_instruction(14, AUGMENTER)
       [] a = 5 -> lgp30_make_instruction(2, CLEAR_AND_STORE)
       [] a = 6 -> lgp30_make_instruction(10, 0)
       [] a = AUGMENTER -> ADDRESS_UNIT
       [] OTHER -> 0]

\* Tapes of the digits 5 and 15 that end with a word, the third, or within it, and
\* longer ones with other digits; 15 sets the spacer and every field, 5 the spacer
\* and no sign.
LoaderTapes ==
  UNION {[1 .. n -> {5, 15}] : n \in 7 .. 9}
    \cup {[i \in 1 .. n |-> (i * d) % 16] : n \in {11, 12}, d \in {1, 3, 7, 11}}

-----------------------------------------------------------------------------
(* The subroutine, called from three places, the last with its `r` at the  *)
(* end of memory.                                                          *)

\* 13 returns to 15, which calls again, and returns to 1.
CallSites == {5, 13, 15}
AfterCalls == {7, 1}

\* It does `body` on some word, then reads a word, and leaves by the `u` that
\* the call has aimed at its caller.
LinkageImages ==
  {[a \in Address |->
      CASE a \in CallSites -> lgp30_make_instruction(3, entry + 2)
        [] a \in {(site + 1) % LGP30_MEMORY_WORDS : site \in CallSites} ->
             lgp30_make_instruction(10, entry)
        [] a \in AfterCalls -> lgp30_make_instruction(0, 0)
        [] a = entry -> lgp30_make_instruction(body, 12)
        [] a = entry + 1 -> lgp30_make_instruction(4, 0)
        [] a = entry + 2 -> lgp30_make_instruction(10, 4)
        [] OTHER -> 2 * ADDRESS_UNIT + 2048] :
     entry \in 8 .. 9, body \in (1 .. 15) \ {4}}

\* No, one or two words: full, of one digit, or empty.
LinkageTapes ==
  {<<>>} \cup {one \o two : one, two \in {<<15, 1, 9>>, <<7, 32>>, <<32>>, <<8, 96, 3, 32>>}}

-----------------------------------------------------------------------------
RoutineImages == {LoaderImage} \cup LinkageImages
RoutineStarts == {0} \cup CallSites
RoutineTapes == LoaderTapes \cup LinkageTapes

\* Each program with its own tapes, from its own entry.
RoutineInit ==
  \/ LoaderInit
  \/ Init /\ memory \in LinkageImages /\ counter \in CallSites /\ tape \in LinkageTapes

\* A batch run: the host only calls lgp30_step, and keeps calling it.
RoutineSpec == RoutineInit /\ [][Step]_vars /\ WF_vars(Step)

\* "halts cleanly once input is exhausted" (test_bootstrap.c:104): the loader
\* reads its tape to the end and stops there, having stored every word.
LoaderHaltsAtEnd ==
  IsLoader => <>[](status = "STOPPED" /\ tape_pos = Len(tape) /\ ~input_in_progress)

\* "r stores the address of one past the transfer conventionally placed right
\* after it" (cpu.c:99-107): whatever the subroutine does and wherever it is
\* called from, it comes back there and calls nothing twice, so that two words
\* are enough for two calls, unless what it does halts the machine.
CallsReturn ==
  \A site \in CallSites :
    ~IsLoader /\ counter = site /\ tape # <<>> ~>
      \/ counter = (site + 2) % LGP30_MEMORY_WORDS
      \/ Halted /\ lgp30_opcode(instruction_register) # 4
=============================================================================
