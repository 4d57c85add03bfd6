-------------------------- MODULE BootstrapLoader --------------------------
(***************************************************************************)
(* The bootstrap loader of the manual (tests/test_bootstrap.c): it reads   *)
(* the words of a tape to LOAD_ADDRESS and on, by stepping the address of  *)
(* its own `c`.                                                            *)
(***************************************************************************)
EXTENDS LGP30CPU

CONSTANT
  LOAD_ADDRESS  \* 2000: where the first word of the tape goes

ASSUME LoaderAssumption == LOAD_ADDRESS \in Address /\ LOAD_ADDRESS >= 8

CLEAR_AND_STORE == 2  \* the location of the `c` it modifies
AUGMENTER == 7        \* that of "1 at 29", one sector

\* The words of the loader, all but the `c`.
IsLoader ==
  /\ memory[0] = lgp30_make_instruction(8, 0)
  /\ memory[1] = lgp30_make_instruction(4, 0)
  /\ memory[3] = lgp30_make_instruction(1, CLEAR_AND_STORE)
  /\ memory[4] = lgp30_make_instruction(14, AUGMENTER)
  /\ memory[5] = lgp30_make_instruction(2, CLEAR_AND_STORE)
  /\ memory[6] = lgp30_make_instruction(10, 0)
  /\ memory[AUGMENTER] = ADDRESS_UNIT

\* The `c` stores to an address.
StoresTo(address) ==
  memory[CLEAR_AND_STORE] = lgp30_make_instruction(13, address)

\* A tape of whole characters, no stop code among them, that fits on the drum.
TapeFits ==
  /\ \A i \in DOMAIN tape : ~IsStopCode(tape[i])
  /\ Len(tape) <= (LGP30_MEMORY_WORDS - LOAD_ADDRESS) * INPUT_SHIFTS

LoaderInit ==
  /\ Init
  /\ counter = 0
  /\ IsLoader
  /\ StoresTo(LOAD_ADDRESS)
  /\ TapeFits

\* A batch run: the host only calls lgp30_step.
LoaderSpec == LoaderInit /\ [][Step]_vars

-----------------------------------------------------------------------------
(* Properties.                                                             *)

\* The k-th word of the tape is on the drum: its digits are the characters
\* read for it, and the spacer of the last one is cleared.
IsStored(k) ==
  \A i \in 1 .. INPUT_SHIFTS :
    LET digit == tape[((k - 1) * INPUT_SHIFTS) + i] % 16
    IN (memory[LOAD_ADDRESS + k - 1] \div DIGIT_WEIGHTS[INPUT_SHIFTS - i]) % 16 =
         IF i = INPUT_SHIFTS THEN lgp30_mask_spacer(digit) ELSE digit

\* Whenever the loader is about to ask for a word, and when it has halted, each
\* word read so far is at its place on the drum, with its spacer cleared, and the
\* `c` that stored it has become a `c` to the next location; and it halts only
\* when the tape is at its end.  These are test_bootstrap.c's expectations, for
\* every tape that fits and after every word (cpu.c:93-97, 128-152, 189-192).
LoaderFillsMemory ==
  IsLoader =>
    /\ (counter = 1 /\ ~input_in_progress) \/ Halted =>
         LET read == tape_pos \div INPUT_SHIFTS
         IN /\ \A k \in 1 .. read : IsStored(k)
            /\ StoresTo((LOAD_ADDRESS + read) % LGP30_MEMORY_WORDS)
    /\ Halted => status = "STOPPED" /\ tape_pos = Len(tape)
=============================================================================
