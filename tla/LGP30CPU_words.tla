--------------------------- MODULE LGP30CPU_words ---------------------------
(***************************************************************************)
(* LGP30CPU with the history variables that show it to implement           *)
(* WordReader.  While a word is being read, the program still sees the     *)
(* accumulator and the reader as they were at its `i 0000`: the top of the *)
(* old accumulator is lost as digits push it out, so it is remembered.     *)
(***************************************************************************)
EXTENDS LGP30CPU

VARIABLES
  word_acc, \* the accumulator when the word in progress was begun
  word_pos  \* the characters read before it

historyVars == <<word_acc, word_pos>>

InitWithHistory == Init /\ word_acc = 0 /\ word_pos = 0

\* Remembered at the step that begins a word, forgotten at the one that ends it.
History ==
  LET begins == input_in_progress' /\ ~input_in_progress
      ends == ~input_in_progress'
      Remember(old, now) == IF ends THEN 0 ELSE IF begins THEN now ELSE old
  IN /\ word_acc' = Remember(word_acc, accumulator)
     /\ word_pos' = Remember(word_pos, tape_pos)

StepWithHistory == Step /\ History

ResetWithHistory == Reset /\ History

NextWithHistory == StepWithHistory \/ ResetWithHistory

SpecWithHistory == InitWithHistory /\ [][NextWithHistory]_<<vars, historyVars>>

Reader == INSTANCE WordReader WITH
  accumulator <- IF input_in_progress THEN word_acc ELSE accumulator,
  tape_pos <- IF input_in_progress THEN word_pos ELSE tape_pos,
  halted <- Halted

\* The machine reads words as WordReader does: however the host interleaves
\* its calls, "would block", resets and the end of the tape, every `i 0000`
\* that ends has read exactly one word, once, in order, and every other
\* instruction leaves the reader alone (cpu.c:115-152, 285-294).
ReadsWholeWords == Reader!Spec
=============================================================================
