---------------------------- MODULE LoadResults ----------------------------
(***************************************************************************)
(* What becomes of the file of a program (host/cli/program_loader.h): it   *)
(* cannot be read, it does not assemble, or it gives an image.  The        *)
(* assembler makes these and the loader takes them.                        *)
(***************************************************************************)
EXTENDS LGP30Types

FailedFile == [result : {"LOAD_FILE_ERROR", "LOAD_ASM_ERROR"}]

\* Words have no spacer; a start address is there or not.
ImageFile ==
  [result : {"LOAD_OK"}, image : [Address -> DrumWord], assigned : SUBSET Address,
   start : {{}} \cup {{a} : a \in Address}]

LoadResult == FailedFile \cup ImageFile
=============================================================================
