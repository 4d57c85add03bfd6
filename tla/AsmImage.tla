------------------------------ MODULE AsmImage ------------------------------
(***************************************************************************)
(* A program written to a file as an image and read back                   *)
(* (core/asm/image.c).  A file is a sequence of lines.  Writing may fail   *)
(* in any line, and what was written may lose its end; a line of which     *)
(* only the beginning is left is one that does not parse, or one whose     *)
(* last number has lost digits.                                            *)
(***************************************************************************)
EXTENDS Assembler

CONSTANTS
  START_RANGE, \* 2^16: a start address is kept in 16 bits
  OtherFiles   \* files that image_write did not write

VARIABLES
  stage,    \* one of Stages
  file,     \* the lines of the file
  addr,     \* where the loop of image_write is
  whole,    \* nothing of what was to be written is missing: a history variable
  read_pos, \* the lines that image_read has parsed
  copy,     \* struct asm_image *img of image_read
  result    \* what image_read returned

fileVars == <<stage, file, addr, whole, read_pos, copy, result>>
asmImageVars == <<asmVars, fileVars>>

Stages == {"assembling", "starting", "writing", "written", "reading", "read"}

EmptyImage ==
  [memory |-> [a \in Address |-> 0], assigned |-> {}, start |-> {}]

StartLine(n) == [form |-> "start", number |-> n]
WordLine(a, word) == [form |-> "word", address |-> a, number |-> word]
BrokenLine == [form |-> "broken"]
EmptyLine == [form |-> "empty"]

FileLine ==
  [form : {"start"}, number : Nat] \cup [form : {"broken", "empty"}]
    \cup [form : {"word"}, address : Nat, number : Word]

ASSUME AsmImageAssumption ==
  /\ START_RANGE \in Nat \ {0}
  /\ LGP30_MEMORY_WORDS <= START_RANGE
  /\ OtherFiles \subseteq Seq(FileLine)

\* A program is assembled and written; or a file is there, of whatever origin.
AsmImageInit ==
  /\ AsmInit
  /\ \/ stage = "assembling" /\ file = <<>>
     \/ source = <<>> /\ stage = "written" /\ file \in OtherFiles
  /\ addr = 0
  /\ whole = FALSE
  /\ read_pos = 0
  /\ copy = EmptyImage
  /\ result = "none"

Assembles ==
  /\ stage = "assembling"
  /\ line_no < Len(source)
  /\ AsmNext
  /\ UNCHANGED fileVars

-----------------------------------------------------------------------------
(* image_write.                                                            *)

\* Mutant of StartLines: a start address that was not given is written.
StartLines_Always == {StartLine(start_address)}

\* The start address comes first, if the program has one.
StartLines == IF has_start_address THEN {StartLine(start_address)} ELSE {}

\* Mutant of StopsAt: a word that is 0 is taken for one that was not assigned.
StopsAt_Something(a) ==
  addr <= a /\ memory[a] # 0 /\ \A b \in Address : (addr <= b /\ b < a) => memory[b] = 0

\* Where the loop writes next: the first assigned address it has not passed.
StopsAt(a) ==
  addr <= a /\ assigned[a] /\ \A b \in Address : (addr <= b /\ b < a) => ~assigned[b]

WordLines == {WordLine(a, memory[a]) : a \in {b \in Address : StopsAt(b)}}

\* The image is written as it stands: image_write is not told of errors.
BeginsWriting ==
  /\ stage = "assembling"
  /\ line_no = Len(source)
  /\ stage' = "starting"
  /\ UNCHANGED <<asmVars, file, addr, whole, read_pos, copy, result>>

WritesStart ==
  /\ stage = "starting"
  /\ \/ \E l \in StartLines : file' = Append(file, l)
     \/ StartLines = {} /\ UNCHANGED file
  /\ stage' = "writing"
  /\ UNCHANGED <<asmVars, addr, whole, read_pos, copy, result>>

WritesWord ==
  /\ stage = "writing"
  /\ \E l \in WordLines : file' = Append(file, l) /\ addr' = l.address + 1
  /\ UNCHANGED <<asmVars, stage, whole, read_pos, copy, result>>

EndsWriting ==
  /\ stage = "writing"
  /\ WordLines = {}
  /\ addr' = LGP30_MEMORY_WORDS
  /\ stage' = "written"
  /\ whole' = TRUE
  /\ UNCHANGED <<asmVars, file, read_pos, copy, result>>

TenPowers ==
  {10, 100, 1000, 10000, 100000, 1000000, 10000000, 100000000, 1000000000}

\* A number that has lost the last of its digits, or none.
Shortened(n) == {n} \cup {n \div power : power \in {p \in TenPowers : p <= n}}

\* What may be left of a line that is cut short: nothing, too little to parse,
\* or all of it but its end.
Remnants(l) ==
  {<<>>, <<BrokenLine>>} \cup {<<[l EXCEPT !.number = n]>> : n \in Shortened(l.number)}

\* fprintf fails in the middle of a line: image_write returns false.
WriteFails ==
  /\ \/ stage = "starting" /\ \E l \in StartLines : \E rest \in Remnants(l) : file' = file \o rest
     \/ stage = "writing" /\ \E l \in WordLines : \E rest \in Remnants(l) : file' = file \o rest
  /\ stage' = "written"
  /\ UNCHANGED <<asmVars, addr, whole, read_pos, copy, result>>

\* The file loses its end after it was written.
LosesEnd ==
  /\ stage = "written"
  /\ whole
  /\ whole' = FALSE
  /\ \E n \in DOMAIN file :
       \E rest \in Remnants(file[n]) : file' = SubSeq(file, 1, n - 1) \o rest
  /\ UNCHANGED <<asmVars, stage, addr, read_pos, copy, result>>

-----------------------------------------------------------------------------
(* image_read.                                                             *)

BeginsReading ==
  /\ stage = "written"
  /\ stage' = "reading"
  /\ UNCHANGED <<asmVars, file, addr, whole, read_pos, copy, result>>

next_line == file[read_pos + 1]

Returns(answer) == stage' = "read" /\ result' = answer

\* The line is a `form`, and image_read goes on after it.
Reads(form) ==
  /\ stage = "reading"
  /\ read_pos < Len(file)
  /\ next_line.form = form
  /\ read_pos' = read_pos + 1
  /\ UNCHANGED <<asmVars, file, addr, whole>>

ReadsEmpty == Reads("empty") /\ UNCHANGED <<copy, stage, result>>

\* A start address is cut to 16 bits, not compared with the size of the drum.
ReadsStart ==
  /\ Reads("start")
  /\ copy' = [copy EXCEPT !.start = {next_line.number % START_RANGE}]
  /\ UNCHANGED <<stage, result>>

ReadsBroken == Reads("broken") /\ Returns("false") /\ UNCHANGED copy

\* Mutant of ReadsWord: an address beyond the drum is skipped.
ReadsWord_SkipsBeyond ==
  /\ Reads("word")
  /\ copy' = IF next_line.address >= LGP30_MEMORY_WORDS THEN copy
             ELSE [copy EXCEPT !.memory[next_line.address] = next_line.number,
                               !.assigned = @ \cup {next_line.address}]
  /\ UNCHANGED <<stage, result>>

ReadsWord ==
  /\ Reads("word")
  /\ \/ next_line.address >= LGP30_MEMORY_WORDS /\ Returns("false") /\ UNCHANGED copy
     \/ /\ next_line.address < LGP30_MEMORY_WORDS
        /\ copy' = [copy EXCEPT !.memory[next_line.address] = next_line.number,
                                !.assigned = @ \cup {next_line.address}]
        /\ UNCHANGED <<stage, result>>

EndsReading ==
  /\ stage = "reading"
  /\ read_pos = Len(file)
  /\ Returns("true")
  /\ UNCHANGED <<asmVars, file, addr, whole, read_pos, copy>>

AsmImageDone == stage = "read" /\ UNCHANGED asmImageVars

AsmImageNext ==
  \/ Assembles
  \/ BeginsWriting \/ WritesStart \/ WritesWord \/ EndsWriting \/ WriteFails \/ LosesEnd
  \/ BeginsReading \/ ReadsEmpty \/ ReadsStart \/ ReadsBroken \/ ReadsWord \/ EndsReading
  \/ AsmImageDone

AsmImageSpec == AsmImageInit /\ [][AsmImageNext]_asmImageVars

-----------------------------------------------------------------------------
(* Properties.                                                             *)

\* The copy has what the assembler's image has at an address.
SameWord(a) == copy.memory[a] = memory[a] /\ (a \in copy.assigned <=> assigned[a])

SameStart == copy.start = IF has_start_address THEN {start_address} ELSE {}

\* An image that was written whole reads back as itself, words and start, also
\* words that are 0 and those not assigned (image.h:23-30, test_asm.c:96).
WholeImageRoundTrips ==
  stage = "read" /\ whole => result = "true" /\ SameStart /\ \A a \in Address : SameWord(a)

\* An image that was cut short and is still read without a complaint is the
\* image up to some address: no word or start is there that was not written,
\* none but the last is wrong, and that one only by the digits it has lost.
CutImageIsAPart ==
  (stage = "read" /\ result = "true" /\ source # <<>>) =>
    \/ SameStart /\ \A a \in Address : SameWord(a)
    \/ /\ copy.assigned = {}
       /\ \A s \in copy.start : has_start_address /\ s \in Shortened(start_address)
    \/ /\ SameStart
       /\ \E last \in copy.assigned :
            /\ assigned[last]
            /\ copy.memory[last] \in Shortened(memory[last])
            /\ \A a \in Address \ {last} :
                 IF a < last THEN SameWord(a) ELSE a \notin copy.assigned

\* image_read accepts a file exactly when every line of it says something, and a
\* word's address is on the drum; the copy is then the last line for each address,
\* and the last start, of which only 16 bits count (image.c:31-57).
ReadsWhatTheFileSays ==
  LET Lasts(lines) == {i \in lines : \A j \in lines : j <= i}
      At(a) == {i \in DOMAIN file : file[i].form = "word" /\ file[i].address = a}
      Starts == {i \in DOMAIN file : file[i].form = "start"}
  IN stage = "read" =>
       /\ result = "true" <=>
            \A i \in DOMAIN file :
              /\ file[i].form # "broken"
              /\ file[i].form = "word" => file[i].address \in Address
       /\ result = "true" =>
            /\ copy.start = {file[i].number % START_RANGE : i \in Lasts(Starts)}
            /\ \A a \in Address :
                 /\ {copy.memory[a]} =
                      IF At(a) = {} THEN {0} ELSE {file[i].number : i \in Lasts(At(a))}
                 /\ a \in copy.assigned <=> At(a) # {}
=============================================================================
