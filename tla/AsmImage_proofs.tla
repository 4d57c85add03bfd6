--------------------------- MODULE AsmImage_proofs ---------------------------
(***************************************************************************)
(* Proofs about programs written to a file and read back, for every layout *)
(* of the word, every program, every file that was there before, and every *)
(* place where writing stops or the file is cut.                           *)
(***************************************************************************)
EXTENDS AsmImage, Assembler_proofs

-----------------------------------------------------------------------------
(* The assembler within.                                                   *)

LEMMA ImageStepAssembles == [AsmImageNext]_asmImageVars => [AsmNext]_asmVars
  BY DEF AsmImageNext, asmImageVars, Assembles, BeginsWriting, WritesStart, WritesWord,
         EndsWriting, WriteFails, LosesEnd, BeginsReading, Reads, ReadsEmpty, ReadsStart,
         ReadsBroken, ReadsWord, EndsReading, AsmImageDone

\* What is done with the image leaves it to the assembler what the image is: all
\* that is proved of AsmSpec holds here (asm.c:118-235, image.c).
THEOREM AsmImageImplementsAsm == AsmImageSpec => AsmSpec
  <1>1. AsmImageInit => AsmInit
    BY DEF AsmImageInit
  <1> QED
    BY <1>1, ImageStepAssembles, PTL DEF AsmImageSpec, AsmSpec

-----------------------------------------------------------------------------
(* The inductive invariant, in three parts: types, what has been read, and *)
(* what has been written.                                                  *)

\* A line that image_read does not accept, and one that sets the word at a.
Refused(l) == l.form = "broken" \/ (l.form = "word" /\ l.address \notin Address)

Sets(l, a) == l.form = "word" /\ l.address = a

FileTypeOK ==
  /\ stage \in Stages
  /\ file \in Seq(FileLine)
  /\ addr \in 0 .. LGP30_MEMORY_WORDS
  /\ whole \in BOOLEAN
  /\ read_pos \in 0 .. Len(file)
  /\ copy \in [memory : [Address -> Word], assigned : SUBSET Address,
               start : SUBSET (0 .. START_RANGE - 1)]
  /\ result \in {"none", "true", "false"}

\* The word at a, and the start, are those of the last of the first n lines that
\* gives one.
WordIsLast(n, a) ==
  \/ /\ a \notin copy.assigned
     /\ copy.memory[a] = 0
     /\ \A i \in 1 .. n : ~Sets(file[i], a)
  \/ /\ a \in copy.assigned
     /\ \E i \in 1 .. n :
          /\ Sets(file[i], a)
          /\ copy.memory[a] = file[i].number
          /\ \A j \in i + 1 .. n : ~Sets(file[j], a)

StartIsLast(n) ==
  \/ copy.start = {} /\ \A i \in 1 .. n : file[i].form # "start"
  \/ \E i \in 1 .. n :
       /\ file[i].form = "start"
       /\ copy.start = {file[i].number % START_RANGE}
       /\ \A j \in i + 1 .. n : file[j].form # "start"

CopyOf(n) ==
  /\ \A a \in Address : WordIsLast(n, a)
  /\ StartIsLast(n)
  /\ \A i \in 1 .. n : ~Refused(file[i])

ReadInv ==
  /\ stage \notin {"reading", "read"} => read_pos = 0 /\ copy = EmptyImage
  /\ stage = "reading" => CopyOf(read_pos)
  /\ stage = "read" =>
       \/ result = "true" /\ read_pos = Len(file) /\ CopyOf(read_pos)
       \/ result = "false" /\ read_pos \in DOMAIN file /\ Refused(file[read_pos])

\* The lines f are the start, if there is one, and the words below c, in order.
LinesBelow(f, c) ==
  /\ has_start_address => f # <<>> /\ f[1] = StartLine(start_address)
  /\ \A i \in DOMAIN f :
       \/ i = 1 /\ has_start_address
       \/ /\ f[i].form = "word"
          /\ f[i].address \in Address
          /\ f[i].address < c
          /\ assigned[f[i].address]
          /\ f[i].number = memory[f[i].address]
  /\ \A i, j \in DOMAIN f :
       (i < j /\ f[i].form = "word") => f[i].address < f[j].address
  /\ \A a \in Address : (a < c /\ assigned[a]) => \E i \in DOMAIN f : Sets(f[i], a)

\* The lines f are the start, if there is one, and the words up to last, of which
\* the last may have lost digits.
LinesThrough(f, last) ==
  /\ has_start_address => \E i \in DOMAIN f : f[i].form = "start"
  /\ \A i \in DOMAIN f :
       \/ f[i] = StartLine(start_address) /\ has_start_address
       \/ /\ f[i].form = "word"
          /\ f[i].address \in Address
          /\ f[i].address <= last
          /\ f[i].address # last => f[i].number = memory[f[i].address]
          /\ f[i].address = last => f[i].number \in Shortened(memory[last])
          /\ assigned[f[i].address]
  /\ \A a \in Address : (a <= last /\ assigned[a]) => \E i \in DOMAIN f : Sets(f[i], a)

\* What may be left of the lines when they are cut short.
CutLines(f) ==
  \/ \E i \in DOMAIN f : f[i].form = "broken"
  \/ \A i \in DOMAIN f :
       /\ f[i].form = "start"
       /\ has_start_address
       /\ f[i].number \in Shortened(start_address)
  \/ \E last \in Address : assigned[last] /\ LinesThrough(f, last)

WriteInv ==
  /\ stage \in {"assembling", "starting"} => file = <<>> /\ addr = 0 /\ ~whole
  /\ stage = "writing" => LinesBelow(file, addr) /\ ~whole
  /\ stage \in {"written", "reading", "read"} =>
       \/ whole /\ LinesBelow(file, LGP30_MEMORY_WORDS)
       \/ ~whole /\ CutLines(file)
       \/ ~whole /\ source = <<>>

-----------------------------------------------------------------------------
(* Lines.                                                                  *)

\* A number loses digits, and is never larger for it.
LEMMA ShortenedIsSmaller ==
  ASSUME NEW n \in Nat, NEW s \in Shortened(n)
  PROVE  s \in 0 .. n
  <1>1. CASE s = n
    BY <1>1
  <1>2. ASSUME NEW power \in TenPowers, s = n \div power
        PROVE  s \in 0 .. n
    <2>1. power \in Nat /\ power > 1
      BY DEF TenPowers
    <2> QED
      BY <1>2, <2>1
  <1> QED
    BY <1>1, <1>2 DEF Shortened

LEMMA LinesTyped ==
  /\ \A n \in Nat : StartLine(n) \in FileLine
  /\ \A a \in Nat, w \in Word : WordLine(a, w) \in FileLine
  /\ BrokenLine \in FileLine
  BY DEF StartLine, WordLine, BrokenLine, FileLine

\* What a line of a file has, by its form; and what it is.
LEMMA LineForms ==
  ASSUME NEW l \in FileLine
  PROVE  /\ l.form \in {"start", "broken", "empty", "word"}
         /\ l.form = "start" => l.number \in Nat /\ l = StartLine(l.number)
         /\ l.form = "word" => /\ l.address \in Nat /\ l.number \in Word
                              /\ l = WordLine(l.address, l.number)
  BY DEF FileLine, StartLine, WordLine

LEMMA StartRemnants ==
  ASSUME NEW n \in Nat, NEW rest \in Remnants(StartLine(n))
  PROVE  \/ rest = <<>>
         \/ rest = <<BrokenLine>>
         \/ \E s \in Shortened(n) : rest = <<StartLine(s)>>
  <1>1. StartLine(n).number = n /\ \A s : [StartLine(n) EXCEPT !.number = s] = StartLine(s)
    BY DEF StartLine
  <1> QED
    BY <1>1 DEF Remnants

LEMMA WordRemnants ==
  ASSUME NEW a \in Nat, NEW w \in Word, NEW rest \in Remnants(WordLine(a, w))
  PROVE  \/ rest = <<>>
         \/ rest = <<BrokenLine>>
         \/ \E s \in Shortened(w) : rest = <<WordLine(a, s)>>
  <1>1. WordLine(a, w).number = w /\ \A s : [WordLine(a, w) EXCEPT !.number = s] = WordLine(a, s)
    BY DEF WordLine
  <1> QED
    BY <1>1 DEF Remnants

\* What is left of a line is at most one line.
LEMMA RemnantsTyped ==
  ASSUME NEW l \in FileLine, l.form \in {"start", "word"}, NEW rest \in Remnants(l)
  PROVE  rest \in Seq(FileLine) /\ Len(rest) <= 1
  <1>1. rest = <<>> \/ \E k \in FileLine : rest = <<k>>
    <2>1. CASE l.form = "start"
      <3>1. l.number \in Nat /\ rest \in Remnants(StartLine(l.number))
        BY <2>1, LineForms
      <3>2. \A s \in Shortened(l.number) : StartLine(s) \in FileLine
        BY <3>1, ShortenedIsSmaller, LinesTyped
      <3> QED
        BY <3>1, <3>2, StartRemnants, LinesTyped
    <2>2. CASE l.form = "word"
      <3>1. l.address \in Nat /\ l.number \in Word /\ rest \in Remnants(WordLine(l.address, l.number))
        BY <2>2, LineForms
      <3>2. \A s \in Shortened(l.number) : s \in Word
        BY <3>1, ShortenedIsSmaller, Layout DEF Word
      <3> QED
        BY <3>1, <3>2, WordRemnants, LinesTyped
    <2> QED
      BY <2>1, <2>2
  <1>2. CASE rest = <<>>
    <2>1. rest \in Seq(FileLine) /\ Len(rest) = 0
      BY <1>2, EmptySeq
    <2> QED
      BY <2>1
  <1>3. ASSUME NEW k \in FileLine
        PROVE  <<k>> \in Seq(FileLine) /\ Len(<<k>>) = 1
    OBVIOUS
  <1>4. ASSUME NEW k \in FileLine, rest = <<k>>
        PROVE  rest \in Seq(FileLine) /\ Len(rest) <= 1
    BY <1>3, <1>4
  <1> QED
    BY <1>1, <1>2, <1>4

\* The lines that image_write writes.
LEMMA WrittenLines ==
  ASSUME AsmTypeOK
  PROVE  /\ \A l \in StartLines : /\ has_start_address /\ l = StartLine(start_address)
                                  /\ l \in FileLine /\ l.form = "start"
         /\ \A l \in WordLines : /\ l \in FileLine /\ l.form = "word"
                                 /\ l.address \in Address
                                 /\ StopsAt(l.address)
                                 /\ l = WordLine(l.address, memory[l.address])
  <1>1. start_address \in Nat /\ Address \subseteq Nat /\ \A a \in Address : memory[a] \in Word
    BY Layout DEF AsmTypeOK, Address
  <1>2. StartLine(start_address) \in FileLine /\ StartLine(start_address).form = "start"
    BY <1>1, LinesTyped DEF StartLine
  <1>3. \A a \in Address :
          LET l == WordLine(a, memory[a])
          IN l \in FileLine /\ l.form = "word" /\ l.address = a
    BY <1>1, LinesTyped DEF WordLine
  <1> QED
    BY <1>2, <1>3 DEF StartLines, WordLines

-----------------------------------------------------------------------------
(* Types.                                                                  *)

LEMMA InitFileTypeOK == AsmImageInit => FileTypeOK
  <1> SUFFICES ASSUME AsmImageInit PROVE FileTypeOK
    OBVIOUS
  <1>1. stage \in Stages /\ addr \in 0 .. LGP30_MEMORY_WORDS /\ whole \in BOOLEAN
    <2>1. stage \in Stages /\ whole = FALSE
      BY DEF AsmImageInit, Stages
    <2>2. addr = 0
      BY DEF AsmImageInit
    <2>3. stage \in Stages /\ whole \in BOOLEAN
      BY <2>1, Zenon
    <2>4. addr \in 0 .. LGP30_MEMORY_WORDS
      BY <2>2, Layout
    <2> QED
      BY <2>3, <2>4, Zenon
  <1>2. file \in Seq(FileLine) /\ read_pos \in 0 .. Len(file)
    <2>1. file = <<>> \/ file \in OtherFiles
      BY DEF AsmImageInit
    <2>2. file \in Seq(FileLine)
      BY <2>1, AsmImageAssumption, EmptySeq
    <2>3. Len(file) \in Nat /\ read_pos = 0
      BY <2>2, LenProperties DEF AsmImageInit
    <2> QED
      BY <2>2, <2>3
  <1>3. copy \in [memory : [Address -> Word], assigned : SUBSET Address,
                  start : SUBSET (0 .. START_RANGE - 1)]
    BY Layout DEF AsmImageInit, EmptyImage, Word
  <1>4. result \in {"none", "true", "false"}
    BY DEF AsmImageInit
  <1> QED
    BY <1>1, <1>2, <1>3, <1>4 DEF FileTypeOK

\* The line that image_read takes next.
LEMMA NextLineTyped ==
  ASSUME FileTypeOK, NEW form, Reads(form)
  PROVE  /\ next_line \in FileLine /\ next_line.form = form
         /\ read_pos + 1 \in DOMAIN file
         /\ read_pos' = read_pos + 1 /\ read_pos' \in 0 .. Len(file')
         /\ UNCHANGED <<asmVars, file, addr, whole>>
         /\ stage = "reading"
  <1>1. file \in Seq(FileLine) /\ Len(file) \in Nat /\ DOMAIN file = 1 .. Len(file)
    BY LenProperties DEF FileTypeOK
  <1>2. read_pos \in Nat /\ read_pos < Len(file) /\ read_pos' = read_pos + 1 /\ file' = file
    BY <1>1 DEF FileTypeOK, Reads
  <1>3. read_pos + 1 \in DOMAIN file /\ next_line \in FileLine
    BY <1>1, <1>2, ElementOfSeq DEF next_line
  <1> QED
    BY <1>1, <1>2, <1>3 DEF Reads

-----------------------------------------------------------------------------
(* Writing.                                                                *)

\* A further line: the word at the next address the loop stops at.
LEMMA AppendsWord ==
  ASSUME AsmTypeOK, file \in Seq(FileLine), addr \in 0 .. LGP30_MEMORY_WORDS,
         LinesBelow(file, addr), NEW l \in WordLines
  PROVE  LinesBelow(Append(file, l), l.address + 1)
  <1> DEFINE g == Append(file, l)
             n == Len(file)
             c == l.address
  <1>1. /\ l \in FileLine /\ l.form = "word" /\ c \in Address /\ StopsAt(c)
        /\ l.number = memory[c]
    BY WrittenLines DEF WordLine
  <1>2. n \in Nat /\ DOMAIN file = 1 .. n
    BY LenProperties
  <1>3. /\ g \in Seq(FileLine) /\ DOMAIN g = 1 .. n + 1 /\ g # <<>>
        /\ \A i \in 1 .. n : g[i] = file[i]
        /\ g[n + 1] = l
    BY <1>1, <1>2, AppendProperties, LenProperties
  <1>4. addr \in Nat /\ c \in Nat /\ Address \subseteq Nat /\ addr <= c /\ assigned[c]
    BY <1>1, Layout DEF Address, StopsAt
  <1> HIDE DEF g, n, c
  <1>5. has_start_address => g # <<>> /\ g[1] = StartLine(start_address)
    <2>1. has_start_address => 1 \in 1 .. n /\ file[1] = StartLine(start_address)
      BY <1>2, EmptySeq, LenProperties DEF LinesBelow, n
    <2> QED
      BY <1>3, <2>1
  <1>6. ASSUME NEW i \in DOMAIN g
        PROVE  \/ i = 1 /\ has_start_address
               \/ /\ g[i].form = "word" /\ g[i].address \in Address
                  /\ g[i].address < c + 1
                  /\ assigned[g[i].address] /\ g[i].number = memory[g[i].address]
                  /\ i <= n => g[i].address < c
    <2>1. CASE i \in 1 .. n
      <3>1. \/ i = 1 /\ has_start_address
            \/ /\ file[i].form = "word" /\ file[i].address \in Address
               /\ file[i].address < addr
               /\ assigned[file[i].address] /\ file[i].number = memory[file[i].address]
        BY <1>2, <2>1 DEF LinesBelow
      <3>2. g[i] = file[i]
        BY <1>3, <2>1
      <3>3. \A x \in Address : x < addr => x < c /\ x < c + 1
        BY <1>4
      <3> QED
        BY <3>1, <3>2, <3>3
    <2>2. CASE i = n + 1
      BY <1>1, <1>2, <1>3, <1>4, <2>2 DEF c
    <2> QED
      BY <1>2, <1>3, <2>1, <2>2
  <1>7. ASSUME NEW i \in DOMAIN g, NEW j \in DOMAIN g, i < j, g[i].form = "word"
        PROVE  g[i].address < g[j].address
    <2>1. CASE j \in 1 .. n
      BY <1>2, <1>3, <1>7, <2>1 DEF LinesBelow
    <2>2. CASE j = n + 1
      <3>1. i \in 1 .. n /\ g[i] = file[i] /\ g[j] = l
        BY <1>2, <1>3, <1>7, <2>2
      <3>2. ~(i = 1 /\ has_start_address)
        BY <1>5, <1>7 DEF StartLine
      <3> QED
        BY <1>6, <3>1, <3>2 DEF c
    <2> QED
      BY <1>2, <1>3, <2>1, <2>2
  <1>8. ASSUME NEW a \in Address, a < c + 1, assigned[a]
        PROVE  \E i \in DOMAIN g : Sets(g[i], a)
    <2>1. CASE a < addr
      <3>1. PICK i \in 1 .. n : Sets(file[i], a)
        BY <1>2, <1>8, <2>1 DEF LinesBelow
      <3> QED
        BY <1>2, <1>3, <3>1
    <2>2. CASE addr <= a
      <3>1. a = c
        BY <1>1, <1>4, <1>8, <2>2 DEF StopsAt
      <3>2. Sets(g[n + 1], a) /\ n + 1 \in DOMAIN g
        BY <1>1, <1>2, <1>3, <3>1 DEF Sets, c
      <3> QED
        BY <3>2
    <2> QED
      BY <1>4, <2>1, <2>2
  <1> QED
    BY <1>5, <1>6, <1>7, <1>8 DEF LinesBelow, g, c

\* Lines that stop with a word, whole or shortened.
LEMMA StopsWithWord ==
  ASSUME AsmTypeOK, NEW f \in Seq(FileLine), NEW c \in 0 .. LGP30_MEMORY_WORDS,
         LinesBelow(f, c), NEW k \in DOMAIN f, f[k].form = "word",
         NEW g, DOMAIN g = 1 .. k, \A i \in 1 .. k - 1 : g[i] = f[i],
         NEW s \in Shortened(f[k].number), g[k] = WordLine(f[k].address, s)
  PROVE  CutLines(g)
  <1> DEFINE last == f[k].address
  <1>1. DOMAIN f = 1 .. Len(f) /\ Len(f) \in Nat /\ k \in Nat /\ k >= 1
    BY LenProperties
  <1>2. \A i \in DOMAIN f :
          \/ i = 1 /\ has_start_address /\ f[i] = StartLine(start_address)
          \/ /\ f[i].form = "word" /\ f[i].address \in Address /\ f[i].address < c
             /\ assigned[f[i].address] /\ f[i].number = memory[f[i].address]
    BY DEF LinesBelow
  <1>3. ~(k = 1 /\ has_start_address)
    BY DEF LinesBelow, StartLine
  <1>4. /\ last \in Address /\ assigned[last] /\ f[k].number = memory[last] /\ last < c
        /\ Address \subseteq Nat /\ c \in Nat
    BY <1>2, <1>3, Layout DEF Address
  <1>5. g[k].form = "word" /\ g[k].address = last /\ g[k].number \in Shortened(memory[last])
    BY <1>4 DEF WordLine
  <1> HIDE DEF last
  <1>6. \A i, j \in DOMAIN f : (i < j /\ f[i].form = "word") => f[i].address < f[j].address
    BY DEF LinesBelow
  <1>7. has_start_address => \E i \in DOMAIN g : g[i].form = "start"
    <2>1. has_start_address => 1 \in DOMAIN g /\ g[1] = StartLine(start_address)
      BY <1>1, <1>2, <1>3 DEF LinesBelow
    <2> QED
      BY <2>1 DEF StartLine
  <1>8. ASSUME NEW i \in DOMAIN g
        PROVE  \/ g[i] = StartLine(start_address) /\ has_start_address
               \/ /\ g[i].form = "word"
                  /\ g[i].address \in Address
                  /\ g[i].address <= last
                  /\ g[i].address # last => g[i].number = memory[g[i].address]
                  /\ g[i].address = last => g[i].number \in Shortened(memory[last])
                  /\ assigned[g[i].address]
    <2>1. CASE i = k
      BY <1>4, <1>5, <2>1
    <2>2. CASE i # k
      <3>1. i \in DOMAIN f /\ i < k /\ g[i] = f[i]
        BY <1>1, <2>2
      <3>2. CASE f[i].form = "word"
        <4>1. /\ f[i].address \in Address /\ assigned[f[i].address]
              /\ f[i].number = memory[f[i].address]
          BY <1>2, <3>1, <3>2 DEF StartLine
        <4>2. f[i].address < last
          BY <1>6, <3>1, <3>2 DEF last
        <4>3. f[i].address <= last /\ f[i].address # last
          BY <1>4, <4>1, <4>2
        <4> QED
          BY <3>1, <3>2, <4>1, <4>3
      <3>3. CASE f[i].form # "word"
        BY <1>2, <3>1, <3>3
      <3> QED
        BY <3>2, <3>3
    <2> QED
      BY <2>1, <2>2
  <1>9. ASSUME NEW a \in Address, a <= last, assigned[a]
        PROVE  \E i \in DOMAIN g : Sets(g[i], a)
    <2>1. CASE a = last
      BY <1>1, <1>5, <2>1 DEF Sets
    <2>2. CASE a < last
      <3>1. PICK i \in DOMAIN f : Sets(f[i], a)
        <4>1. a < c
          BY <1>4, <2>2
        <4> QED
          BY <1>9, <4>1 DEF LinesBelow
      <3>2. i < k
        <4>1. i # k
          BY <1>4, <2>2, <3>1 DEF Sets, last
        <4>2. ~(k < i)
          <5>1. k < i => last < a
            BY <1>6, <3>1 DEF Sets, last
          <5> QED
            BY <1>4, <2>2, <5>1
        <4> QED
          BY <1>1, <4>1, <4>2
      <3> QED
        BY <1>1, <3>1, <3>2
    <2> QED
      BY <1>4, <1>9, <2>1, <2>2
  <1>10. LinesThrough(g, last)
    BY <1>7, <1>8, <1>9 DEF LinesThrough
  <1> QED
    BY <1>4, <1>10 DEF CutLines

\* Whatever is left of lines that were written is an image cut short.
LEMMA CutShort ==
  ASSUME AsmTypeOK, NEW f \in Seq(FileLine), NEW c \in 0 .. LGP30_MEMORY_WORDS,
         LinesBelow(f, c), NEW n \in DOMAIN f, NEW rest \in Remnants(f[n])
  PROVE  CutLines(SubSeq(f, 1, n - 1) \o rest)
  <1> DEFINE g == SubSeq(f, 1, n - 1) \o rest
             m == n - 1
  <1>1. DOMAIN f = 1 .. Len(f) /\ Len(f) \in Nat /\ n \in 1 .. Len(f) /\ f[n] \in FileLine
    BY LenProperties, ElementOfSeq
  <1>2. \A i \in DOMAIN f :
          \/ i = 1 /\ has_start_address /\ f[i] = StartLine(start_address)
          \/ f[i].form = "word"
    BY DEF LinesBelow
  <1>3. f[n].form \in {"start", "word"}
    BY <1>2 DEF StartLine
  <1>4. /\ SubSeq(f, 1, m) \in Seq(FileLine) /\ Len(SubSeq(f, 1, m)) = m
        /\ \A i \in 1 .. m : SubSeq(f, 1, m)[i] = f[i]
    <2>1. \A i \in 1 .. m : f[i] \in FileLine
      BY <1>1, ElementOfSeq
    <2>2. m \in Int /\ m >= 0
      BY <1>1
    <2> QED
      BY <2>1, <2>2, SubSeqProperties
  <1>5. rest \in Seq(FileLine) /\ Len(rest) \in Nat
    BY <1>1, <1>3, RemnantsTyped, LenProperties
  <1>6. /\ g \in Seq(FileLine) /\ DOMAIN g = 1 .. m + Len(rest)
        /\ \A i \in 1 .. m : g[i] = f[i]
        /\ \A i \in 1 .. Len(rest) : g[m + i] = rest[i]
    <2>1. m \in Nat
      BY <1>1
    <2>2. /\ g \in Seq(FileLine) /\ Len(g) = m + Len(rest)
          /\ \A i \in 1 .. m + Len(rest) :
               g[i] = IF i <= m THEN SubSeq(f, 1, m)[i] ELSE rest[i - m]
      BY <1>4, <1>5, ConcatProperties
    <2>3. DOMAIN g = 1 .. m + Len(rest)
      BY <2>2, LenProperties
    <2> HIDE DEF g, m
    <2>4. \A i \in 1 .. m : i \in 1 .. m + Len(rest) /\ i <= m
      BY <1>5, <2>1
    <2>5. \A i \in 1 .. Len(rest) :
            m + i \in 1 .. m + Len(rest) /\ ~(m + i <= m) /\ (m + i) - m = i
      BY <1>5, <2>1
    <2> QED
      BY <1>4, <2>2, <2>3, <2>4, <2>5
  <1>7. m \in Nat /\ n = m + 1
    BY <1>1
  <1> HIDE DEF g, m
  <1>8. CASE rest = <<BrokenLine>>
    <2>1. Len(rest) = 1 /\ rest[1] = BrokenLine
      BY <1>8
    <2>2. g[m + 1].form = "broken" /\ m + 1 \in DOMAIN g
      BY <1>6, <1>7, <2>1 DEF BrokenLine
    <2> QED
      BY <2>2 DEF CutLines, g
  <1>9. CASE rest = <<>>
    <2>1. DOMAIN g = 1 .. m
      <3>1. Len(rest) = 0
        BY <1>9, EmptySeq
      <3> QED
        BY <1>6, <1>7, <3>1
    <2>2. CASE m = 0 \/ f[m].form # "word"
      <3>1. \A i \in DOMAIN g : i = 1 /\ has_start_address /\ g[i] = StartLine(start_address)
        BY <1>1, <1>2, <1>6, <1>7, <2>1, <2>2
      <3> QED
        BY <3>1 DEF CutLines, StartLine, Shortened, g
    <2>3. CASE m # 0 /\ f[m].form = "word"
      <3>1. m \in DOMAIN f /\ m \in 1 .. Len(f) /\ f[m] \in FileLine
        BY <1>1, <1>7, <2>3, ElementOfSeq
      <3>2. g[m] = WordLine(f[m].address, f[m].number) /\ f[m].number \in Shortened(f[m].number)
        BY <1>6, <1>7, <2>3, <3>1, LineForms DEF Shortened
      <3>3. \A i \in 1 .. m - 1 : g[i] = f[i]
        BY <1>6, <1>7
      <3>4. CutLines(g)
        BY <2>1, <2>3, <3>1, <3>2, <3>3, StopsWithWord
      <3> QED
        BY <3>4 DEF g
    <2> QED
      BY <2>2, <2>3
  <1>10. CASE \E l : rest = <<l>> /\ l # BrokenLine
    <2>1. PICK l : rest = <<l>> /\ l # BrokenLine
      BY <1>10
    <2>2. Len(rest) = 1 /\ rest[1] = l /\ <<l>> # <<>> /\ <<l>> # <<BrokenLine>>
      BY <2>1
    <2>3. DOMAIN g = 1 .. n /\ g[n] = l /\ \A i \in 1 .. n - 1 : g[i] = f[i]
      BY <1>6, <1>7, <2>2
    <2>4. CASE f[n].form = "start"
      <3>1. n = 1 /\ has_start_address /\ f[n] = StartLine(start_address)
        BY <1>2, <2>4
      <3>2. \E s \in Shortened(start_address) : l = StartLine(s)
        <4>1. start_address \in Nat
          BY Layout DEF AsmTypeOK, Address
        <4>2. PICK s \in Shortened(start_address) : rest = <<StartLine(s)>>
          BY <2>1, <2>2, <3>1, <4>1, StartRemnants
        <4>3. <<StartLine(s)>>[1] = StartLine(s)
          OBVIOUS
        <4> QED
          BY <2>2, <4>2, <4>3
      <3> QED
        BY <2>3, <3>1, <3>2 DEF CutLines, StartLine, g
    <2>5. CASE f[n].form = "word"
      <3>1. PICK s \in Shortened(f[n].number) : l = WordLine(f[n].address, s)
        <4>1. PICK s \in Shortened(f[n].number) : rest = <<WordLine(f[n].address, s)>>
          BY <1>1, <2>1, <2>2, <2>5, LineForms, WordRemnants
        <4>2. <<WordLine(f[n].address, s)>>[1] = WordLine(f[n].address, s)
          OBVIOUS
        <4> QED
          BY <2>2, <4>1, <4>2
      <3>2. CutLines(g)
        BY <2>3, <2>5, <3>1, StopsWithWord
      <3> QED
        BY <3>2 DEF g
    <2> QED
      BY <1>3, <2>4, <2>5
  <1>11. rest = <<>> \/ rest = <<BrokenLine>> \/ \E l : rest = <<l>> /\ l # BrokenLine
    BY DEF Remnants
  <1> QED
    BY <1>8, <1>9, <1>10, <1>11

\* The image that was written stays what it is.
LEMMA SameImage ==
  ASSUME UNCHANGED asmVars
  PROVE  /\ LinesBelow(file', addr') => LinesBelow(file, addr)'
         /\ LinesBelow(file', LGP30_MEMORY_WORDS) => LinesBelow(file, LGP30_MEMORY_WORDS)'
         /\ CutLines(file') => CutLines(file)'
  BY DEF asmVars, imageVars, LinesBelow, CutLines, LinesThrough

\* The loop of image_write ends when no word is left.
LEMMA LoopEnds ==
  ASSUME AsmTypeOK, FileTypeOK, WordLines = {}, NEW a \in Address, assigned[a]
  PROVE  a < addr
  <1> DEFINE Left == {b \in Address : addr <= b /\ assigned[b]}
  <1>1. addr \in Nat /\ Address \subseteq Nat
    BY Layout DEF FileTypeOK, Address
  <1>2. SUFFICES ASSUME a \in Left PROVE FALSE
    BY <1>1
  <1>3. PICK b \in Left : \A m \in Left : b <= m
    <2>1. Left \in SUBSET Nat /\ Left # {}
      BY <1>1, <1>2
    <2> HIDE DEF Left
    <2> QED
      BY <2>1, LeastNumber
  <1>4. StopsAt(b)
    BY <1>1, <1>3 DEF StopsAt
  <1> QED
    BY <1>3, <1>4 DEF WordLines

\* A step of image_write, or of what happens to the file after it.
LEMMA WritingPreserves ==
  ASSUME AsmTypeOK, FileTypeOK, ReadInv, WriteInv,
         BeginsWriting \/ WritesStart \/ WritesWord \/ EndsWriting \/ WriteFails \/ LosesEnd
  PROVE  FileTypeOK' /\ ReadInv' /\ WriteInv'
  <1>1. /\ file \in Seq(FileLine) /\ addr \in 0 .. LGP30_MEMORY_WORDS
        /\ Len(file) \in Nat /\ DOMAIN file = 1 .. Len(file)
        /\ LGP30_MEMORY_WORDS \in Nat
    BY LenProperties, Layout DEF FileTypeOK
  <1>2. UNCHANGED <<asmVars, read_pos, copy, result>>
    BY DEF BeginsWriting, WritesStart, WritesWord, EndsWriting, WriteFails, LosesEnd
  <1>3. /\ stage \notin {"reading", "read"}
        /\ stage' \in {"starting", "writing", "written"}
    BY DEF BeginsWriting, WritesStart, WritesWord, EndsWriting, WriteFails, LosesEnd
  <1>4. read_pos = 0 /\ copy = EmptyImage
    BY <1>3 DEF ReadInv
  <1>5. ReadInv'
    BY <1>2, <1>3, <1>4 DEF ReadInv, EmptyImage
  <1>6. ASSUME file' \in Seq(FileLine), addr' \in 0 .. LGP30_MEMORY_WORDS, whole' \in BOOLEAN
        PROVE  FileTypeOK'
    <2>1. stage' \in Stages
      BY <1>3 DEF Stages
    <2>2. Len(file') \in Nat
      BY <1>6, LenProperties
    <2>3. read_pos' \in 0 .. Len(file')
      BY <1>2, <1>4, <2>2
    <2>4. (copy \in [memory : [Address -> Word], assigned : SUBSET Address,
                     start : SUBSET (0 .. START_RANGE - 1)])'
          /\ result' \in {"none", "true", "false"}
      BY <1>2 DEF FileTypeOK
    <2> QED
      BY <1>6, <2>1, <2>3, <2>4, Zenon DEF FileTypeOK
  <1>7. CASE BeginsWriting
    <2>1. stage = "assembling" /\ UNCHANGED <<file, addr, whole>> /\ stage' = "starting"
      BY <1>7 DEF BeginsWriting
    <2>2. FileTypeOK'
      BY <1>1, <1>6, <2>1 DEF FileTypeOK
    <2> QED
      BY <1>5, <2>1, <2>2 DEF WriteInv
  <1>8. CASE WritesStart
    <2>1. /\ file = <<>> /\ addr = 0 /\ ~whole /\ stage' = "writing" /\ UNCHANGED <<addr, whole>>
      BY <1>8 DEF WritesStart, WriteInv
    <2>2. \/ \E l \in StartLines : file' = Append(file, l)
          \/ StartLines = {} /\ file' = file
      BY <1>8 DEF WritesStart
    <2>3. file' \in Seq(FileLine) /\ LinesBelow(file', addr')
      <3>1. \A a \in Address : ~(a < addr')
        BY <2>1 DEF Address
      <3>2. CASE StartLines = {} /\ file' = file
        <4>1. ~has_start_address
          BY <3>2 DEF StartLines
        <4>2. DOMAIN file' = {}
          BY <1>1, <2>1, <3>2, EmptySeq
        <4> QED
          BY <1>1, <3>1, <3>2, <4>1, <4>2 DEF LinesBelow
      <3>3. CASE \E l \in StartLines : file' = Append(file, l)
        <4>1. /\ has_start_address /\ StartLine(start_address) \in FileLine
              /\ file' = Append(<<>>, StartLine(start_address))
          BY <2>1, <3>3, WrittenLines
        <4>2. /\ file' \in Seq(FileLine) /\ file' # <<>> /\ Len(file') = 1
              /\ file'[1] = StartLine(start_address)
          <5>1. <<>> \in Seq(FileLine) /\ Len(<<>>) = 0
            BY EmptySeq
          <5> QED
            BY <4>1, <5>1, AppendProperties
        <4>3. DOMAIN file' = 1 .. 1
          BY <4>2, LenProperties
        <4> QED
          BY <3>1, <4>1, <4>2, <4>3 DEF LinesBelow
      <3> QED
        BY <2>2, <3>2, <3>3
    <2>4. LinesBelow(file, addr)'
      BY <1>2, <2>3, SameImage
    <2>5. whole' \in BOOLEAN
      BY <2>1 DEF FileTypeOK
    <2>6. FileTypeOK'
      BY <1>1, <1>6, <2>1, <2>3, <2>5
    <2> QED
      BY <1>5, <2>1, <2>4, <2>6 DEF WriteInv
  <1>9. CASE WritesWord
    <2>1. stage = "writing" /\ stage' = "writing" /\ UNCHANGED whole
      BY <1>9 DEF WritesWord
    <2>2. PICK l \in WordLines : file' = Append(file, l) /\ addr' = l.address + 1
      BY <1>9 DEF WritesWord
    <2>3. l \in FileLine /\ l.address \in Address
      BY WrittenLines
    <2>4. file' \in Seq(FileLine) /\ addr' \in 0 .. LGP30_MEMORY_WORDS
      BY <1>1, <2>2, <2>3, AppendProperties DEF Address
    <2>5. LinesBelow(file, addr) /\ ~whole
      BY <2>1 DEF WriteInv
    <2>6. LinesBelow(file', addr')
      BY <1>1, <2>2, <2>5, AppendsWord
    <2>7. LinesBelow(file, addr)'
      BY <1>2, <2>6, SameImage
    <2>8. whole' \in BOOLEAN
      BY <2>1 DEF FileTypeOK
    <2>9. FileTypeOK'
      BY <1>6, <2>4, <2>8
    <2> QED
      BY <1>5, <2>1, <2>5, <2>7, <2>9 DEF WriteInv
  <1>10. CASE EndsWriting
    <2>1. /\ stage = "writing" /\ stage' = "written" /\ whole' = TRUE
          /\ WordLines = {} /\ addr' = LGP30_MEMORY_WORDS /\ file' = file
      BY <1>10 DEF EndsWriting
    <2>2. LinesBelow(file, addr)
      BY <2>1 DEF WriteInv
    <2>3. \A a \in Address : assigned[a] => a < addr
      BY <2>1, LoopEnds
    <2>4. \A a \in Address : a < LGP30_MEMORY_WORDS
      BY <1>1 DEF Address
    <2>5. LinesBelow(file', LGP30_MEMORY_WORDS)
      BY <2>1, <2>2, <2>3, <2>4 DEF LinesBelow
    <2>6. LinesBelow(file, LGP30_MEMORY_WORDS)'
      BY <1>2, <2>5, SameImage
    <2>7. FileTypeOK'
      BY <1>1, <1>6, <2>1
    <2> QED
      BY <1>5, <2>1, <2>6, <2>7 DEF WriteInv
  <1>11. CASE WriteFails
    <2>1. /\ stage \in {"starting", "writing"} /\ stage' = "written" /\ UNCHANGED <<addr, whole>>
          /\ ~whole
      BY <1>11 DEF WriteFails, WriteInv
    <2>2. PICK l : /\ \E rest \in Remnants(l) : file' = file \o rest
                   /\ \/ stage = "starting" /\ l \in StartLines
                      \/ stage = "writing" /\ l \in WordLines
      BY <1>11 DEF WriteFails
    <2>3. PICK rest \in Remnants(l) : file' = file \o rest
      BY <2>2
    <2>4. l \in FileLine /\ l.form \in {"start", "word"}
      BY <2>2, WrittenLines
    <2> DEFINE g == Append(file, l)
    <2>5. /\ g \in Seq(FileLine) /\ g # <<>> /\ Len(g) = Len(file) + 1 /\ g[Len(file) + 1] = l
          /\ \A i \in 1 .. Len(file) : g[i] = file[i]
      BY <1>1, <2>4, AppendProperties
    <2>6. \E c \in 0 .. LGP30_MEMORY_WORDS : LinesBelow(g, c)
      <3>1. CASE stage = "starting"
        <4>1. file = <<>> /\ has_start_address /\ l = StartLine(start_address)
          BY <2>2, <3>1, WrittenLines DEF WriteInv
        <4>2. DOMAIN g = 1 .. 1 /\ g[1] = StartLine(start_address) /\ g # <<>>
          <5>1. Len(file) = 0
            BY <4>1, EmptySeq
          <5> HIDE DEF g
          <5>2. Len(g) = 1 /\ g[1] = StartLine(start_address)
            BY <2>5, <4>1, <5>1
          <5>3. DOMAIN g = 1 .. Len(g)
            BY <2>5, LenProperties
          <5> QED
            BY <2>5, <5>2, <5>3
        <4>3. \A a \in Address : ~(a < 0)
          BY DEF Address
        <4>4. LinesBelow(g, 0)
          BY <4>1, <4>2, <4>3 DEF LinesBelow
        <4> QED
          BY <1>1, <4>4
      <3>2. CASE stage = "writing"
        <4>1. LinesBelow(file, addr) /\ l \in WordLines /\ l.address \in Address
          BY <2>2, <3>2, WrittenLines DEF WriteInv
        <4>2. LinesBelow(g, l.address + 1)
          BY <1>1, <4>1, AppendsWord
        <4>3. l.address + 1 \in 0 .. LGP30_MEMORY_WORDS
          BY <1>1, <4>1 DEF Address
        <4> QED
          BY <4>2, <4>3
      <3> QED
        BY <2>1, <3>1, <3>2
    <2>7. SubSeq(g, 1, Len(file)) = file
      <3> HIDE DEF g
      <3>1. \A i \in 1 .. Len(file) : g[i] \in FileLine
        BY <1>1, <2>5, ElementOfSeq
      <3>2. /\ SubSeq(g, 1, Len(file)) \in Seq(FileLine)
            /\ Len(SubSeq(g, 1, Len(file))) = Len(file)
            /\ \A i \in 1 .. Len(file) : SubSeq(g, 1, Len(file))[i] = g[i]
        BY <1>1, <3>1, SubSeqProperties
      <3> QED
        BY <1>1, <2>5, <3>2, SeqEqual
    <2>8. CutLines(file')
      <3> HIDE DEF g
      <3>1. Len(file) + 1 \in DOMAIN g /\ (Len(file) + 1) - 1 = Len(file)
        BY <1>1, <2>5, LenProperties
      <3>2. CutLines(SubSeq(g, 1, (Len(file) + 1) - 1) \o rest)
        BY <2>3, <2>5, <2>6, <3>1, CutShort
      <3> QED
        BY <2>3, <2>7, <3>1, <3>2
    <2>9. file' \in Seq(FileLine)
      BY <1>1, <2>3, <2>4, RemnantsTyped, ConcatProperties
    <2>10. CutLines(file)'
      BY <1>2, <2>8, SameImage
    <2>11. whole' \in BOOLEAN
      BY <2>1 DEF FileTypeOK
    <2>12. FileTypeOK'
      BY <1>1, <1>6, <2>1, <2>9, <2>11
    <2> QED
      BY <1>5, <2>1, <2>10, <2>12 DEF WriteInv
  <1>12. CASE LosesEnd
    <2>1. /\ stage = "written" /\ stage' = "written" /\ whole /\ ~whole' /\ whole' \in BOOLEAN
          /\ UNCHANGED addr
      BY <1>12 DEF LosesEnd
    <2>2. LinesBelow(file, LGP30_MEMORY_WORDS)
      BY <2>1 DEF WriteInv
    <2>3. PICK n \in DOMAIN file :
            \E rest \in Remnants(file[n]) : file' = SubSeq(file, 1, n - 1) \o rest
      BY <1>12 DEF LosesEnd
    <2>4. PICK rest \in Remnants(file[n]) : file' = SubSeq(file, 1, n - 1) \o rest
      BY <2>3
    <2>5. LGP30_MEMORY_WORDS \in 0 .. LGP30_MEMORY_WORDS
      BY <1>1
    <2>6. CutLines(file')
      BY <1>1, <2>2, <2>4, <2>5, CutShort
    <2>7. file' \in Seq(FileLine)
      <3>1. file[n] \in FileLine /\ file[n].form \in {"start", "word"}
        BY <1>1, <2>2, ElementOfSeq DEF LinesBelow, StartLine
      <3>2. \A i \in 1 .. n - 1 : file[i] \in FileLine
        BY <1>1, ElementOfSeq
      <3>3. SubSeq(file, 1, n - 1) \in Seq(FileLine)
        BY <1>1, <3>2, SubSeqProperties
      <3> QED
        BY <2>4, <3>1, <3>3, RemnantsTyped, ConcatProperties
    <2>8. CutLines(file)'
      BY <1>2, <2>6, SameImage
    <2>9. FileTypeOK'
      BY <1>1, <1>6, <2>1, <2>7
    <2> QED
      BY <1>5, <2>1, <2>8, <2>9 DEF WriteInv
  <1> QED
    BY <1>7, <1>8, <1>9, <1>10, <1>11, <1>12

-----------------------------------------------------------------------------
(* Reading.                                                                *)

\* A line that says nothing of the word at a.
LEMMA KeepsWord ==
  ASSUME NEW CONSTANT k \in Nat, NEW CONSTANT a, WordIsLast(k, a), ~Sets(file[k + 1], a),
         UNCHANGED file, copy'.memory[a] = copy.memory[a],
         a \in copy'.assigned <=> a \in copy.assigned
  PROVE  WordIsLast(k + 1, a)'
  <1>1. \A i \in 1 .. k + 1 : i = k + 1 \/ i \in 1 .. k
    OBVIOUS
  <1>2. \A i \in 1 .. k : i \in 1 .. k + 1 /\ \A j \in i + 1 .. k + 1 : j = k + 1 \/ j \in i + 1 .. k
    OBVIOUS
  <1>3. CASE a \notin copy.assigned
    BY <1>1, <1>3 DEF WordIsLast, Sets
  <1>4. CASE a \in copy.assigned
    <2>1. PICK i \in 1 .. k : /\ Sets(file[i], a) /\ copy.memory[a] = file[i].number
                             /\ \A j \in i + 1 .. k : ~Sets(file[j], a)
      BY <1>4 DEF WordIsLast
    <2>2. \A j \in i + 1 .. k + 1 : ~Sets(file[j], a)
      BY <1>2, <2>1
    <2>3. i \in 1 .. k + 1
      BY <1>2
    <2> QED
      BY <1>4, <2>1, <2>2, <2>3 DEF WordIsLast, Sets
  <1> QED
    BY <1>3, <1>4

\* A line that says nothing of the start.
LEMMA KeepsStart ==
  ASSUME NEW CONSTANT k \in Nat, StartIsLast(k), file[k + 1].form # "start",
         UNCHANGED file, copy'.start = copy.start
  PROVE  StartIsLast(k + 1)'
  <1>1. \A i \in 1 .. k + 1 : i = k + 1 \/ i \in 1 .. k
    OBVIOUS
  <1>2. \A i \in 1 .. k : i \in 1 .. k + 1 /\ \A j \in i + 1 .. k + 1 : j = k + 1 \/ j \in i + 1 .. k
    OBVIOUS
  <1>3. CASE copy.start = {} /\ \A i \in 1 .. k : file[i].form # "start"
    BY <1>1, <1>3 DEF StartIsLast
  <1>4. CASE \E i \in 1 .. k : /\ file[i].form = "start"
                             /\ copy.start = {file[i].number % START_RANGE}
                             /\ \A j \in i + 1 .. k : file[j].form # "start"
    <2>1. PICK i \in 1 .. k : /\ file[i].form = "start"
                             /\ copy.start = {file[i].number % START_RANGE}
                             /\ \A j \in i + 1 .. k : file[j].form # "start"
      BY <1>4
    <2>2. \A j \in i + 1 .. k + 1 : file[j].form # "start"
      BY <1>2, <2>1
    <2>3. i \in 1 .. k + 1
      BY <1>2
    <2> QED
      BY <2>1, <2>2, <2>3 DEF StartIsLast
  <1> QED
    BY <1>3, <1>4 DEF StartIsLast

\* The copy after one more line.
LEMMA ReadsFurther ==
  ASSUME FileTypeOK, CopyOf(read_pos), ReadsEmpty \/ ReadsStart \/ ReadsWord, stage' = "reading"
  PROVE  CopyOf(read_pos)' /\ (copy \in [memory : [Address -> Word], assigned : SUBSET Address,
                                        start : SUBSET (0 .. START_RANGE - 1)])'
  <1> DEFINE l == next_line
  <1>1. /\ stage = "reading" /\ UNCHANGED file /\ read_pos' = read_pos + 1
        /\ l = file[read_pos + 1] /\ l \in FileLine
        /\ ReadsEmpty => l.form = "empty"
        /\ ReadsStart => l.form = "start"
        /\ ReadsWord => l.form = "word"
    BY NextLineTyped DEF ReadsEmpty, ReadsStart, ReadsWord, next_line
  <1>2. PICK k \in Nat : k = read_pos
    <2>1. Len(file) \in Nat
      BY LenProperties DEF FileTypeOK
    <2> QED
      BY <2>1 DEF FileTypeOK
  <1>3. CopyOf(k) /\ l = file[k + 1]
    BY <1>1, <1>2
  <1>4. copy \in [memory : [Address -> Word], assigned : SUBSET Address,
                  start : SUBSET (0 .. START_RANGE - 1)]
    BY DEF FileTypeOK
  <1>5. \A i \in 1 .. k + 1 : i = k + 1 \/ i \in 1 .. k
    OBVIOUS
  <1> HIDE DEF l
  <1>6. SUFFICES /\ \A a \in Address : WordIsLast(k + 1, a)'
                 /\ StartIsLast(k + 1)'
                 /\ ~Refused(l)
                 /\ (copy \in [memory : [Address -> Word], assigned : SUBSET Address,
                               start : SUBSET (0 .. START_RANGE - 1)])'
    <2>1. ASSUME ~Refused(l) PROVE (\A i \in 1 .. k + 1 : ~Refused(file[i]))'
      BY <1>1, <1>3, <1>5, <2>1 DEF CopyOf, Refused
    <2>2. ASSUME \A a \in Address : WordIsLast(k + 1, a)', StartIsLast(k + 1)', ~Refused(l)
          PROVE  CopyOf(k + 1)'
      BY <2>1, <2>2 DEF CopyOf
    <2>3. read_pos' = k + 1
      BY <1>1, <1>2
    <2>4. CopyOf(k + 1)' => CopyOf(read_pos)'
      BY <2>3 DEF CopyOf, WordIsLast, StartIsLast
    <2> QED
      BY <2>2, <2>4
  <1>7. CASE ReadsEmpty
    <2>1. l.form = "empty" /\ UNCHANGED copy
      BY <1>1, <1>7 DEF ReadsEmpty
    <2>2. \A a \in Address : WordIsLast(k + 1, a)'
      BY <1>1, <1>3, <2>1, KeepsWord DEF CopyOf, Sets
    <2>3. StartIsLast(k + 1)'
      BY <1>1, <1>3, <2>1, KeepsStart DEF CopyOf
    <2> QED
      BY <1>4, <2>1, <2>2, <2>3 DEF Refused
  <1>8. CASE ReadsStart
    <2>1. /\ l.form = "start" /\ l.number \in Nat
          /\ copy' = [copy EXCEPT !.start = {l.number % START_RANGE}]
      BY <1>1, <1>8, LineForms DEF ReadsStart, l
    <2>2. /\ copy'.start = {l.number % START_RANGE}
          /\ copy'.memory = copy.memory /\ copy'.assigned = copy.assigned
      BY <1>4, <2>1
    <2>3. \A a \in Address : WordIsLast(k + 1, a)'
      BY <1>1, <1>3, <2>1, <2>2, KeepsWord DEF CopyOf, Sets
    <2>4. StartIsLast(k + 1)'
      <3>1. k + 1 \in 1 .. k + 1 /\ \A j \in (k + 1) + 1 .. k + 1 : FALSE
        OBVIOUS
      <3> QED
        BY <1>1, <1>3, <2>1, <2>2, <3>1 DEF StartIsLast
    <2>5. l.number % START_RANGE \in 0 .. START_RANGE - 1
      BY <2>1, AsmImageAssumption
    <2>6. (copy \in [memory : [Address -> Word], assigned : SUBSET Address,
                     start : SUBSET (0 .. START_RANGE - 1)])'
      BY <1>4, <2>1, <2>5
    <2> QED
      BY <2>1, <2>3, <2>4, <2>6 DEF Refused
  <1>9. CASE ReadsWord
    <2> DEFINE b == l.address
    <2>1. /\ l.form = "word" /\ b \in Address /\ l.number \in Word
          /\ copy' = [copy EXCEPT !.memory[b] = l.number, !.assigned = @ \cup {b}]
      <3>1. l.form = "word" /\ b \in Nat /\ l.number \in Word
        BY <1>1, <1>9, LineForms
      <3>2. stage' # "read"
        OBVIOUS
      <3>3. /\ b < LGP30_MEMORY_WORDS
            /\ copy' = [copy EXCEPT !.memory[b] = l.number, !.assigned = @ \cup {b}]
        BY <1>9, <3>2 DEF ReadsWord, Returns, l
      <3> QED
        BY <3>1, <3>3, Layout DEF Address
    <2>2. /\ copy'.start = copy.start
          /\ copy'.memory = [copy.memory EXCEPT ![b] = l.number]
          /\ copy'.assigned = copy.assigned \cup {b}
      BY <1>4, <2>1
    <2> HIDE DEF b
    <2>3. ASSUME NEW a \in Address PROVE WordIsLast(k + 1, a)'
      <3>1. CASE a = b
        <4>1. k + 1 \in 1 .. k + 1 /\ \A j \in (k + 1) + 1 .. k + 1 : FALSE
          OBVIOUS
        <4>2. a \in copy'.assigned /\ copy'.memory[a] = l.number
          BY <1>4, <2>1, <2>2, <3>1
        <4>3. Sets(l, a)
          BY <2>1, <3>1 DEF Sets, b
        <4> QED
          BY <1>1, <1>3, <4>1, <4>2, <4>3 DEF WordIsLast, Sets
      <3>2. CASE a # b
        <4>1. ~Sets(l, a)
          BY <3>2 DEF Sets, b
        <4>2. copy'.memory[a] = copy.memory[a] /\ (a \in copy'.assigned <=> a \in copy.assigned)
          BY <1>4, <2>2, <3>2
        <4> QED
          BY <1>1, <1>3, <4>1, <4>2, KeepsWord DEF CopyOf
      <3> QED
        BY <3>1, <3>2
    <2>4. StartIsLast(k + 1)'
      BY <1>1, <1>3, <2>1, <2>2, KeepsStart DEF CopyOf
    <2>5. (copy \in [memory : [Address -> Word], assigned : SUBSET Address,
                     start : SUBSET (0 .. START_RANGE - 1)])'
      BY <1>4, <2>1
    <2>6. ~Refused(l)
      BY <2>1 DEF Refused, b
    <2> QED
      BY <2>3, <2>4, <2>5, <2>6
  <1> QED
    BY <1>7, <1>8, <1>9

\* A step of image_read.
LEMMA ReadingPreserves ==
  ASSUME AsmTypeOK, FileTypeOK, ReadInv, WriteInv,
         BeginsReading \/ ReadsEmpty \/ ReadsStart \/ ReadsBroken \/ ReadsWord \/ EndsReading
  PROVE  FileTypeOK' /\ ReadInv' /\ WriteInv'
  <1> DEFINE CopyTyped == copy \in [memory : [Address -> Word], assigned : SUBSET Address,
                                   start : SUBSET (0 .. START_RANGE - 1)]
  <1>1. /\ UNCHANGED <<asmVars, file, addr, whole>>
        /\ stage \in {"written", "reading"} /\ stage' \in {"reading", "read"}
    BY DEF BeginsReading, ReadsEmpty, ReadsStart, ReadsBroken, ReadsWord, EndsReading, Reads,
           Returns
  <1>2. WriteInv'
    <2>1. UNCHANGED asmVars /\ file' = file /\ UNCHANGED <<source, whole>>
      BY <1>1 DEF asmVars
    <2>2. LinesBelow(file, LGP30_MEMORY_WORDS) => LinesBelow(file, LGP30_MEMORY_WORDS)'
      BY <2>1, SameImage
    <2>3. CutLines(file) => CutLines(file)'
      BY <2>1, SameImage
    <2> QED
      BY <1>1, <2>1, <2>2, <2>3 DEF WriteInv
  <1>3. Len(file) \in Nat /\ DOMAIN file = 1 .. Len(file) /\ read_pos \in 0 .. Len(file)
    BY LenProperties DEF FileTypeOK
  <1>4. ASSUME read_pos' \in 0 .. Len(file), CopyTyped', result' \in {"none", "true", "false"}
        PROVE  FileTypeOK'
    <2>1. stage' \in Stages
      BY <1>1 DEF Stages
    <2>2. whole' \in BOOLEAN
      BY <1>1, Zenon DEF FileTypeOK
    <2>3. file' \in Seq(FileLine) /\ addr' \in 0 .. LGP30_MEMORY_WORDS /\ read_pos' \in 0 .. Len(file')
      BY <1>1, <1>4 DEF FileTypeOK
    <2> QED
      BY <1>4, <2>1, <2>2, <2>3, Zenon DEF FileTypeOK
  <1>5. CopyTyped /\ result \in {"none", "true", "false"}
    BY DEF FileTypeOK
  <1>6. CASE BeginsReading
    <2>1. stage = "written" /\ stage' = "reading" /\ UNCHANGED <<read_pos, copy, result>>
      BY <1>6 DEF BeginsReading
    <2>2. read_pos = 0 /\ copy = EmptyImage
      BY <2>1 DEF ReadInv
    <2>3. CopyOf(read_pos)'
      <3>1. read_pos' = 0 /\ copy' = EmptyImage /\ \A i \in 1 .. 0 : FALSE
        BY <2>1, <2>2
      <3> QED
        BY <3>1 DEF CopyOf, WordIsLast, StartIsLast, EmptyImage
    <2>4. ReadInv'
      BY <2>1, <2>3 DEF ReadInv
    <2>5. CopyTyped'
      BY <1>5, <2>1
    <2>6. FileTypeOK'
      BY <1>3, <1>4, <1>5, <2>1, <2>5
    <2> QED
      BY <1>2, <2>4, <2>6
  <1>7. CASE (ReadsEmpty \/ ReadsStart \/ ReadsWord) /\ stage' = "reading"
    <2>1. stage = "reading" /\ read_pos' \in 0 .. Len(file)
      BY <1>1, <1>7, NextLineTyped DEF ReadsEmpty, ReadsStart, ReadsWord
    <2>2. CopyOf(read_pos)
      BY <2>1 DEF ReadInv
    <2>3. CopyOf(read_pos)' /\ CopyTyped'
      BY <1>7, <2>2, ReadsFurther
    <2>4. ReadInv'
      BY <1>7, <2>3 DEF ReadInv
    <2>5. result' = result
      BY <1>7 DEF ReadsEmpty, ReadsStart, ReadsWord, Returns
    <2>6. FileTypeOK'
      BY <1>4, <1>5, <2>1, <2>3, <2>5
    <2> QED
      BY <1>2, <2>4, <2>6
  <1>8. CASE (ReadsBroken \/ ReadsWord) /\ stage' # "reading"
    <2>1. /\ stage = "reading" /\ next_line \in FileLine
          /\ next_line.form = "broken" \/ next_line.form = "word"
          /\ read_pos' = read_pos + 1 /\ read_pos' \in 0 .. Len(file)
          /\ read_pos + 1 \in DOMAIN file /\ next_line = file[read_pos + 1]
      BY <1>1, <1>8, NextLineTyped DEF ReadsBroken, ReadsWord, next_line
    <2>2. Refused(next_line) /\ stage' = "read" /\ result' = "false" /\ UNCHANGED copy
      <3>1. CASE ReadsBroken
        BY <3>1, NextLineTyped DEF ReadsBroken, Returns, Refused
      <3>2. CASE ReadsWord
        <4>1. next_line.address >= LGP30_MEMORY_WORDS /\ Returns("false") /\ UNCHANGED copy
          BY <1>8, <2>1, <3>2 DEF ReadsWord
        <4>2. next_line.form = "word" /\ next_line.address \in Nat
          BY <2>1, <3>2, LineForms, NextLineTyped DEF ReadsWord
        <4>3. next_line.address \notin Address
          BY <4>1, <4>2, Layout DEF Address
        <4> QED
          BY <4>1, <4>2, <4>3 DEF Returns, Refused
      <3> QED
        BY <1>8, <3>1, <3>2
    <2>3. ReadInv'
      <3>1. read_pos' \in DOMAIN file' /\ Refused(file'[read_pos'])
        BY <1>1, <2>1, <2>2
      <3> QED
        BY <2>2, <3>1 DEF ReadInv, Refused
    <2>4. CopyTyped' /\ result' \in {"none", "true", "false"}
      BY <1>5, <2>2
    <2>5. FileTypeOK'
      BY <1>4, <2>1, <2>4
    <2> QED
      BY <1>2, <2>3, <2>5
  <1>9. CASE EndsReading
    <2>1. /\ stage = "reading" /\ stage' = "read" /\ read_pos = Len(file) /\ result' = "true"
          /\ UNCHANGED <<file, read_pos, copy>>
      BY <1>9 DEF EndsReading, Returns
    <2>2. CopyOf(read_pos)
      BY <2>1 DEF ReadInv
    <2>3. CopyOf(read_pos)'
      BY <2>1, <2>2 DEF CopyOf, WordIsLast, StartIsLast, Sets, Refused
    <2>4. ReadInv'
      BY <2>1, <2>3 DEF ReadInv
    <2>5. CopyTyped' /\ result' \in {"none", "true", "false"}
      BY <1>5, <2>1
    <2>6. FileTypeOK'
      BY <1>3, <1>4, <2>1, <2>5
    <2> QED
      BY <1>2, <2>4, <2>6
  <1>10. ReadsEmpty \/ ReadsStart => stage' = "reading"
    BY <1>1 DEF ReadsEmpty, ReadsStart, Reads
  <1>11. ReadsBroken => stage' # "reading"
    BY DEF ReadsBroken, Returns
  <1> QED
    BY <1>6, <1>7, <1>8, <1>9, <1>10, <1>11

-----------------------------------------------------------------------------
(* The theorems.                                                           *)

FileInv == FileTypeOK /\ ReadInv /\ WriteInv

LEMMA InitFileInv == AsmImageInit => FileInv
  <1> SUFFICES ASSUME AsmImageInit PROVE FileInv
    OBVIOUS
  <1>1. FileTypeOK
    BY InitFileTypeOK
  <1>2. ReadInv
    BY DEF AsmImageInit, ReadInv
  <1>3. WriteInv
    BY DEF AsmImageInit, WriteInv
  <1> QED
    BY <1>1, <1>2, <1>3 DEF FileInv

LEMMA NextFileInv == AsmTypeOK /\ FileInv /\ [AsmImageNext]_asmImageVars => FileInv'
  <1> SUFFICES ASSUME AsmTypeOK, FileInv, [AsmImageNext]_asmImageVars PROVE FileInv'
    OBVIOUS
  <1> USE DEF FileInv
  <1>1. CASE Assembles
    <2>1. stage = "assembling" /\ UNCHANGED fileVars
      BY <1>1 DEF Assembles
    <2>2. FileTypeOK'
      BY <2>1 DEF FileTypeOK, fileVars
    <2>3. ReadInv'
      BY <2>1 DEF ReadInv, fileVars
    <2>4. WriteInv'
      BY <2>1 DEF WriteInv, fileVars
    <2> QED
      BY <2>2, <2>3, <2>4
  <1>2. CASE BeginsWriting \/ WritesStart \/ WritesWord \/ EndsWriting \/ WriteFails \/ LosesEnd
    BY <1>2, WritingPreserves
  <1>3. CASE BeginsReading \/ ReadsEmpty \/ ReadsStart \/ ReadsBroken \/ ReadsWord \/ EndsReading
    BY <1>3, ReadingPreserves
  <1>4. CASE UNCHANGED asmImageVars
    <2> USE <1>4 DEF asmImageVars, asmVars, imageVars, fileVars
    <2>1. FileTypeOK'
      BY DEF FileTypeOK
    <2>2. ReadInv'
      BY DEF ReadInv, CopyOf, WordIsLast, StartIsLast, Sets, Refused
    <2>3. WriteInv'
      BY DEF WriteInv, LinesBelow, CutLines, LinesThrough, Sets
    <2> QED
      BY <2>1, <2>2, <2>3
  <1> QED
    BY <1>1, <1>2, <1>3, <1>4 DEF AsmImageNext, AsmImageDone

LEMMA FileInvAlways == AsmImageSpec => [](AsmInv /\ ImageInv /\ FileInv)
  <1>1. AsmImageSpec => []AsmInv /\ []ImageInv
    BY AsmImageImplementsAsm, AsmInvAlways, ImageInvAlways, PTL
  <1>2. AsmInv /\ FileInv /\ [AsmImageNext]_asmImageVars => FileInv'
    BY NextFileInv DEF AsmInv
  <1> QED
    BY <1>1, <1>2, InitFileInv, PTL DEF AsmImageSpec

\* What the copy has when the whole file was read.
LEMMA CopyRead ==
  ASSUME FileInv, stage = "read", result = "true"
  PROVE  /\ \A a \in Address :
              \/ /\ a \notin copy.assigned /\ copy.memory[a] = 0
                 /\ \A i \in DOMAIN file : ~Sets(file[i], a)
              \/ /\ a \in copy.assigned
                 /\ \E i \in DOMAIN file :
                      /\ Sets(file[i], a) /\ copy.memory[a] = file[i].number
                      /\ \A j \in DOMAIN file : Sets(file[j], a) => j <= i
         /\ \/ copy.start = {} /\ \A i \in DOMAIN file : file[i].form # "start"
            \/ \E i \in DOMAIN file :
                 /\ file[i].form = "start" /\ copy.start = {file[i].number % START_RANGE}
                 /\ \A j \in DOMAIN file : file[j].form = "start" => j <= i
         /\ \A i \in DOMAIN file : ~Refused(file[i])
  <1> DEFINE n == Len(file)
  <1>1. DOMAIN file = 1 .. n /\ n \in Nat
    BY LenProperties DEF FileInv, FileTypeOK
  <1>2. CopyOf(n)
    BY DEF FileInv, ReadInv
  <1> HIDE DEF n
  <1>3. \A i, j \in 1 .. n : j \in i + 1 .. n \/ j <= i
    BY <1>1
  <1>4. ASSUME NEW a \in Address
        PROVE  \/ /\ a \notin copy.assigned /\ copy.memory[a] = 0
                  /\ \A i \in DOMAIN file : ~Sets(file[i], a)
               \/ /\ a \in copy.assigned
                  /\ \E i \in DOMAIN file :
                       /\ Sets(file[i], a) /\ copy.memory[a] = file[i].number
                       /\ \A j \in DOMAIN file : Sets(file[j], a) => j <= i
    <2>1. WordIsLast(n, a)
      BY <1>2 DEF CopyOf
    <2> QED
      BY <1>1, <1>3, <2>1, Zenon DEF WordIsLast
  <1>5. \/ copy.start = {} /\ \A i \in DOMAIN file : file[i].form # "start"
        \/ \E i \in DOMAIN file :
             /\ file[i].form = "start" /\ copy.start = {file[i].number % START_RANGE}
             /\ \A j \in DOMAIN file : file[j].form = "start" => j <= i
    <2>1. StartIsLast(n)
      BY <1>2 DEF CopyOf
    <2> QED
      BY <1>1, <1>3, <2>1, Zenon DEF StartIsLast
  <1>6. \A i \in DOMAIN file : ~Refused(file[i])
    BY <1>1, <1>2 DEF CopyOf
  <1> QED
    BY <1>4, <1>5, <1>6, Zenon

LEMMA CopySaysWhatFileSays ==
  ASSUME FileInv
  PROVE  ReadsWhatTheFileSays
  <1> DEFINE Lasts(lines) == {i \in lines : \A j \in lines : j <= i}
             At(a) == {i \in DOMAIN file : file[i].form = "word" /\ file[i].address = a}
             Starts == {i \in DOMAIN file : file[i].form = "start"}
             Good(i) == /\ file[i].form # "broken"
                        /\ file[i].form = "word" => file[i].address \in Address
  <1>1. SUFFICES ASSUME stage = "read"
        PROVE  /\ result = "true" <=> \A i \in DOMAIN file : Good(i)
               /\ result = "true" =>
                    /\ copy.start = {file[i].number % START_RANGE : i \in Lasts(Starts)}
                    /\ \A a \in Address :
                         /\ {copy.memory[a]} =
                              IF At(a) = {} THEN {0} ELSE {file[i].number : i \in Lasts(At(a))}
                         /\ a \in copy.assigned <=> At(a) # {}
    BY DEF ReadsWhatTheFileSays
  <1>2. \A i \in DOMAIN file : Refused(file[i]) <=> ~Good(i)
    BY DEF Refused
  <1>3. result = "true" <=> \A i \in DOMAIN file : Good(i)
    <2>1. \/ result = "true"
          \/ result = "false" /\ read_pos \in DOMAIN file /\ Refused(file[read_pos])
      BY <1>1 DEF FileInv, ReadInv
    <2>2. result = "true" => \A i \in DOMAIN file : ~Refused(file[i])
      BY <1>1, CopyRead
    <2> HIDE DEF Good
    <2> QED
      BY <1>2, <2>1, <2>2
  <1>4. ASSUME result = "true"
        PROVE  copy.start = {file[i].number % START_RANGE : i \in Lasts(Starts)}
    <2>1. CASE copy.start = {} /\ \A i \in DOMAIN file : file[i].form # "start"
      BY <2>1
    <2>2. CASE \E i \in DOMAIN file :
                 /\ file[i].form = "start" /\ copy.start = {file[i].number % START_RANGE}
                 /\ \A j \in DOMAIN file : file[j].form = "start" => j <= i
      <3>1. PICK i \in DOMAIN file :
              /\ file[i].form = "start" /\ copy.start = {file[i].number % START_RANGE}
              /\ \A j \in DOMAIN file : file[j].form = "start" => j <= i
        BY <2>2
      <3>2. Lasts(Starts) = {i}
        <4>1. DOMAIN file \subseteq Nat
          BY LenProperties DEF FileInv, FileTypeOK
        <4> QED
          BY <3>1, <4>1
      <3> HIDE DEF Lasts, Starts
      <3> QED
        BY <3>1, <3>2
    <2> QED
      BY <1>1, <1>4, <2>1, <2>2, CopyRead, Zenon
  <1>5. ASSUME result = "true", NEW a \in Address
        PROVE  /\ {copy.memory[a]} =
                    IF At(a) = {} THEN {0} ELSE {file[i].number : i \in Lasts(At(a))}
               /\ a \in copy.assigned <=> At(a) # {}
    <2>1. CASE /\ a \notin copy.assigned /\ copy.memory[a] = 0
               /\ \A i \in DOMAIN file : ~Sets(file[i], a)
      <3>1. At(a) = {}
        BY <2>1 DEF Sets
      <3> HIDE DEF At
      <3> QED
        BY <2>1, <3>1
    <2>2. CASE /\ a \in copy.assigned
               /\ \E i \in DOMAIN file :
                    /\ Sets(file[i], a) /\ copy.memory[a] = file[i].number
                    /\ \A j \in DOMAIN file : Sets(file[j], a) => j <= i
      <3>1. PICK i \in DOMAIN file :
              /\ Sets(file[i], a) /\ copy.memory[a] = file[i].number
              /\ \A j \in DOMAIN file : Sets(file[j], a) => j <= i
        BY <2>2
      <3>2. Lasts(At(a)) = {i} /\ At(a) # {}
        <4>1. DOMAIN file \subseteq Nat
          BY LenProperties DEF FileInv, FileTypeOK
        <4> QED
          BY <3>1, <4>1 DEF Sets
      <3> HIDE DEF Lasts, At
      <3> QED
        BY <2>2, <3>1, <3>2
    <2> QED
      BY <1>1, <1>5, <2>1, <2>2, CopyRead, Zenon
  <1> HIDE DEF Good, Lasts, At, Starts
  <1> QED
    BY <1>3, <1>4, <1>5

\* A file that image_read was given says what the copy then has, and which files
\* it refuses (image.c:31-57).
THEOREM CopyAlwaysSaysWhatFileSays == AsmImageSpec => []ReadsWhatTheFileSays
  BY FileInvAlways, CopySaysWhatFileSays, PTL

\* A word of the copy is that of the image when the file gives just that.
LEMMA WordIsSame ==
  ASSUME ImageInv, FileInv, stage = "read", result = "true", NEW a \in Address,
         \A i \in DOMAIN file : Sets(file[i], a) => assigned[a] /\ file[i].number = memory[a],
         assigned[a] => \E i \in DOMAIN file : Sets(file[i], a)
  PROVE  SameWord(a)
  <1>1. ~assigned[a] => memory[a] = 0
    BY DEF ImageInv, ImageHoldsAcceptedLines
  <1>2. CASE a \notin copy.assigned /\ copy.memory[a] = 0 /\ \A i \in DOMAIN file : ~Sets(file[i], a)
    BY <1>1, <1>2 DEF SameWord
  <1>3. CASE /\ a \in copy.assigned
             /\ \E i \in DOMAIN file : Sets(file[i], a) /\ copy.memory[a] = file[i].number
    BY <1>3 DEF SameWord
  <1> QED
    BY <1>2, <1>3, CopyRead

\* A start that is the image's survives being cut to 16 bits, also shortened.
LEMMA StartFits ==
  ASSUME AsmTypeOK, NEW s \in Shortened(start_address)
  PROVE  s % START_RANGE = s
  <1>1. start_address \in Nat /\ start_address < START_RANGE /\ START_RANGE \in Nat
    BY Layout, AsmImageAssumption DEF AsmTypeOK, Address
  <1>2. s \in 0 .. start_address
    BY <1>1, ShortenedIsSmaller
  <1>3. s \in 0 .. START_RANGE - 1
    BY <1>1, <1>2
  <1> QED
    BY <1>1, <1>3, NearMod

LEMMA StartIsSame ==
  ASSUME AsmTypeOK, FileInv, stage = "read", result = "true",
         \A i \in DOMAIN file : file[i].form = "start" =>
           has_start_address /\ file[i] = StartLine(start_address),
         has_start_address => \E i \in DOMAIN file : file[i].form = "start"
  PROVE  SameStart
  <1>1. start_address % START_RANGE = start_address
    BY StartFits DEF Shortened
  <1>2. CASE copy.start = {} /\ \A i \in DOMAIN file : file[i].form # "start"
    BY <1>2 DEF SameStart
  <1>3. CASE \E i \in DOMAIN file :
               file[i].form = "start" /\ copy.start = {file[i].number % START_RANGE}
    BY <1>1, <1>3 DEF SameStart, StartLine
  <1> QED
    BY <1>2, <1>3, CopyRead

LEMMA WholeFileRoundTrips ==
  ASSUME AsmInv, ImageInv, FileInv
  PROVE  WholeImageRoundTrips
  <1> SUFFICES ASSUME stage = "read", whole
               PROVE  result = "true" /\ SameStart /\ \A a \in Address : SameWord(a)
    BY DEF WholeImageRoundTrips
  <1>1. LinesBelow(file, LGP30_MEMORY_WORDS)
    BY DEF FileInv, WriteInv
  <1>2. \A i \in DOMAIN file :
          \/ i = 1 /\ has_start_address /\ file[i] = StartLine(start_address)
          \/ /\ file[i].form = "word" /\ file[i].address \in Address
             /\ assigned[file[i].address] /\ file[i].number = memory[file[i].address]
    BY <1>1 DEF LinesBelow
  <1>3. \A i \in DOMAIN file : ~Refused(file[i])
    BY <1>2 DEF Refused, StartLine
  <1>4. result = "true"
    BY <1>3 DEF FileInv, ReadInv
  <1>5. SameStart
    <2>1. has_start_address => 1 \in DOMAIN file /\ file[1].form = "start"
      <3>1. has_start_address => file # <<>> /\ file[1] = StartLine(start_address)
        BY <1>1 DEF LinesBelow
      <3>2. file # <<>> => 1 \in DOMAIN file
        BY EmptySeq, LenProperties DEF FileInv, FileTypeOK
      <3> QED
        BY <3>1, <3>2 DEF StartLine
    <2> QED
      BY <1>2, <1>4, <2>1, StartIsSame DEF AsmInv
  <1>6. ASSUME NEW a \in Address PROVE SameWord(a)
    <2>1. a < LGP30_MEMORY_WORDS
      BY Layout DEF Address
    <2>2. assigned[a] => \E i \in DOMAIN file : Sets(file[i], a)
      BY <1>1, <2>1 DEF LinesBelow
    <2>3. \A i \in DOMAIN file : Sets(file[i], a) => assigned[a] /\ file[i].number = memory[a]
      BY <1>2 DEF Sets, StartLine
    <2> QED
      BY <1>4, <2>2, <2>3, WordIsSame
  <1> QED
    BY <1>4, <1>5, <1>6

\* An image that was written whole reads back as itself, for every program and
\* every layout of the word (image.h:23-30).
THEOREM WholeImageAlwaysRoundTrips == AsmImageSpec => []WholeImageRoundTrips
  BY FileInvAlways, WholeFileRoundTrips, PTL

LEMMA CutFileIsAPart ==
  ASSUME AsmInv, ImageInv, FileInv
  PROVE  CutImageIsAPart
  <1> DEFINE OnlyStart ==
               /\ copy.assigned = {}
               /\ \A s \in copy.start : has_start_address /\ s \in Shortened(start_address)
             Through(last) ==
               /\ assigned[last]
               /\ copy.memory[last] \in Shortened(memory[last])
               /\ \A a \in Address \ {last} :
                    IF a < last THEN SameWord(a) ELSE a \notin copy.assigned
  <1>1. SUFFICES ASSUME stage = "read", result = "true", source # <<>>
                 PROVE  \/ SameStart /\ \A a \in Address : SameWord(a)
                        \/ OnlyStart
                        \/ SameStart /\ \E last \in copy.assigned : Through(last)
    BY DEF CutImageIsAPart
  <1>2. AsmTypeOK /\ copy.assigned \subseteq Address /\ Address \subseteq Nat
    BY Layout DEF AsmInv, FileInv, FileTypeOK, Address
  <1>3. whole \/ CutLines(file)
    BY <1>1 DEF FileInv, WriteInv
  <1>4. CASE whole
    BY <1>1, <1>4, WholeFileRoundTrips DEF WholeImageRoundTrips
  <1>5. CASE \A i \in DOMAIN file : /\ file[i].form = "start" /\ has_start_address
                                   /\ file[i].number \in Shortened(start_address)
    <2>1. copy.assigned = {}
      <3>1. \A a \in Address : a \notin copy.assigned
        BY <1>1, <1>5, CopyRead DEF Sets
      <3> QED
        BY <1>2, <3>1
    <2>2. \A s \in copy.start : has_start_address /\ s \in Shortened(start_address)
      BY <1>1, <1>2, <1>5, CopyRead, StartFits
    <2> QED
      BY <2>1, <2>2
  <1>6. ASSUME NEW last \in Address, assigned[last], LinesThrough(file, last)
        PROVE  SameStart /\ last \in copy.assigned /\ Through(last)
    <2>1. \A i \in DOMAIN file :
            \/ file[i] = StartLine(start_address) /\ has_start_address
            \/ /\ file[i].form = "word"
               /\ file[i].address \in Address
               /\ file[i].address <= last
               /\ file[i].address # last => file[i].number = memory[file[i].address]
               /\ file[i].address = last => file[i].number \in Shortened(memory[last])
               /\ assigned[file[i].address]
      BY <1>6 DEF LinesThrough
    <2>2. SameStart
      <3>1. has_start_address => \E i \in DOMAIN file : file[i].form = "start"
        BY <1>6 DEF LinesThrough
      <3>2. \A i \in DOMAIN file : file[i].form = "start" =>
              has_start_address /\ file[i] = StartLine(start_address)
        BY <2>1
      <3> QED
        BY <1>1, <1>2, <3>1, <3>2, StartIsSame
    <2>3. last \in copy.assigned /\ copy.memory[last] \in Shortened(memory[last])
      <3>1. \E i \in DOMAIN file : Sets(file[i], last)
        BY <1>2, <1>6 DEF LinesThrough
      <3>2. \A i \in DOMAIN file : Sets(file[i], last) => file[i].number \in Shortened(memory[last])
        BY <2>1 DEF Sets, StartLine
      <3> QED
        BY <1>1, <3>1, <3>2, CopyRead
    <2>4. ASSUME NEW a \in Address \ {last}, a < last PROVE SameWord(a)
      <3>1. assigned[a] => \E i \in DOMAIN file : Sets(file[i], a)
        BY <1>2, <1>6, <2>4 DEF LinesThrough
      <3>2. \A i \in DOMAIN file : Sets(file[i], a) => assigned[a] /\ file[i].number = memory[a]
        BY <2>1 DEF Sets, StartLine
      <3> QED
        BY <1>1, <3>1, <3>2, WordIsSame
    <2>5. ASSUME NEW a \in Address \ {last}, ~(a < last) PROVE a \notin copy.assigned
      <3>1. ~(a <= last)
        BY <1>2, <2>5
      <3>2. \A i \in DOMAIN file : ~Sets(file[i], a)
        BY <2>1, <3>1 DEF Sets, StartLine
      <3> QED
        BY <1>1, <3>2, CopyRead
    <2> QED
      BY <1>6, <2>2, <2>3, <2>4, <2>5
  <1>7. ~(\E i \in DOMAIN file : file[i].form = "broken")
    BY <1>1, CopyRead DEF Refused
  <1> HIDE DEF OnlyStart, Through
  <1>8. ASSUME \E last \in Address : assigned[last] /\ LinesThrough(file, last)
        PROVE  SameStart /\ \E last \in copy.assigned : Through(last)
    BY <1>6, <1>8
  <1> QED
    BY <1>3, <1>4, <1>5, <1>7, <1>8 DEF CutLines

\* What is read of an image that was cut short is that image up to some address,
\* wherever it was cut (image.c:14-29, 47-55).
THEOREM CutImageIsAlwaysAPart == AsmImageSpec => []CutImageIsAPart
  BY FileInvAlways, CutFileIsAPart, PTL
=============================================================================
