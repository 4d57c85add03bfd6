# A formal model of the LGP-30 emulator

TLA+ modules of the emulator in this repository, the TLC runs that check them
on small machines, and the TLAPS proofs that hold for every size of machine,
the real one included. Paths below are relative to the repository.

The emulator is sequential: one host calls `lgp30_step` and nothing runs beside
it. What is hard about it is elsewhere. One `i 0000` is spread over many calls,
and between any two of them the host may reset the machine or the reader may
have nothing to give. Programs rewrite their own instructions through a
12-bit field in the middle of a word. Numbers, addresses, ticks and the count
of characters all have edges. Every memory access moves the clock. And the
debugger lets its user interleave commands in any order.

## Inventory

| Component | State | Operations | Interacts with | Hard part | Correct when |
|---|---|---|---|---|---|
| Words (`core/types.h`) | none | fields, spacer, signed numbers, addresses and digits as text | everyone | masks; the spacer bit under the number; two limits in one four-digit address | `y`/`r` change an address and nothing else; a number survives the round trip |
| Arithmetic (`core/cpu.c:50-65, 163-170, 194-283`) | accumulator, status | `a s m n d e` | reads one drum word | sign and magnitude of the most negative number, rounding, overflow | results are those of a two's complement adder, of one product in two halves, of a nearest quotient |
| Drum (`core/drum.c`) | `drum_ticks` | wait, read, write | called by the processor | the sector already under the heads, wrap at 2^64 | every access is charged the next visit of its sector |
| Processor (`core/cpu.c`) | memory, accumulator, counter, instruction register, `input_in_progress`, `input_shift_count`, status | `lgp30_step`, `lgp30_reset`, create | calls the backend's `read_char`, `write_char`; called by a host | a word read over many calls; self-modification; wrap of addresses | whole words are read, in order, once; the drum has no spacers; programs return from calls |
| Simple backend (`io/simple.c`, `core/io.h`) | position in the input | read, write, flush | called by the processor | would block, end of input | characters in order; an end that stays an end |
| Flexowriter (`io/flexowriter.c`) | the shift | write, read, flush | called by the processor | the shift of long ago; codes with no mark; a table of 64 codes in two cases | the paper means the codes, in order |
| Breakpoints, inspection (`core/cpu.c:331-358`) | a set of addresses | set, clear, test, read | the debugger | must survive a reset | see the debugger |
| Assembler (`core/asm/asm.c`) | image, list of errors and its capacity | `asm_assemble`: take a line, split it, parse its fields, assemble it | called by the loader | lengths, columns and limits in the text; failing allocation; rejected lines that leave traces; duplicates | the image is what the accepted lines spell, every other line is reported |
| Images (`core/asm/image.c`) | none | `image_init`, `image_write`, `image_read` | an assembled program, a file | a write that fails, a file cut short, a file of another origin | what was written whole reads back; what was cut reads as a part of it, or not at all |
| Program loader (`host/cli/program_loader.c`) | none | `load_program` | assembler, machine | loading over a machine with a past | nothing changes on failure; only memory and counter on success |
| Batch host (`host/cli/main.c`) | options, step count, cap, exit code | parse options, load, loop, exit | loader, processor, a backend | options in any order; halting at the cap | the options decide what runs; always exits; the exit code is true |
| Debugger (`host/cli/repl.c`) | breakpoints, loop of `run` | `step run break clear reset load quit` | loader, processor, a reader at its end | any order of commands; a run that never halts | runs stop at breakpoints, say why, and return |
| Display (`host/cli/display.c`) | none | formatting | hosts | none | not modelled |

`PROJECT.json` lists under "hazards" each place in the code where one of these
hard parts bites, with the properties that watch it.

## Modules

Each module `EXTENDS` the ones it is indented under; those in brackets it
extends as well.

    LGP30Types            words, fields, numbers        core/types.h
      LGP30Notation       addresses, digits, letters    core/types.h, core/asm/asm.c
        Flexowriter       both backends' output         io/flexowriter.c, io/simple.c
      LGP30Arithmetic     a s m n d e as actions        core/cpu.c
      LGP30Drum           the rotation as a function    core/drum.c
        LGP30CPU          the machine and its reader    core/cpu.c, core/io.h [LGP30Arithmetic]
          LGP30CPU_words  history variables, refinement of WordReader
          BootstrapLoader the manual's loader           tests/test_bootstrap.c
          ProgramLoader   load_program                  host/cli/program_loader.c [LoadResults]
            Batch         main                          host/cli/main.c [Flexowriter]
            Repl          repl_main                     host/cli/repl.c
      LoadResults         what a program file gives     host/cli/program_loader.h
      Assembler           asm_assemble, line by line    core/asm/asm.c
        SourceText        its text, char by char        core/asm/asm.c [LGP30Notation]
        AsmImage          write and read an image       core/asm/image.c
    WordReader            abstract: `i 0000` reads a word, at once
    MCPrograms, MCRoutines, MCAssembler, MCSourceText, MCRepl, MCBatch
                          the small instances
    LGP30Types_proofs     words, fields, the masked merge
      LGP30CPU_proofs     arithmetic, machine           [LGP30CPU]
        LGP30CPU_words_proofs   the refinement, the loader of the manual
        Repl_proofs, Batch_proofs
      Assembler_proofs    [Assembler, LoadResults]
        SourceText_proofs [SourceText]
        AsmImage_proofs   [AsmImage]

**Words.** A word is a natural number below `WORD_SIZE`. Shifts and masks are
`\div` and `%` by constants (`MAGNITUDE` is 2^30, `ADDRESS_UNIT` 2^3,
`OPCODE_UNIT` 2^17, `TRACKS` and `SECTORS` 64), so that a small instance has the
same fields in the same order in fewer bits. `LayoutAssumption` says what the
diagram at `core/types.h:57-66` says of them; the real values satisfy it. The
`&` of `e` is defined by the sets of bits of its operands. `LGP30Notation` has
the words as they are written: the hex alphabet, the letters of the opcodes, and
the four digits of an address. What may not parse is a set, empty or of one value.

**Arithmetic.** One action for each instruction, over `accumulator` and
`status`. `Settle` is the early return of an overflow.

**Drum.** `drum_wait_for_sector` is the C function; `AccessTime` adds the wait to
the clock, modulo 2^64 (`TICK_RANGE`).

**Processor.** `LGP30CPU` has a variable for each field of `struct LGP30` but
the breakpoints, and three for the outside: the `tape`, how much of it is read,
and the last code printed. One `Step` is one call of `lgp30_step`. `Executing(op)`
is the fetch and the dispatch (`cpu.c:285-304`); the `op_*` actions are the
cases; `HaltedStep` and `ContinueInput` the two early returns. `op_input_continue`
is a disjunction over what `read_char` may answer: `ReaderBlocks` (if
`CAN_BLOCK`), `ReaderAtEnd`, `ReaderStops`, `ReaderShifts`. `Reset` may come
between any two steps. `Spec` is the machine under any host.

**Abstract reader.** `WordReader` knows a tape, a position, an accumulator and
whether the machine has halted. `ReadWord` takes a whole word in one step: the
digits up to a stop code, or as many as fill the accumulator, or up to the end
of the tape, which halts. Everything else leaves the reader alone, and a reset
may abandon less than a word. `LGP30CPU_words` remembers accumulator and
position at each `i 0000` and shows them to the abstract reader until the word
is complete: that is the refinement mapping.

**A program of the machine.** `BootstrapLoader` is the loader of the manual that
`tests/test_bootstrap.c` runs: eight words of memory and nothing else. `LoaderSpec`
is the machine started on it, with a host that only calls `lgp30_step`.

**Backends.** `Flexowriter` is the table of `FLEXO_TABLE` in two cases, 64 codes
each, and `flexo_write_char`: a code outside the table is ignored, a shift code
moves the shift and marks nothing, every other code puts its glyph of the case in
force on the paper. `simple_write_char` writes the code as it is. `codes` is a
history variable: what was received, for `PaperMeansItsCodes` to look back over.
The property says what one code means in a case (`Meaning`), and what case is in
force at the k-th code by looking back for its last shift (`Upper`); the paper is
the concatenation. It reads opcodes and digits by the rules in the comment of the
table (`1 + 4 * opcode`, `2 + 4 * digit`) and not by the table, so that the two are
compared; the other glyphs are the table's own.

**Assembler.** One step is one line. A line has a form and fields, and a field is
the set of values it can be read as, empty when malformed, and has a column. The
order of the tests of the code is kept, with the column each passes to `add_errorf`
(a field's, or 1), and so is the error list: `error_capacity` grows as
`add_errorf` grows it, and where the allocation may fail the error may be dropped.
`lost` is a history variable that remembers those.

**Text.** `SourceText` finds the lines. `ScansLine` takes the next one from the
text, up to a newline, a NUL or the end, and makes a line of `Assembler` of it:
`scan` measures it against `LINE_CAPACITY`, cuts its comment, splits it with
`tokenize` and parses its fields with `parse_location_token`, `opcode_value` and
`parse_signed_integer`. `AssemblesLine` then is `AsmNext`. The loops of the code
are searches for the first character of some kind (`FirstOf`), and the fields are
the spans between blanks (`Spans`), each found from the end of the one before. The
properties describe a text as its reader sees it, by sets of positions and what is
spelled there, and never by the scanning: a field begins at a character that is no
blank after one that is, a number is the one that prints as its digits, an address
the one that `lgp30_format_address` prints so. `Faults` are the fields of a line that
such a reader would object to; an error has the line and the column of the leftmost
of them, or column 1 of a line that is too long or has another number of fields.

**Images.** `AsmImage` assembles a program, writes it to a file and reads the file
back, a line at a time. `WritesStart` and `WritesWord` are the two `fprintf` of
`image_write`, with `addr` the index of its loop; either may be `WriteFails`, which
leaves any beginning of the line. A file once written may lose its end anywhere
(`LosesEnd`), also within a number. Or the file is one that no program gave
(`OtherFiles`). `image_write` is not told of errors, so the image of a program with
errors is written too. `image_read` has an action for each kind of line and for the end. A
line of a file is its form and its numbers, not its characters.

**Loader and hosts.** A file is its outcome (`LoadResults`): unreadable, rejected,
or an image. `Assembler` says which of them its result is (`AssembledFile`). `Repl`
has an action for each command, and three for the turns of the loop of `run`:
execute, stop at a breakpoint, stop at the limit. `executed` is a history variable:
the addresses of the instructions that the last run executed, to which a call of a
halted machine adds nothing. The file that may follow `repl` on the command line is
a first `load`. `Batch` hands over to the debugger if the first argument is `repl`,
and ends there; otherwise it has an action for each kind of argument, then loads the
program, and has the loop of `main` with the cap on steps; a step that prints hands
its code to `write_char` of the backend that the options chose. An argument is its
kind and its value; `--max-steps=` of no number has none. Both hosts start from a
fresh machine with an empty drum.

## Runs

| Run | Instance | What it shows |
|---|---|---|
| `arithmetic` | `LGP30Arithmetic`, 6-bit words, every accumulator and every operand, then again on the result | results on every pair of operands, both ends of the range among them: `AddsLikeAnAdder`, `MultipliesSplitTheProduct`, `DividesToNearest` |
| `programs` | `MCPrograms`, four words of 8 bits; every pair of instructions on every address after an input; resets and would-blocks anywhere | the machine's invariants, its action properties, and `ReadsWholeWords` |
| `routines` | `MCRoutines`, sixteen words of 12 bits; the loader of `tests/test_bootstrap.c` on 904 tapes, of which many end within a word; a subroutine called by `r` and `u` from three places, one across the end of memory, around each instruction and an input | `LoaderFillsMemory`, `LoaderHaltsAtEnd`, `CallsReturn`, `InputTerminates` |
| `assembler` | `MCAssembler`, every program of up to three lines out of 27; allocation may fail; the first block has room for one error; the image written, cut anywhere, read; files of up to three foreign lines | the image is the accepted lines, every other line is reported once or lost; `WholeImageRoundTrips`, `CutImageIsAPart`, `ReadsWhatTheFileSays` |
| `text` | `MCSourceText`, some five thousand texts of one to three lines: blanks and tabs, comments, a carriage return, a NUL, lines at the limit of the buffer, addresses and numbers at and past their limits | each line means what its fields spell (`LinesMeanTheirText`), each error leads to the leftmost field at fault (`ErrorsPointAtTheirFields`), the image is spelled by the text (`ImageIsSpelledByItsText`) |
| `repl` | `MCRepl`, four words, five files, breakpoints anywhere, a limit of four steps | a whole run passes no breakpoint after its first instruction and reports one exactly when it stops for it; runs tell the truth and return |
| `batch` | `MCBatch`, 64 tracks of one sector, 12-bit words; every command line of up to three arguments out of 12, `repl` among them; a thousand programs under three caps; programs that print three codes on the Flexowriter; four tapes | the command line decides what runs or that it is the debugger, the host exits within its cap, with a true code, and the paper means the codes |
| `arithmetic_claim` | as `arithmetic` | violated: "No overflow possible" of `m` (`ABOUT.md:176`); -1 times -1 gives 0 |
| `assembler_claim` | as `assembler` | violated: no errors means a whole program (`asm.h:34`); not when the list of errors cannot be allocated |
| `repl_claim` | as `repl` | violated: a breakpoint stops `run` before its instruction (`repl_test.sh:26`); `break 0000`, `run` executes the `z` at 0000 and halts |
| `stopped_claim` | as `batch` | violated: `STOPPED` is a `z` (`types.h:23`, `display.c:14`); it is also the end of the input |
| `flexowriter_claim` | as `batch` | violated: the code of a digit key enters that digit (`flexowriter.c:75-85`, `flexowriter.h:9-13`); an input keeps the low four bits of `2 + 4 * digit` |

**Bounds, and why they are enough.** Nothing in the code depends on the size of
a field but through the constants, and each small layout has at least one bit
of everything: a sign, a magnitude, all four bits of the opcode, tracks or
sectors, a spacer. In `programs` two characters fill a word, so a word is
empty, half full or full; the tapes have a stop code in the middle, one with
extra high bits, and an end after none, some and all of a word. The clock
(`TICK_RANGE` 32 with a revolution of 6) wraps, and not at a multiple of the
revolution, as in the code. Two instructions are enough for one to rewrite the
other or to jump back to it, and there is no bound on how many steps are taken.

In `assembler` three errors grow a list from nothing to one, two and four
(`FIRST_CAPACITY` is 1 for 8), and a start address of 33 or 17 lies beyond the 16
words of the drum, 33 also beyond the `START_RANGE` of 32 that stands for 2^16. In
`text` a line buffer has 24 characters for 256, and lines of 23 to 25 characters
meet it, with and without a comment; 16 tracks of 4 sectors make each half of an
address fail on its own, and `1503` is the last word. In `repl` a limit of four (for
10^6) is passed by both loops and not by the straight program. In `batch` the
default cap is 8 for 10^6, and caps of 0, 2 and 7 fall before, within and
after the programs' ends; 64 tracks are there because the Flexowriter takes 64
codes from the track of a `p`.

Two properties look at a bounded part of the behaviour: `DrumChargesEachAccess`
where the clock does not wrap, and `PaperOfTheRun` on the Flexowriter.
`MultipliesSplitTheProduct` is about every product: it says of the square of the
most negative number, and of no other, that `m` loses the 1 that it is, which is
the product `arithmetic_claim` finds.

**Deadlock** is checked in every run but the two of `arithmetic`, whose
actions have no instruction after an overflow. A halted machine, a finished
assembler and an exited host have a step that changes nothing, as the code has
a call that returns at once or a process that is gone.

**Fairness.** `RoutineSpec` (in `MCRoutines`) has weak fairness of `Step`: `main`
calls `lgp30_step` in a loop with nothing to wait for (`main.c:106-115`). It is
used with `CAN_BLOCK = FALSE`, since both backends of `io/` answer with a
character or the end; with a backend that blocks for ever no input would end, and
the model says so. `BatchSpec` has the same for the whole of `main`. `ReplSpec` has
weak fairness of the turns of `run` only (`repl.c:73-89`), and none of the
commands, since a user may stop typing. `Spec`, `SpecWithHistory`, `AsmSpec`,
`AsmImageSpec` and `TextSpec` have none: only safety is checked of them.

Every property has a mutant: a plausible slip in the code, such as a count that
is not reset, a dropped mask or an order swapped, under which TLC finds the
property violated.

## Theorems

Proved by TLAPS for every value of the constants that satisfies the stated
assumptions: `LayoutAssumption` (the fields lie as in the diagram), `BitsAssumption`
(the bits of a word are those below its address, in it and above it),
`DrumAssumption` (a revolution fits the clock), `MachineAssumption` (programs come
without spacers), `DigitsAssumption` (the weights of the digits are the powers of
16, and `INPUT_SHIFTS` of them are a word), `NotationAssumption` (two decimal digits
are enough for a track, and for a sector), `FilesAssumption` (a file is one of its
outcomes), `CreatedAssumption` (a host starts with an empty drum),
`BatchReaderAssumption` and `ReplReaderAssumption` (the readers of the hosts do not
block, and the debugger's is empty), `LoaderAssumption` (the loader does not load
over itself) and the typing of programs, texts, files, command lines and caps
(`AssemblerAssumption`, `TextAssumption`, `AsmImageAssumption`, `BatchAssumption`,
`ReplAssumption`). None bounds a size: not of memory, words, tapes, programs, texts,
files, buffers or caps. The machine of the repository is one instance, and TLC
evaluates the assumptions on every run.

*Arithmetic* (`LGP30CPU_proofs`): that the results are right (and that they are
words, which the rest rests on). These are not inductive arguments: an action
property needs the type of the accumulator before the step, then arithmetic.
`AddsLikeAnAdderAlways` compares the signed addition of the code with an adder on
bit patterns by the signs of the operands; `DividesToNearestAlways` goes through the
remainder of the integer division; `MultipliesSplitTheProductAlways` takes the
square of the most negative number apart (`SquareLosesItsTop`).

*Machine* (`LGP30CPU_proofs`): the inductive invariant is

    IInv == TypeOK /\ DrumSpacerClear /\ InputProtocol

`TypeOK` alone is not inductive: the count of characters stays at most
`INPUT_SHIFTS` only because a word in progress has room for one more, which
`InputProtocol` says. `InputProtocol` needs the type of the count, and the
operands of the arithmetic are drum words only by `DrumSpacerClear`. One lemma per
action proves that it keeps `IInv`; `LGP30Types_proofs` has the facts about words
they rest on (a store is a drum word, a merged address stays in its field and
a word stays a word). On top of `IInv`:

- `MidWordAccountingAlways`: shifting one digit in moves each digit up by one
  place, which is where the assumption on the weights is used;
- `OverflowIsEvidentAlways`: a status of `OVERFLOW` comes from one of three
  instructions, none of which moves what it looked at;
- `OnlyInputRaisesSpacerAlways`: every other source of the accumulator is even;
- `AddressStoresKeepOpcodeAlways`: what a merge adds to a word is a multiple of
  `ADDRESS_UNIT` that stays within the field, so no bit below it (`BitBelow`) or above
  it (`BitAbove`) can tell;
- `DrumChargesEachAccessAlways`: the wait ends at the sector
  (`WaitReachesSector`), and two times less than a revolution apart at which the
  same sector is under the heads are equal.

*Refinement* (`LGP30CPU_words_proofs`): `AlwaysReadsWholeWords` is the statement
that the machine, under any host and any reader, implements `WordReader`. The
invariant is `WordInv == IInv /\ HistoryOfWord`: in the middle of a word the reader
stands `input_shift_count` characters after `word_pos`, none of them a stop code,
and the accumulator is `word_acc` with their digits shifted in behind it. That a
shift keeps this is arithmetic on quotients and remainders by powers of 16
(`ModThenDiv`, `ShiftKeepsTop`): what `(accumulator << 4) + digit` leaves above the
digits is what was there, less the digit that fell off. A step that ends a word
then is a `ReadWord`, a reset in the middle of one an abstract `Reset` that loses
fewer than `INPUT_SHIFTS` characters, and a step within a word a stutter.

*The loader of the manual* (also in `LGP30CPU_words_proofs`):
`LoaderAlwaysFillsMemory` is about a program, on a drum of any size and every tape that
fits on it. `LoaderInv` adds to `IInv` that the seven fixed words of the loader are
untouched (`IsLoader`) and that, with n words of the tape on the drum, the machine is
in one of five places: about to ask for a word, within one, holding one, on its way
back while it steps its `c`, or halted at the end (`Asking`, `Reading`, `HasWord`,
`Returning`, `AtEnd`). The words stored so far are above the
loader by `LoaderAssumption` and below the next one, so a store disturbs none of
them; the `c` that is stepped as a number stays a `c` because the addition moves
its address field only.

*Assembler* (`Assembler_proofs`), for every set of programs and a first allocation
of any size: `AsmTypeCorrect`, `ErrorsAlwaysFit` and `ImageNeverHasSpacer` are
inductive together. `AssembledProgramsAreLoadResults` puts them together for the
loader: what `FilesAssumption` takes for granted of the files of both hosts, the
assembler ensures for every program it can be given. What the image holds needs

    ImageInv == ImageHoldsAcceptedLines /\ EarlierLinesTake /\ EveryLineIsAccountedFor

`Accepted` is defined by looking back over the text, the code by looking at what
is assigned: `EarlierLinesTake` (a well-formed line, accepted or not, has its target
taken from then on) is the link, without which a duplicate for the one need not be
one for the other. `WholeWhenMemoryLasts` says that `NoErrorsMeansWhole`, which
`assembler_claim` refutes, does hold when allocation never fails: the dropped
error is the only way to lose a line.

*Text* (`SourceText_proofs`), for every text and every size of the line buffer. The
loops of the code and the sets of the properties are two descriptions of the same
line, and most of the module shows that they agree: the span that begins at the
first character that is no blank, from the end of the last span, is the next field
in the order of columns (`SpansFollowFields`, `TokensAreFields`); digits added up
from the left are the number that prints as them, unless it is too large
(`NumbersMeanTheirText`, which needs that ten more is more, for any number of
digits); four digits are an address if and only if some address prints as them
(`AddressesMeanTheirText`); so `scan` makes of a line what it says (`ScanMeansItsText`).
A recursive function is first shown to exist (`SpansExist`, `BuiltUpExists`), and what
it computes is then found by looking at the first place where it would not
(`UpTo`, `LeastNumber`). The invariant is

    TextInv == AsmInv /\ ImageInv /\ LinesInv

where `LinesInv` says that `p` is where a line starts, or just past the last, that
the lines taken are as many as start before it, and that each is the `scan` of the
line with its number. The assembler's lines are there only as they are taken, so
`TextSpec` is no implementation of `AsmSpec` with one `source`; but a line more
disturbs nothing that is said of the lines before (`AppendKeepsImage`), and the
assembler's own lemmas apply to each of its steps. `ErrorsLead`, of
`Assembler_proofs`, says of each error that its column is that of the first field of
its line at fault, by the lines before it (`Repeats`) and not by what is assigned
(`FaultIn`, `LeadsTo`); `ErrorsAlwaysPointAtTheirFields` carries it to the
characters. `ImageIsAlwaysSpelledByItsText` is the end of that chain: from the
characters of a text to the words of its image.

*Images* (`AsmImage_proofs`): `AsmImageImplementsAsm` carries the assembler's theorems
over by name. The invariant of the file is

    FileInv == FileTypeOK /\ ReadInv /\ WriteInv

`WriteInv`: the lines written are the start, if there is one, and then the assigned
words below `addr` in order; a file that is not whole does not parse, or holds the
words up to some address, of which the last may have lost digits (`CutLines`).
`ReadInv`: after n lines the copy has at each address the last line for it among the
n. `CopyAlwaysSaysWhatFileSays` is the second alone, for any file at all;
`WholeImageAlwaysRoundTrips` and `CutImageIsAlwaysAPart` bring the two together:
lines in the order of their addresses have one line for each, so the last is the one
that was written.

*Debugger* (`Repl_proofs`): the invariant is `ReplInv == IInv /\ ReplTypeOK /\
NeverMidWord /\ RunGoesOn /\ PathOfRun`. The machine's part is `IInv` again, kept by
every call of `lgp30_step`, by a reset and by a load (`LoadPreserves`). `RunGoesOn`
(a run that has executed something has not halted) is needed for "halted if and only
if" in `RunTellsWhyItStoppedAlways`: otherwise the limit could be reported for a
halt. `PathOfRun` says of a run on its way that its path is as long as its turns and
passed no breakpoint after its first instruction (`PassesNone`), from which
`RunHonoursBreakpointsAlways` gets the path of the whole run: the breakpoints do not
change while it lasts, and a breakpoint it stood at with turns to spare ended it.
`NeverMidWordAlways` goes through the end of the reader, which the debugger's
`read_char` gives at once.

*Batch host* (`Batch_proofs`): `BatchInv` adds to `IInv` and the types where each
phase finds the machine: `NotYetRun` (before the run, or the debugger, nothing has
happened to it), `LoopGoesOn` (the loop goes on only below the cap and with the
machine not halted) and `WordIsOfInput` (a word in progress is that of an `i` in the
instruction register, without which the exit code of a halt at the end of the input
could not be told). `WhatHalts` says of the machine which instructions can halt it.
`OptionsAlwaysDecide` compares the loop over the options with the command line as a
whole, through `ParsedSoFar`: what the loop knows after `arg_pos` arguments is what
they say; `ReplIsAlone` keeps the debugger and the loop apart.

`PaperAlwaysMeansItsCodes` has `PaperInv`: on the Flexowriter the shift in force is the
one that looking back over all codes gives, and the paper is the meaning of the
codes so far. One code more adds one meaning at the end of a concatenation
(`FlattenAppend`) and changes none before it.

*The safety half of liveness.* Three theorems say of every step that it brings an
end nearer, without saying that the step is taken. `MainAlwaysNearsItsExit`: what
`main` has before it, until it exits or hands over to the debugger, is a pair of
stages and turns, natural numbers that go down with each step, first the one and
then the other. `RunAlwaysNearsItsReturn`: a step of a run ends it or counts as one
of its `MAX_RUN_STEPS` turns. `InputAlwaysNearsItsEnd`: a step in the middle of a
word ends it, adds one of its at most `INPUT_SHIFTS` characters, or waits for a
reader that blocks and loses nothing.

*Model-checked only.* What fairness adds to those three (`BatchEnds`, `RunReturns`,
`InputTerminates`), and `LoaderHaltsAtEnd` and `CallsReturn`: the prover does no
liveness under fairness. Every other property of a passing run is a theorem.

## Not modelled

The display (`host/cli/display.c`) and everything else that only prints: usage,
`--verbose`, registers, dump and help, the wording of messages. `flush` of a
backend. `lgp30_hex_digit_value`, which only a test calls.

The characters of an image file, of a command line and of a debugger's command:
a line is its form and its numbers. A number of an image that does not fit the
`unsigned` it is scanned into is therefore outside. A command longer than the
debugger's buffer is read as several commands; any sequence of commands is in the
model.

`lgp30_create` returning NULL, which `main` (`main.c:82`) and `repl_main`
(`repl.c:144`) do not look at, and a machine stepped without a backend, which
neither does. A file that shrinks while it is read (`program_loader.c:39`): a file
is its outcome.

Three hazards have no property, since no document says what would be right: the
clock after it has wrapped, the words that a second load leaves of the first, and
a start address of an image that is out of range, which `image_read` cuts to 16
bits.

## Plan

Done, in this order: words, arithmetic, drum; the processor; the abstract
reader and the refinement; the programs of the tests and the manual; their
proofs; the assembler; the loader and the two hosts; the Flexowriter and the
output; the options of `main`; images; the text of programs; the proofs of the
assembler, the refinement and both hosts; the bits a merge keeps; the proofs of
images, of the text, of the paper and of the manual's loader; what the assembler
gives the loader; the safety half of liveness.

Next:

1. `LoaderFillsMemory` for a loader that is itself loaded: `LoaderInit` as what
   `load_program` leaves when the text of the manual is assembled.
2. The calls of `CallsReturn` for every subroutine that keeps its return address:
   what must hold of a program for `r` and `u` to come back.
