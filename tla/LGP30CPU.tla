------------------------------ MODULE LGP30CPU ------------------------------
(***************************************************************************)
(* The machine (core/cpu.c): one step of Step is one call of lgp30_step.   *)
(* A call executes a whole instruction, except that `i 0000` takes one     *)
(* call per character: the machine is then in the middle of a word, and    *)
(* the host may reset it, or find that no character has arrived.           *)
(*                                                                         *)
(* The I/O backend is modelled by what io.h promises of it: read_char      *)
(* delivers the characters of a tape, reports its end, or would block.     *)
(***************************************************************************)
EXTENDS LGP30Arithmetic, LGP30Drum, Sequences

CONSTANTS
  INPUT_SHIFTS,    \* 8: the characters that fill the accumulator
  DIGIT_WEIGHTS,   \* [0 .. 8 -> 16^0 .. 16^8]: of the digits of a word
  INPUT_STOP_CODE, \* 32: the Flexowriter's "Cond Stop"
  Images,          \* the memory images a program may start from
  StartAddresses,  \* the addresses it may start at
  Tapes,           \* the character sequences the reader may hold
  CAN_BLOCK        \* whether read_char may answer "would block"

VARIABLES
  memory,               \* the words on the drum
  counter,              \* the address of the next instruction
  instruction_register, \* the instruction executed last
  drum_ticks,           \* the time, and with it the position of the drum
  input_in_progress,    \* in the middle of an `i 0000`
  input_shift_count,    \* the characters it has shifted in
  tape, tape_pos,       \* the reader: its characters, and how many are read
  printed               \* the code the printer received last

drumVars == <<counter, instruction_register, drum_ticks>>
inputVars == <<input_in_progress, input_shift_count, tape_pos>>
vars == <<memory, accumulator, status, drumVars, inputVars, tape, printed>>

PrintCode == 0 .. TRACKS - 1
NoCode == -1

\* A program loaded from source has no spacer bits: the assembler sets none.
ASSUME MachineAssumption ==
  /\ Images \subseteq [Address -> DrumWord]
  /\ StartAddresses \subseteq Address
  /\ Tapes \subseteq Seq(Nat)
  /\ CAN_BLOCK \in BOOLEAN

\* The weights are the powers of sixteen, and INPUT_SHIFTS digits fill the
\* accumulator: 8 * 4 bits are the 32 of a word.
ASSUME DigitsAssumption ==
  /\ INPUT_SHIFTS \in Nat \ {0}
  /\ DIGIT_WEIGHTS \in [0 .. INPUT_SHIFTS -> Nat \ {0}]
  /\ DIGIT_WEIGHTS[0] = 1 /\ DIGIT_WEIGHTS[1] = 16
  /\ DIGIT_WEIGHTS[INPUT_SHIFTS] = WORD_SIZE
  /\ \A k \in 0 .. INPUT_SHIFTS : \A i \in 0 .. k :
       DIGIT_WEIGHTS[k] = DIGIT_WEIGHTS[i] * DIGIT_WEIGHTS[k - i]

Halted == status \in {"STOPPED", "OVERFLOW"}

\* lgp30_create, a program loaded into the machine and a backend attached.
Init ==
  /\ memory \in Images
  /\ counter \in StartAddresses
  /\ tape \in Tapes
  /\ accumulator = 0
  /\ instruction_register = 0
  /\ drum_ticks = 0
  /\ input_in_progress = FALSE
  /\ input_shift_count = 0
  /\ status = "RUNNING"
  /\ tape_pos = 0
  /\ printed = NoCode

-----------------------------------------------------------------------------
(* Fetching.  What a call of lgp30_step does before it dispatches.         *)

instr == memory[counter]
addr == lgp30_instruction_address(instr)
fetchTime == AccessTime(drum_ticks, counter)
operandTime == AccessTime(fetchTime, addr)

\* Mutant of nextCounter: the counter runs off the end of memory.
nextCounter_Unwrapped == counter + 1

nextCounter == (counter + 1) % LGP30_MEMORY_WORDS

\* The instruction at the counter is executed, and it is an `opcode`.
Executing(opcode) ==
  /\ ~Halted
  /\ ~input_in_progress
  /\ lgp30_opcode(instr) = opcode
  /\ instruction_register' = instr
  /\ UNCHANGED tape

\* The counter moves on, the instruction reads or writes one word of the drum.
Accesses == counter' = nextCounter /\ drum_ticks' = operandTime

Runs == status' = "RUNNING"

\* The accumulator takes a new value made from the operand; see the arithmetic.
OperandRead ==
  /\ Accesses
  /\ UNCHANGED <<memory, inputVars, printed>>

\* Mutant of Stores: the word goes to the drum with its spacer as it is.
Stores_Unmasked(word) ==
  /\ Accesses
  /\ Runs
  /\ memory' = [memory EXCEPT ![addr] = word]
  /\ UNCHANGED <<inputVars, printed>>

\* drum_write and rmw_poke: the operand is replaced, its spacer cleared.
Stores(word) ==
  /\ Accesses
  /\ Runs
  /\ memory' = [memory EXCEPT ![addr] = lgp30_mask_spacer(word)]
  /\ UNCHANGED <<inputVars, printed>>

-----------------------------------------------------------------------------
(* The instructions that reach the drum for an operand.                    *)

op_bring ==
  /\ Executing(1)
  /\ OperandRead
  /\ Runs
  /\ accumulator' = memory[addr]

op_store_address ==
  /\ Executing(2)
  /\ Stores(ReplaceAddress(memory[addr], lgp30_instruction_address(accumulator)))
  /\ UNCHANGED accumulator

\* Mutant of op_return_address: the counter, already advanced, is stored as is.
op_return_address_ToTransfer ==
  /\ Executing(3)
  /\ Stores(ReplaceAddress(memory[addr], nextCounter))
  /\ UNCHANGED accumulator

\* The counter already points past the instruction: one more skips the
\* transfer that follows it.
op_return_address ==
  /\ Executing(3)
  /\ Stores(ReplaceAddress(memory[addr], (nextCounter + 1) % LGP30_MEMORY_WORDS))
  /\ UNCHANGED accumulator

op_divide == Executing(5) /\ OperandRead /\ Divide(memory[addr])

op_n_multiply == Executing(6) /\ OperandRead /\ NMultiply(memory[addr])

op_m_multiply == Executing(7) /\ OperandRead /\ MMultiply(memory[addr])

op_extract == Executing(9) /\ OperandRead /\ Extract(memory[addr])

op_hold_and_store ==
  /\ Executing(12)
  /\ Stores(accumulator)
  /\ UNCHANGED accumulator

\* Mutant of op_clear_and_store: the accumulator is cleared before the store.
op_clear_and_store_ClearFirst ==
  /\ Executing(13)
  /\ Stores(0)
  /\ accumulator' = 0

op_clear_and_store ==
  /\ Executing(13)
  /\ Stores(accumulator)
  /\ accumulator' = 0

op_add == Executing(14) /\ OperandRead /\ Add(memory[addr])

op_subtract == Executing(15) /\ OperandRead /\ Subtract(memory[addr])

-----------------------------------------------------------------------------
(* The instructions that use the operand address as such, and never wait   *)
(* for the drum to bring the word it names.                                *)

\* The next instruction is at the destination.
Transfers(destination) ==
  /\ counter' = destination
  /\ drum_ticks' = fetchTime
  /\ UNCHANGED <<memory, accumulator, inputVars>>

op_stop ==
  /\ Executing(0)
  /\ Transfers(nextCounter)
  /\ status' = "STOPPED"
  /\ UNCHANGED printed

\* The track of the operand is the code of the character to print.
op_print ==
  /\ Executing(8)
  /\ Transfers(nextCounter)
  /\ Runs
  /\ printed' = lgp30_track_of(addr)

op_unconditional_transfer ==
  /\ Executing(10)
  /\ Transfers(addr)
  /\ Runs
  /\ UNCHANGED printed

SignBit(w) == w >= WORD_SIZE \div 2

op_test ==
  /\ Executing(11)
  /\ Transfers(IF SignBit(accumulator) THEN addr ELSE nextCounter)
  /\ Runs
  /\ UNCHANGED printed

-----------------------------------------------------------------------------
(* Input.  The reader's answer to one read_char, when `count` characters   *)
(* of the word are in the accumulator.                                     *)

Character == tape[tape_pos + 1]

\* Mutant of IsStopCode: the low six bits are not singled out.
IsStopCode_AllBits(c) == c = INPUT_STOP_CODE

IsStopCode(c) == c % 64 = INPUT_STOP_CODE

ReaderBlocks(count) ==
  /\ CAN_BLOCK
  /\ status' = "WAITING_FOR_IO"
  /\ input_in_progress' = TRUE
  /\ input_shift_count' = count
  /\ UNCHANGED <<accumulator, tape_pos>>

\* Mutants of ReaderAtEnd: the end is taken for "would block"; the machine
\* halts but stays in the middle of its word; the word ends but the machine
\* does not halt.
ReaderAtEnd_Waits(count) ==
  /\ tape_pos = Len(tape)
  /\ status' = "WAITING_FOR_IO"
  /\ input_in_progress' = TRUE
  /\ input_shift_count' = count
  /\ UNCHANGED <<accumulator, tape_pos>>

ReaderAtEnd_StaysInWord(count) ==
  /\ tape_pos = Len(tape)
  /\ status' = "STOPPED"
  /\ input_in_progress' = TRUE
  /\ input_shift_count' = count
  /\ UNCHANGED <<accumulator, tape_pos>>

ReaderAtEnd_KeepsRunning(count) ==
  /\ tape_pos = Len(tape)
  /\ Runs
  /\ input_in_progress' = FALSE
  /\ input_shift_count' = count
  /\ UNCHANGED <<accumulator, tape_pos>>

ReaderAtEnd(count) ==
  /\ tape_pos = Len(tape)
  /\ status' = "STOPPED"
  /\ input_in_progress' = FALSE
  /\ input_shift_count' = count
  /\ UNCHANGED <<accumulator, tape_pos>>

ReaderStops(count) ==
  /\ tape_pos < Len(tape)
  /\ IsStopCode(Character)
  /\ Runs
  /\ tape_pos' = tape_pos + 1
  /\ input_in_progress' = FALSE
  /\ input_shift_count' = count
  /\ UNCHANGED accumulator

ReaderShifts(count) ==
  /\ tape_pos < Len(tape)
  /\ ~IsStopCode(Character)
  /\ Runs
  /\ tape_pos' = tape_pos + 1
  /\ accumulator' = ((accumulator * 16) % WORD_SIZE) + (Character % 16)
  /\ input_shift_count' = count + 1
  /\ input_in_progress' = (count + 1 < INPUT_SHIFTS)

op_input_continue(count) ==
  /\ ReaderBlocks(count) \/ ReaderAtEnd(count) \/ ReaderStops(count) \/ ReaderShifts(count)
  /\ UNCHANGED <<memory, printed>>

\* Mutant of op_input: the count of the word before is left in place.
op_input_StaleCount ==
  /\ Executing(4)
  /\ counter' = nextCounter
  /\ drum_ticks' = fetchTime
  /\ op_input_continue(input_shift_count)

op_input ==
  /\ Executing(4)
  /\ counter' = nextCounter
  /\ drum_ticks' = fetchTime
  /\ op_input_continue(0)

\* A call in the middle of a word asks for its next character.
ContinueInput ==
  /\ ~Halted
  /\ input_in_progress
  /\ op_input_continue(input_shift_count)
  /\ UNCHANGED <<drumVars, tape>>

-----------------------------------------------------------------------------
(* The machine.                                                            *)

\* A call on a halted machine only says that it is halted.
HaltedStep == Halted /\ UNCHANGED vars

Step ==
  \/ HaltedStep
  \/ ContinueInput
  \/ op_stop \/ op_bring \/ op_store_address \/ op_return_address
  \/ op_input \/ op_divide \/ op_n_multiply \/ op_m_multiply
  \/ op_print \/ op_extract \/ op_unconditional_transfer \/ op_test
  \/ op_hold_and_store \/ op_clear_and_store \/ op_add \/ op_subtract

\* lgp30_reset: the program and the reader stay as they are.
Reset ==
  /\ accumulator' = 0
  /\ counter' = 0
  /\ instruction_register' = 0
  /\ drum_ticks' = 0
  /\ input_in_progress' = FALSE
  /\ input_shift_count' = 0
  /\ status' = "RUNNING"
  /\ UNCHANGED <<memory, tape, tape_pos, printed>>

Next == Step \/ Reset

Spec == Init /\ [][Next]_vars

-----------------------------------------------------------------------------
(* Properties.                                                             *)

\* Every variable holds a value its C type and its use in the code allow.
TypeOK ==
  /\ memory \in [Address -> Word]
  /\ accumulator \in Word
  /\ counter \in Address
  /\ instruction_register \in Word
  /\ drum_ticks \in Ticks
  /\ input_in_progress \in BOOLEAN
  /\ input_shift_count \in 0 .. INPUT_SHIFTS
  /\ status \in Status
  /\ tape \in Tapes
  /\ tape_pos \in 0 .. Len(tape)
  /\ printed \in PrintCode \cup {NoCode}

\* "Every drum_write() must apply this" (types.h:94): whatever a program does
\* with the accumulator, whose spacer an input may set, the spacer of every
\* word on the drum stays 0.
DrumSpacerClear == memory \in [Address -> DrumWord]

\* The three variables that say where an `i 0000` stands agree (types.h:42,
\* cpu.c:128): a word in progress has room for its next character and the
\* machine has not halted under it, and the machine waits only for a word.
InputProtocol ==
  /\ input_in_progress => ~Halted /\ input_shift_count < INPUT_SHIFTS
  /\ status = "WAITING_FOR_IO" => input_in_progress

\* In the middle of a word the low digits of the accumulator are exactly the
\* characters read since the `i 0000`, in order, and none was a stop code:
\* no retry after "would block" and no return to the host drops a character
\* or shifts one in twice (cpu.c:128-152).
MidWordAccounting ==
  input_in_progress =>
    /\ input_shift_count <= tape_pos
    /\ \A k \in 0 .. input_shift_count - 1 :
         /\ (accumulator \div DIGIT_WEIGHTS[k]) % 16 = tape[tape_pos - k] % 16
         /\ tape[tape_pos - k] % 64 # INPUT_STOP_CODE

\* A machine that halted with OVERFLOW still holds the operands that made it
\* overflow: the instruction in the register, on the accumulator and the word
\* it addresses, has a result that is not a number (cpu.c:198-214, 258-283).
OverflowIsEvident ==
  status = "OVERFLOW" =>
    LET x == memory[lgp30_instruction_address(instruction_register)]
        opcode == lgp30_opcode(instruction_register)
        a == lgp30_word_to_signed(accumulator)
        b == lgp30_word_to_signed(x)
    IN \/ opcode = 14 /\ a + b \notin Number
       \/ opcode = 15 /\ a - b \notin Number
       \/ opcode = 5 /\ QuotientReachesOne(MagnitudeOf(accumulator), MagnitudeOf(x))

\* Only the reader can raise the accumulator's spacer (types.h:94-97): any
\* other change of the accumulator leaves it 0.
OnlyInputRaisesSpacer ==
  [][accumulator' # accumulator /\ tape_pos' = tape_pos => accumulator' % 2 = 0]_vars

\* The address field, as the set of its bit weights.
AddressBits ==
  {b \in BIT_WEIGHTS : ADDRESS_UNIT <= b /\ b < ADDRESS_UNIT * LGP30_MEMORY_WORDS}

\* "y" and "r" change one word, and in it nothing but the address field and
\* the spacer (cpu.c:89-113): a self-modifying program can step the addresses
\* of an instruction through the whole memory and never change what it does.
AddressStoresKeepOpcode ==
  [][lgp30_opcode(instruction_register') \in {2, 3} =>
       \A a \in Address : memory'[a] # memory[a] =>
         /\ a = lgp30_instruction_address(instruction_register')
         /\ BitsOf(memory'[a]) \ AddressBits = BitsOf(memory[a]) \ (AddressBits \cup {1})]_vars

\* The heads reach the start of a sector at t.
Under(t, sector) == t % TICKS_PER_REVOLUTION = sector * TICKS_PER_SECTOR

\* The first time from t on at which they do.
NextVisit(t, sector) ==
  CHOOSE u \in t .. t + TICKS_PER_REVOLUTION - 1 : Under(u, sector)

OperandOpcodes == {1, 2, 3, 5, 6, 7, 9, 12, 13, 14, 15}

\* An instruction takes the time of one visit of the heads to its own sector
\* and, when it has an operand on the drum, of one more to the operand's --
\* the next visit, not a later one, and a store waits only once (drum.h:18-25,
\* cpu.c:69-79).  The clock is compared where it does not wrap.
DrumChargesEachAccess ==
  [][/\ ~Halted /\ ~input_in_progress /\ ~Reset
     /\ drum_ticks + 2 * TICKS_PER_REVOLUTION <= TICK_RANGE
     => LET fetched == NextVisit(drum_ticks, lgp30_sector_of(counter))
        IN drum_ticks' =
             IF lgp30_opcode(memory[counter]) \in OperandOpcodes
             THEN NextVisit(fetched, lgp30_sector_of(lgp30_instruction_address(memory[counter])))
             ELSE fetched]_vars

\* "z (stop) instruction executed" (types.h:23), which is also what the hosts
\* print of a machine that is STOPPED (display.c:14).
StoppedMeansZ == status = "STOPPED" => lgp30_opcode(instruction_register) = 0

\* A program that asks for a word does not wait for ever: with a backend that
\* never blocks, as both of io/ are, every `i 0000` comes to its end.
InputTerminates == input_in_progress ~> ~input_in_progress
=============================================================================
