----------------------------- MODULE LGP30Types -----------------------------
(***************************************************************************)
(* The LGP-30 word, its fields and its numbers (core/types.h).             *)
(*                                                                         *)
(* A word is a natural number below WORD_SIZE, as word32 is in C.  Masks   *)
(* and shifts are written as \div and %, so that the layout is a matter of *)
(* constants: the values in the comments are those of core/types.h, and a  *)
(* small instance keeps the same fields in the same order in fewer bits.   *)
(***************************************************************************)
EXTENDS Integers

CONSTANTS
  MAGNITUDE,    \* 2^30: one more than the largest magnitude of a number
  BIT_WEIGHTS,  \* {2^0, ..., 2^31}: the weight of each bit of a word
  TRACKS,       \* 64 tracks on the drum
  SECTORS,      \* LGP30_SECTORS_PER_REVOLUTION: 64 sectors on a track
  ADDRESS_UNIT, \* 2^3: weight of the lowest bit of the address field
  OPCODE_UNIT   \* 2^17: weight of the lowest bit of the opcode field

WORD_SIZE == 4 * MAGNITUDE  \* sign, magnitude bits, spacer: 2^32
Word == 0 .. WORD_SIZE - 1
DrumWord == {w \in Word : w % 2 = 0}  \* bit 0, the spacer, is 0 on the drum

LGP30_MEMORY_WORDS == TRACKS * SECTORS
Address == 0 .. LGP30_MEMORY_WORDS - 1

(***************************************************************************)
(* The layout of the diagram at core/types.h:57-66: the bit weights are    *)
(* the powers of two below WORD_SIZE, the spacer lies under the address    *)
(* field, that under the opcode field, and that under the sign bit.        *)
(***************************************************************************)
ASSUME LayoutAssumption ==
  /\ {MAGNITUDE, TRACKS, SECTORS, ADDRESS_UNIT, OPCODE_UNIT} \subseteq Nat \ {0}
  /\ BIT_WEIGHTS \subseteq Nat \ {0}
  /\ 1 \in BIT_WEIGHTS
  /\ \A b \in BIT_WEIGHTS : 2 * b \in BIT_WEIGHTS \cup {WORD_SIZE}
  /\ ADDRESS_UNIT % 2 = 0
  /\ OPCODE_UNIT % (ADDRESS_UNIT * LGP30_MEMORY_WORDS) = 0
  /\ (2 * MAGNITUDE) % (16 * OPCODE_UNIT) = 0
  /\ WORD_SIZE % (ADDRESS_UNIT * LGP30_MEMORY_WORDS) = 0

\* The bits of a word are those below the address, those of it and those above:
\* each weight below divides the address's unit, each above is a multiple of the
\* size of the field.
ASSUME BitsAssumption ==
  \A b \in BIT_WEIGHTS :
    /\ b = 1 \/ b % 2 = 0
    /\ b < ADDRESS_UNIT => ADDRESS_UNIT % (2 * b) = 0
    /\ b >= ADDRESS_UNIT * LGP30_MEMORY_WORDS => b % (ADDRESS_UNIT * LGP30_MEMORY_WORDS) = 0

-----------------------------------------------------------------------------
(* The instruction fields.                                                 *)

lgp30_opcode(w) == (w \div OPCODE_UNIT) % 16

lgp30_instruction_address(w) == (w \div ADDRESS_UNIT) % LGP30_MEMORY_WORDS

lgp30_track_of(address) == (address \div SECTORS) % TRACKS

lgp30_sector_of(address) == address % SECTORS

\* For an opcode and an address in range, which its callers ensure: its masks cut
\* nothing.
lgp30_make_instruction(opcode, address) ==
  opcode * OPCODE_UNIT + address * ADDRESS_UNIT

\* Mutant of ReplaceAddress: the sum carries out of the field into the opcode.
ReplaceAddress_Carry(w, address) == (w + ADDRESS_UNIT * address) % WORD_SIZE

\* The word w with another address in its address field: the masked merge of
\* the store-address and return-address instructions.
ReplaceAddress(w, address) ==
  w + ADDRESS_UNIT * (address - lgp30_instruction_address(w))

\* Mutant of lgp30_mask_spacer: the bit above the spacer is cleared instead.
lgp30_mask_spacer_WrongBit(w) == w - (2 * ((w \div 2) % 2))

\* A word as the drum keeps it: bit 0, the spacer, is always 0.
lgp30_mask_spacer(w) == w - (w % 2)

-----------------------------------------------------------------------------
(* Numbers: bits 31..1 of a word hold a 31-bit two's complement number.    *)

lgp30_word_to_signed(w) ==
  LET v31 == w \div 2
  IN IF v31 >= MAGNITUDE THEN v31 - 2 * MAGNITUDE ELSE v31

\* Mutant of lgp30_word_from_signed: the number is not moved over the spacer.
lgp30_word_from_signed_Unshifted(value) == value % (2 * MAGNITUDE)

\* For a value in -MAGNITUDE .. MAGNITUDE - 1, which its callers ensure.
lgp30_word_from_signed(value) == 2 * (value % (2 * MAGNITUDE))

-----------------------------------------------------------------------------
(* The & of C on two words: the largest word whose bits are set in both.   *)

BitsOf(w) == {b \in BIT_WEIGHTS : (w \div b) % 2 = 1}

CommonParts(x, y) == {z \in 0 .. y : BitsOf(z) \subseteq BitsOf(x) \cap BitsOf(y)}

BitAnd(x, y) == CHOOSE z \in CommonParts(x, y) : \A u \in CommonParts(x, y) : u <= z
=============================================================================
