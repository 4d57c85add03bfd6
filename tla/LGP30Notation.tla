---------------------------- MODULE LGP30Notation ----------------------------
(***************************************************************************)
(* How words are written: addresses and digits (core/types.h), and the     *)
(* letters of the instructions (core/asm/asm.c).  A character is a string  *)
(* of one; what may not parse is the set of the values it parses to.       *)
(***************************************************************************)
EXTENDS LGP30Types, Sequences

\* The characters for 0 to 9, and for 10 to 15.
HEX_DIGITS ==
  <<"0", "1", "2", "3", "4", "5", "6", "7", "8", "9", "f", "g", "j", "k", "q", "w">>

DecimalDigit == {HEX_DIGITS[d] : d \in 1 .. 10}

\* The value of a decimal digit: text[i] - '0'.
digit(c) == CHOOSE d \in 0 .. 9 : HEX_DIGITS[d + 1] = c

lgp30_hex_digit_char(value) == HEX_DIGITS[(value % 16) + 1]

\* The letters of the opcodes, 0 first.
OPCODE_LETTERS ==
  <<"z", "b", "y", "r", "i", "d", "n", "m", "p", "e", "u", "t", "h", "c", "a", "s">>

opcode_value(c) == {opcode \in 0 .. 15 : OPCODE_LETTERS[opcode + 1] = c}

-----------------------------------------------------------------------------
(* Addresses: two decimal digits of the track, two of the sector.          *)

ASSUME NotationAssumption == TRACKS <= 100 /\ SECTORS <= 100

lgp30_format_address(address) ==
  LET decimal(n) == <<HEX_DIGITS[(n \div 10) + 1], HEX_DIGITS[(n % 10) + 1]>>
  IN decimal(lgp30_track_of(address)) \o decimal(lgp30_sector_of(address))

lgp30_address_from_track_sector(track, sector) ==
  (track * SECTORS + sector) % LGP30_MEMORY_WORDS

\* Mutant of lgp30_parse_address: only the track is checked against its range.
lgp30_parse_address_AnySector(text) ==
  LET track  == 10 * digit(text[1]) + digit(text[2])
      sector == 10 * digit(text[3]) + digit(text[4])
  IN IF (\A i \in 1 .. 4 : text[i] \in DecimalDigit) /\ track < TRACKS
     THEN {lgp30_address_from_track_sector(track, sector)} ELSE {}

lgp30_parse_address(text) ==
  LET track  == 10 * digit(text[1]) + digit(text[2])
      sector == 10 * digit(text[3]) + digit(text[4])
  IN IF (\A i \in 1 .. 4 : text[i] \in DecimalDigit) /\ track < TRACKS /\ sector < SECTORS
     THEN {lgp30_address_from_track_sector(track, sector)} ELSE {}
=============================================================================
