----------------------------- MODULE LGP30Drum -----------------------------
(***************************************************************************)
(* The rotation of the drum (core/drum.c): where the heads stand at a time *)
(* and how long a word takes to arrive.  drum_ticks is the machine's only  *)
(* clock, so the position of the heads is a function of the time.          *)
(***************************************************************************)
EXTENDS LGP30Types

CONSTANTS
  TICKS_PER_SECTOR, \* 265625 nanoseconds
  TICK_RANGE        \* 2^64: drum_ticks is a uint64_t and wraps

TICKS_PER_REVOLUTION == TICKS_PER_SECTOR * SECTORS

\* The clock can tell the instants of one revolution apart.
ASSUME DrumAssumption ==
  /\ TICKS_PER_SECTOR \in Nat \ {0}
  /\ TICK_RANGE \in Nat
  /\ TICKS_PER_REVOLUTION <= TICK_RANGE

Ticks == 0 .. TICK_RANGE - 1

-----------------------------------------------------------------------------
\* Mutant of drum_wait_for_sector: a sector already under its head is taken
\* for one that has just gone by.
drum_wait_for_sector_Strict(ticks, sector) ==
  LET current_position == ticks % TICKS_PER_REVOLUTION
      target_position  == sector * TICKS_PER_SECTOR
  IN IF target_position > current_position
     THEN target_position - current_position
     ELSE TICKS_PER_REVOLUTION - current_position + target_position

\* The ticks until the start of the sector comes under the heads.
drum_wait_for_sector(ticks, sector) ==
  LET current_position == ticks % TICKS_PER_REVOLUTION
      target_position  == sector * TICKS_PER_SECTOR
  IN IF target_position >= current_position
     THEN target_position - current_position
     ELSE TICKS_PER_REVOLUTION - current_position + target_position

\* The time at which an access to the address, begun at ticks, takes place.
AccessTime(ticks, address) ==
  (ticks + drum_wait_for_sector(ticks, lgp30_sector_of(address))) % TICK_RANGE
=============================================================================
