------------------------------ MODULE InFormats ------------------------------
(***************************************************************************)
(* Display::plane_formats_populate: which modifiers a plane takes for      *)
(* XRGB8888, from the IN_FORMATS blob. An entry of the blob says with a    *)
(* 64-bit mask which of the 64 formats from an offset on it is for; the    *)
(* program tests a bit of it with a shift of an int, which has 32 bits.    *)
(* Both widths are parameters.                                             *)
(***************************************************************************)
EXTENDS Integers

CONSTANTS INT_BITS, MASK_BITS

ASSUME WidthsOK ==
  INT_BITS \in Nat /\ MASK_BITS \in Nat /\ 1 < INT_BITS /\ INT_BITS <= MASK_BITS

\* The bits of the mask that an int with bit n set has: its sign bit is
\* extended.
Extended(n) == IF n = INT_BITS - 1 THEN n .. MASK_BITS - 1 ELSE {n}

\* What 1 << n may be. From the width of the int on that is undefined: the
\* processor takes n modulo the width, or shifts the bit out.
OneShifted(n) ==
  IF n < INT_BITS THEN {Extended(n)} ELSE {Extended(n % INT_BITS), {}}

\* Mutant: the first format of the window is left out.
InWindow_open(idx, mod) == idx > mod.offset /\ idx <= mod.offset + MASK_BITS - 1

\* The entry is about format number idx.
InWindow(idx, mod) == idx >= mod.offset /\ idx <= mod.offset + MASK_BITS - 1

\* Whether the program takes the modifier for format idx.
Takes(idx, mod) ==
  IF ~InWindow(idx, mod) THEN {FALSE}
  ELSE {mod.formats \intersect bits # {} : bits \in OneShifted(idx - mod.offset)}

\* The modifiers the program may end up with.
plane_formats_populate(idx, blob_modifiers) ==
  {S \in SUBSET blob_modifiers : \A mod \in blob_modifiers : (mod \in S) \in Takes(idx, mod)}

\* The modifiers KMS takes for format idx (drm_mode.h).
Listed(idx, blob_modifiers) ==
  {mod \in blob_modifiers : idx - mod.offset \in 0 .. MASK_BITS - 1 /\ idx - mod.offset \in mod.formats}

\* The int is wide enough for the place of format idx.
ShiftFits(idx, blob_modifiers) ==
  \A mod \in blob_modifiers : idx - mod.offset < INT_BITS - 1
=============================================================================
