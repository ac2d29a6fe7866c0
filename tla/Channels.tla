------------------------------- MODULE Channels -------------------------------
(***************************************************************************)
(* Frequency slots (src/src/protocol/channels.py), in Hz.  The hash of a   *)
(* channel name is some natural number.                                    *)
(***************************************************************************)
EXTENDS Integers

US915_BASE_FREQ_HZ == 902000000
US915_END_FREQ_HZ == 928000000

(* CHANNEL_PRESETS, by their bandwidth.                                    *)
Bandwidth ==
  [SHORT_TURBO |-> 500000, SHORT_FAST |-> 250000, SHORT_SLOW |-> 250000,
   MEDIUM_FAST |-> 250000, MEDIUM_SLOW |-> 250000, LONG_FAST |-> 250000,
   LONG_MODERATE |-> 125000, LONG_SLOW |-> 125000]

Presets == DOMAIN Bandwidth

NumSlots(bw) == (US915_END_FREQ_HZ - US915_BASE_FREQ_HZ) \div bw

SlotFrequency(bw, slot) == US915_BASE_FREQ_HZ + slot * bw + (bw \div 2)

(* Slots counted from 1.                                                   *)
MutGetFrequency(preset, choice) ==
  LET bw == Bandwidth[preset] IN SlotFrequency(bw, (choice % NumSlots(bw)) + 1)

(* get_frequency_hz: the choice is the slot asked for, or the hash of the  *)
(* channel name.                                                           *)
GetFrequency(preset, choice) ==
  LET bw == Bandwidth[preset] IN SlotFrequency(bw, choice % NumSlots(bw))

AllSlotFrequencies(preset) ==
  LET bw == Bandwidth[preset]
  IN  {SlotFrequency(bw, s) : s \in 0 .. NumSlots(bw) - 1}
===============================================================================
