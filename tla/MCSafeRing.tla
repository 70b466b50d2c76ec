----------------------------- MODULE MCSafeRing -----------------------------
(* Instances of SafeRing for TLC: four cells, and counters that wrap around  *)
(* after four times the ring.                                                *)
EXTENDS SafeRing
=============================================================================
