------------------------------- MODULE MCBackhaul -------------------------------
(* Instances of Backhaul for TLC: times in units of ten seconds, and days  *)
(* of at most two chunks.                                                  *)
EXTENDS Backhaul

CONSTANTS old, new, junk

MCRequests == {<<old, junk, new>>, <<junk, new, new, old>>}

ASSUME MCPatient == Patient

=============================================================================
