---------------------------- MODULE MCCoreTrack -----------------------------
(* Instances of CoreTrack for TLC. *)
EXTENDS CoreTrack, TLC

\* Friday 09:00 and 13:30, and the following Monday 09:00.
Weekend == {6300, 6570, 10620}

Symmetry == Permutations(Procs) \cup Permutations(Intents)
                \cup Permutations(Owners) \cup Permutations(Symbols)
                \cup Permutations(Keys)

=============================================================================
