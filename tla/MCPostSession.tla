---------------------------- MODULE MCPostSession ----------------------------
(* Small instances of PostSession for TLC. *)
EXTENDS PostSession, TLC

MCSymmetry == Permutations(Publishers)

\* The clock moves at most once between two calls; ids in between come from counting on.
MCClock == {2, 4}
MCStillClock == {2}

\* Loss lists: one lost frame; and with it an empty list and one with an index that does not exist.
MCLost == {{1}}
MCAnyLoss == {{}, {0}, {0, 2}}
=============================================================================
