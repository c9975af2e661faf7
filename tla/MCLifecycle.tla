---- MODULE MCLifecycle ----
(* Lifecycle with interchangeable meters. *)
EXTENDS Lifecycle, TLC

MCSymmetry == Permutations(Meters)
====
