----------------------------- MODULE MCWritePath -----------------------------
(* Instances of WritePath for TLC.                                         *)
EXTENDS WritePath, TLC

\* A batch that fits twice into a small group, and one over 128 KiB.  One batch
\* fills the memtable.
SmallAndLarge == {[size |-> 1, count |-> 1], [size |-> 3, count |-> 2]}
OneBatch      == {[size |-> 1, count |-> 1]}

Symmetry == Permutations(Writers) \cup Permutations(Compactors)
=============================================================================
