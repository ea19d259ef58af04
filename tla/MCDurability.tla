----------------------------- MODULE MCDurability -----------------------------
(* Scenarios for Durability. *)
EXTENDS Durability

Plain == [crashes |-> 1, files |-> MaxFile, MemRecords |-> 0, SyncOptions |-> {FALSE},
          ReuseLogs |-> FALSE, Fresh |-> FALSE, ProcessCrashes |-> TRUE,
          MachineCrashes |-> FALSE, TornRecords |-> FALSE, SyncCommitsDir |-> TRUE,
          EnvErrors |-> FALSE, NestedFlush |-> TRUE, Iterators |-> FALSE]
OfMachine == [Plain EXCEPT !.ProcessCrashes = FALSE, !.MachineCrashes = TRUE,
                           !.SyncOptions = BOOLEAN]

\* A new database whose process stops, a machine that stops, failing writes beside
\* iterators, failing writes that may cut a record, and logs that are reused.  Each has the
\* numbers it takes to reach a recovery after a flush and a compaction.
NewDatabase == [Plain EXCEPT !.Fresh = TRUE, !.TornRecords = TRUE, !.files = 8]
Machine     == [OfMachine EXCEPT !.TornRecords = TRUE, !.files = 9]
Errors      == [Plain EXCEPT !.EnvErrors = TRUE, !.Iterators = TRUE]
CutErrors   == [Plain EXCEPT !.EnvErrors = TRUE, !.TornRecords = TRUE,
                             !.NestedFlush = FALSE, !.files = 9]
Reuse       == [Plain EXCEPT !.ReuseLogs = TRUE, !.crashes = 2, !.MemRecords = 1,
                             !.files = 8]
Kept        == {NewDatabase, Machine, Errors, CutErrors, Reuse}

\* Scenarios that break a promise.
CutEdit     == {[Plain EXCEPT !.EnvErrors = TRUE, !.TornRecords = TRUE]}
TornReused  == {[Plain EXCEPT !.ReuseLogs = TRUE, !.crashes = 2, !.TornRecords = TRUE]}
OnlyMachine == {OfMachine}
NewMachine  == {[OfMachine EXCEPT !.Fresh = TRUE]}
===============================================================================
