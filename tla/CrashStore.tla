------------------------------ MODULE CrashStore ------------------------------
(***************************************************************************)
(* What the database promises about writes and crashes, without files: a   *)
(* set of stored writes, of which some have been acknowledged and some of  *)
(* those with sync.  A crash of the process loses nothing; a crash of the  *)
(* machine may lose any write that was not acknowledged with sync.         *)
(* WriteOptions::sync in options.h states this contract.                   *)
(***************************************************************************)
CONSTANT Writes
VARIABLES stored, acked, ackedSync
vars == <<stored, acked, ackedSync>>

Init == stored = {} /\ acked = {} /\ ackedSync = {}

\* A write reaches the store, before anyone is told.
Store(w) ==
  /\ w \notin stored
  /\ stored' = stored \cup {w} /\ UNCHANGED <<acked, ackedSync>>

\* Write returns OK.  Only a stored write is acknowledged.
Acknowledge(w, sync) ==
  /\ w \in stored \ acked
  /\ acked' = acked \cup {w}
  /\ ackedSync' = IF sync THEN ackedSync \cup {w} ELSE ackedSync
  /\ UNCHANGED stored

\* The machine crashes; what was acknowledged without sync is not owed any more.
MachineCrash ==
  /\ stored' \in SUBSET stored /\ ackedSync \subseteq stored'
  /\ acked' = ackedSync /\ UNCHANGED ackedSync

Next ==
  \/ \E w \in Writes : Store(w)
  \/ \E w \in Writes, sync \in BOOLEAN : Acknowledge(w, sync)
  \/ MachineCrash
Spec == Init /\ [][Next]_vars
=============================================================================
