-------------------------------- MODULE Ycsb --------------------------------
(***************************************************************************)
(* The benchmark driver: main and DelegateClient of ycsbc.cc, the client   *)
(* (core/client.h), the workload with its generators (core/core_workload.* *)
(* and the generators of core/) and the in-memory store it can drive       *)
(* (db/hashtable_db.cc over lib/lock_stl_hashtable.h).  Each operation of  *)
(* a locked hash table is one step; the operations of the store are        *)
(* several, with no lock held in between.                                  *)
(*                                                                         *)
(* A record has one field (FIELD_COUNT_DEFAULT).  A value is the thread    *)
(* that wrote it and the number of its operation.                          *)
(***************************************************************************)
EXTENDS Integers, FiniteSets, FiniteSetsExt, Functions

CONSTANTS YcsbThreads,    \* the threads of a phase: threadcount of them
          YcsbConfigs     \* property files: records of recordcount (records),
                          \* operationcount (operations), requestdistribution
                          \* (dist), op_count * insert_proportion * 2 (new),
                          \* readTheadNums (readers), skipratioinload (skip)
                          \* and adjustfilter (adjust)

VARIABLES yPhase,   \* "load", "run" or "done", which run, and the properties
          yClient,  \* per thread: DelegateClient's and its operation's locals
          yWl,      \* the CoreWorkload: key_generator_
          yKeys,    \* key_table_: key -> field table
          yTables,  \* the value of the field in every field table, or none
          yOps,     \* ops[READ], ops[INSERT], ops[ALL], ops[THREAD0 + t_id]
          thread_id,
          yAcked    \* history: what DoInsert acknowledged, key -> value

yVars == <<yPhase, yClient, yWl, yKeys, yTables, yOps, thread_id, yAcked>>

NumThreads == Cardinality(YcsbThreads)
NoValue == <<0, 0>>
IdleClient == [pc |-> "start", id |-> 0, type |-> 0, i |-> 0, op |-> "none",
               key |-> 0, table |-> 0, ok |-> FALSE, oks |-> 0]
NoOps == [READ |-> 0, INSERT |-> 0, ALL |-> 0, other |-> 0, thread |-> << >>]

(* CoreWorkload::Init: a new workload starts its keys at insertstart. *)
NewWorkload == 0

yInit ==
  /\ yPhase \in [name : {"load"}, run : {0}, props : YcsbConfigs]
  /\ yClient = [t \in YcsbThreads |-> IdleClient]
  /\ yWl = NewWorkload
  /\ yKeys = << >>
  /\ yTables = << >>
  /\ yOps = NoOps
  /\ thread_id = 0
  /\ yAcked = << >>

(* The operations of a thread; the remainder of the division is not done. *)
Ops == (IF yPhase.name = "load" THEN yPhase.props.records ELSE yPhase.props.operations) \div NumThreads

Put(f, x, v) == [y \in DOMAIN f \cup {x} |-> IF y = x THEN v ELSE f[y]]

-----------------------------------------------------------------------------
(* Keys *)

NextSequenceKey(t) == yWl

(* insert_key_sequence_ is set to record_count_ and never moves. *)
LastInserted == yPhase.props.records - 1

(* The numbers a generator can yield.  ZipfianGenerator over num items     *)
(* (its minimum is 0 here), scattered by a hash or counted from the last.  *)
Zipfian(num) == 0 .. num - 1
ScrambledZipfian(num) == Zipfian(num)
SkewedLatest(max) == {max - z : z \in Zipfian(max)}
HotspotInteger(lower, upper) == lower .. upper

KeyChooser ==
  CASE yPhase.props.dist = "uniform" -> 0 .. yPhase.props.records - 1
    [] yPhase.props.dist = "zipfian" -> ScrambledZipfian(yPhase.props.records + yPhase.props.new)
    [] yPhase.props.dist = "latest"  -> SkewedLatest(LastInserted)
    [] yPhase.props.dist = "hotspot" -> HotspotInteger(0, yPhase.props.records - 1)

(* NextTransactionKey draws until the number is one that was inserted. *)
NextTransactionKey == {k \in KeyChooser : k <= LastInserted}

-----------------------------------------------------------------------------
(* DelegateClient: the thread number decides what the thread may do. *)
StartThread(t) ==
  /\ yPhase.name # "done"
  /\ yClient[t].pc = "start"
  /\ yClient' = [yClient EXCEPT ![t] = [IdleClient EXCEPT
        !.pc = "loop", !.id = thread_id,
        !.type = IF yPhase.name = "load" \/ yPhase.props.readers = 0 THEN 0
                 ELSE IF thread_id >= yPhase.props.readers THEN 2 ELSE 1]]
  /\ thread_id' = thread_id + 1
  /\ UNCHANGED <<yPhase, yWl, yKeys, yTables, yOps, yAcked>>

Begin(t, op, key) ==
  yClient' = [yClient EXCEPT ![t].pc = "get", ![t].op = op, ![t].key = key, ![t].ok = FALSE]

(* DoInsert, with the records that skipratioinload leaves out. *)
DoInsert(t) ==
  /\ yPhase.name = "load"
  /\ yClient[t].pc = "loop" /\ yClient[t].i < Ops
  /\ yWl' = yWl + 1
  /\ IF yPhase.props.skip # 0 /\ yClient[t].i % yPhase.props.skip # 0
     THEN yClient' = [yClient EXCEPT ![t].i = @ + 1]
     ELSE Begin(t, "LOAD", NextSequenceKey(t))
  /\ UNCHANGED <<yPhase, yKeys, yTables, yOps, thread_id, yAcked>>

(* DoTransaction: the operation by thread type or by proportion. *)
Operations(t) == CASE yClient[t].type = 0 -> {"READ", "UPDATE", "INSERT", "SCAN", "READMODIFYWRITE"}
                   [] yClient[t].type = 1 -> {"READ"}
                   [] yClient[t].type = 2 -> {"INSERT"}

DoTransaction(t) ==
  /\ yPhase.name = "run"
  /\ yClient[t].pc = "loop" /\ yClient[t].i < Ops
  /\ \E op \in Operations(t) :
       IF op = "INSERT" THEN Begin(t, op, NextSequenceKey(t)) /\ yWl' = yWl + 1
       ELSE (\E k \in NextTransactionKey : Begin(t, op, k)) /\ UNCHANGED yWl
  /\ UNCHANGED <<yPhase, yKeys, yTables, yOps, thread_id, yAcked>>

-----------------------------------------------------------------------------
(* The store.  Every operation first looks the key up: Read is done when   *)
(* there is none, Scan returns what follows it, and the read of a          *)
(* read-modify-write goes on with the update whatever it found.            *)
KeyTableGet(t) ==
  /\ yClient[t].pc = "get"
  /\ LET c == yClient[t]
         found == c.key \in DOMAIN yKeys
     IN yClient' = [yClient EXCEPT ![t] =
          CASE c.op = "READ" -> [c EXCEPT !.pc = "count", !.ok = found]
            [] c.op = "SCAN" -> [c EXCEPT !.pc = "count", !.ok = TRUE]
            [] c.op = "READMODIFYWRITE" -> [c EXCEPT !.op = "MODIFYWRITE"]
            [] c.op \in {"LOAD", "INSERT"} /\ found ->
                 [c EXCEPT !.pc = "insert", !.table = yKeys[c.key]]
            [] c.op \in {"UPDATE", "MODIFYWRITE"} /\ found ->
                 [c EXCEPT !.pc = "update", !.table = yKeys[c.key]]
            [] OTHER -> [c EXCEPT !.pc = "create"]]
  /\ UNCHANGED <<yPhase, yWl, yKeys, yTables, yOps, thread_id, yAcked>>

(* Insert and Update of a key not found make a field table and put it in   *)
(* the key table, which keeps the one already there; the result is         *)
(* ignored.                                                                *)
KeyTableInsert(t) ==
  /\ yClient[t].pc = "create"
  /\ LET new == Cardinality(DOMAIN yTables) + 1
         key == yClient[t].key
     IN /\ yTables' = Put(yTables, new, NoValue)
        /\ yKeys' = IF key \in DOMAIN yKeys THEN yKeys ELSE Put(yKeys, key, new)
        /\ yClient' = [yClient EXCEPT ![t].pc = "insert", ![t].table = new]
  /\ UNCHANGED <<yPhase, yWl, yOps, thread_id, yAcked>>

Value(c) == <<c.id + 1, c.i + 1>>

(* Update replaces the field; if there is none it inserts it, a step later. *)
FieldUpdate(t) ==
  /\ yClient[t].pc = "update"
  /\ LET c == yClient[t]
         old == yTables[c.table] # NoValue
     IN /\ yTables' = IF old THEN [yTables EXCEPT ![c.table] = Value(c)] ELSE yTables
        /\ yClient' = [yClient EXCEPT ![t].pc = IF old THEN "count" ELSE "insert", ![t].ok = TRUE]
  /\ UNCHANGED <<yPhase, yWl, yKeys, yOps, thread_id, yAcked>>

(* Insert keeps a field that is there, which only Insert reports. *)
FieldInsert(t) ==
  /\ yClient[t].pc = "insert"
  /\ LET c == yClient[t]
         taken == yTables[c.table] # NoValue
     IN /\ yTables' = IF taken THEN yTables ELSE [yTables EXCEPT ![c.table] = Value(c)]
        /\ yClient' = [yClient EXCEPT ![t].pc = "count",
                                      ![t].ok = ~taken \/ c.op \notin {"LOAD", "INSERT"}]
        /\ yAcked' = IF c.op = "LOAD" /\ ~taken THEN Put(yAcked, c.key, Value(c)) ELSE yAcked
  /\ UNCHANGED <<yPhase, yWl, yKeys, yOps, thread_id>>

(* The operation is counted, by atomic additions, and the loop goes on. *)
CountOperation(t) ==
  /\ yClient[t].pc = "count"
  /\ LET c == yClient[t]
         mine == IF c.id \in DOMAIN yOps.thread THEN yOps.thread[c.id] ELSE 0
         one(b) == IF b THEN 1 ELSE 0
     IN yOps' = IF yPhase.name = "load" THEN yOps
                ELSE [READ   |-> yOps.READ + one(c.op = "READ"),
                      INSERT |-> yOps.INSERT + one(c.op \in {"INSERT", "UPDATE"}),
                      ALL    |-> yOps.ALL + 1,
                      other  |-> yOps.other + one(c.op \in {"SCAN", "MODIFYWRITE"}),
                      thread |-> Put(yOps.thread, c.id, mine + 1)]
  /\ yClient' = [yClient EXCEPT ![t].pc = "loop", ![t].i = @ + 1, ![t].op = "none",
                                ![t].oks = @ + (IF yClient[t].ok THEN 1 ELSE 0)]
  /\ UNCHANGED <<yPhase, yWl, yKeys, yTables, thread_id, yAcked>>

(* main: the futures are waited for, the counters cleared before a second  *)
(* run, and a new workload made for each run.                              *)
AllReturned == \A t \in YcsbThreads : yClient[t].pc = "loop" /\ yClient[t].i = Ops

NextRun ==
  /\ yPhase.name # "done"
  /\ AllReturned
  /\ LET again == yPhase.run = 0 \/ (yPhase.run = 1 /\ yPhase.props.adjust)
     IN yPhase' = [yPhase EXCEPT !.name = IF again THEN "run" ELSE "done",
                                 !.run = IF again THEN @ + 1 ELSE @]
  /\ yOps' = IF yPhase'.name = "run" THEN NoOps ELSE yOps
  /\ yWl' = NewWorkload
  /\ yClient' = [t \in YcsbThreads |-> IdleClient]
  /\ UNCHANGED <<yKeys, yTables, thread_id, yAcked>>

yNext == \/ NextRun
         \/ \E t \in YcsbThreads :
              \/ StartThread(t) \/ DoInsert(t) \/ DoTransaction(t)
              \/ KeyTableGet(t) \/ KeyTableInsert(t) \/ FieldUpdate(t) \/ FieldInsert(t)
              \/ CountOperation(t)

-----------------------------------------------------------------------------
TotalOf(S, f(_)) == FoldSet(LAMBDA x, n : n + f(x), 0, S)

=============================================================================
