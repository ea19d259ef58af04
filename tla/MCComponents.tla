---------------------------- MODULE MCComponents ----------------------------
(***************************************************************************)
(* The components that meet the rest of the system only through calls, in  *)
(* one model: a behaviour picks a part and takes the steps of that part.   *)
(* The other parts rest in an initial state.                               *)
(***************************************************************************)
EXTENDS ThreadPool, LruCache, MemTable, FilterBuild, PosixEnv, FileLocks,
        MemEnv, SepDB, DbIter, TableFormat, Codec, Repair, FilterCache,
        RedisReader, RedisAsync, RedisSync, Sds, Ycsb, MCLevels

VARIABLE part

-----------------------------------------------------------------------------
(* Values of the constants that a configuration file cannot write. *)
mcHashOf(id, key) == (key * 37 + id * 91) % 256
mcBloomBits == <<3, 12>>
mcEnvRequests == {<<3, <<4>>>>, <<2, <<3, 4>>>>}
mcTableKeys == [1 .. 1 -> 0 .. 3] \cup {<<1, 0>>, <<1, 1>>, <<1, 3>>, <<3, 3>>}
mcCodecSlices == {<< >>, <<1, 0, 3, 2, 7>>}
mcFilterBits == <<1, 2>>
mcOptions == {[readers |-> {"r1"}, disk |-> {1}, build |-> {2}, cap |-> 4, life |-> 9, gets |-> 1],
              [readers |-> {"r1", "r2"}, disk |-> {}, build |-> {1}, cap |-> 3, life |-> 1, gets |-> 4]}
mcRepairContents == {<<{<<1, 5>>}, {<<1, 4>>, <<2, 2>>}, {<<1, 1>>}>>, <<{<<2, 3>>}, {}, {<<1, 2>>, <<2, 1>>}>>,
                     <<{}, {<<1, 3>>, <<2, 2>>}, {}>>}
mcAsyncTargets == {<<"channels", 1>>, <<"channels", 3>>}

LOCAL Text(bytes) == [kind |-> "text", bytes |-> bytes]
LOCAL Space == [kind |-> "space"]
LOCAL Item(reply) == [kind |-> "reply", reply |-> reply]
LOCAL Nested == Reply("array", <<Reply("array", <<Reply("nil", "$"), Reply("array", << >>)>>),
                                 Reply("integer", 3)>>)

mcRedisItems ==
  <<[kind |-> "noise", bytes |-> <<"?">>],
   [kind |-> "argv", argv |-> <<<<"G">>, [i \in 1 .. 10 |-> "k"]>>],
   [kind |-> "format", format |-> <<Text(<<"S">>), Space, Space, Text(<< >>), Space,
                                    Text(<<CR>>), Text(<<LF>>), Space>>],
   [kind |-> "format", format |-> <<Text(<<"S">>), [kind |-> "invalid"]>>],
   [kind |-> "noise", bytes |-> <<"*", "1", CR, LF, "*", "1", CR, LF, "*", "1", CR, LF, "*", "1", CR, LF>>],
   Item(Reply("status", <<"O">>)), Item(Reply("integer", -12)), Item(Reply("nil", "*")),
   Item(Nested), Item(Reply("array", <<Reply("array", <<Reply("error", <<"E">>)>>)>>))>>

mcSdsPieces == {<< >>, <<97, 0, 32>>, <<34, 92, 120>>, <<32, 10, 200, 39>>}

LOCAL Properties(records, dist, readers, skip, adjust) ==
  [records |-> records, operations |-> 2, dist |-> dist, new |-> 1,
   readers |-> readers, skip |-> skip, adjust |-> adjust]

mcYcsbConfigs == {Properties(2, "zipfian", 0, 0, FALSE), Properties(3, "uniform", 3, 0, TRUE),
                  Properties(4, "latest", 0, 2, FALSE)}

-----------------------------------------------------------------------------
Parts == {"levels", "pool", "lru", "skiplist", "arena", "filters", "reads", "background", "locks",
          "memenv", "sepdb", "iterator", "table", "codec", "repair", "filtercache",
          "reader", "async", "sync", "sds", "ycsb"}

mcVars == <<lvVars, tpVars, lruVars, skVars, arena, fbVars, rdVars, bgVars, lkVars, meVars, sepVars,
            itVars, tbVars, cdVars, rpVars, fcVars, rrVars, asVars, rcVars, sdVars, yVars, part>>

(* Every part starts in one of its initial states, the parts not picked in *)
(* one named here.                                                         *)
mcInit ==
  /\ part \in Parts
  /\ lvInit /\ (part # "levels" => mode = CHOOSE x \in Modes : TRUE)
  /\ tpInit /\ skInit /\ arenaInit /\ fbInit /\ rdStart /\ bgInit /\ lkInit /\ meInit /\ sepInit
  /\ tbInit /\ cdInit /\ asInit /\ sdInit
  /\ rcInit /\ (part # "sync" => rc = redisContextInit)
  /\ lruInit /\ (part # "lru" => lruCap = Max(LruCapacities))
  /\ itSeq \in {Max(IterSeqs) - 1, Max(IterSeqs)} /\ (part # "iterator" => itSeq = Max(IterSeqs))
  /\ IF part = "iterator" THEN itInit
     ELSE itStart({[s \in IterSeqs |-> Max(IterKeys)]}, {[s \in IterSeqs |-> "value"]},
                  {[s \in IterSeqs |-> Max(IterSources)]})
  /\ IF part = "repair" THEN rpInit ELSE rpStart({<<{}, {}, {}>>})
  /\ IF part = "reader" THEN rrInit ELSE rrStart({<<1>>})
  /\ fcInit /\ (part # "filtercache" => opt = CHOOSE x \in Options : x.gets = 1)
  /\ yInit /\ (part # "ycsb" => yPhase.props = CHOOSE x \in YcsbConfigs : TRUE)

(* Only the part picked moves. *)
Rests(p, unchanged) == IF part = p THEN TRUE ELSE unchanged

mcNext ==
  /\ UNCHANGED part
  /\ Rests("levels", UNCHANGED lvVars)
  /\ Rests("pool", UNCHANGED tpVars)
  /\ Rests("lru", UNCHANGED lruVars)
  /\ Rests("skiplist", UNCHANGED skVars)
  /\ Rests("arena", UNCHANGED arena)
  /\ Rests("filters", UNCHANGED fbVars)
  /\ Rests("reads", UNCHANGED rdVars)
  /\ Rests("background", UNCHANGED bgVars)
  /\ Rests("locks", UNCHANGED lkVars)
  /\ Rests("memenv", UNCHANGED meVars)
  /\ Rests("sepdb", UNCHANGED sepVars)
  /\ Rests("iterator", UNCHANGED itVars)
  /\ Rests("table", UNCHANGED tbVars)
  /\ Rests("codec", UNCHANGED cdVars)
  /\ Rests("repair", UNCHANGED rpVars)
  /\ Rests("filtercache", UNCHANGED fcVars)
  /\ Rests("reader", UNCHANGED rrVars)
  /\ Rests("async", UNCHANGED asVars)
  /\ Rests("sync", UNCHANGED rcVars)
  /\ Rests("sds", UNCHANGED sdVars)
  /\ Rests("ycsb", UNCHANGED yVars)
  /\ CASE part = "levels" -> lvNext
       [] part = "pool" -> tpNext
       [] part = "lru" -> lruNext
       [] part = "skiplist" -> skNextStep
       [] part = "arena" -> arenaNext
       [] part = "filters" -> fbNext
       [] part = "reads" -> rdNext
       [] part = "background" -> bgNext
       [] part = "locks" -> lkNext
       [] part = "memenv" -> meNext
       [] part = "sepdb" -> sepNext
       [] part = "iterator" -> itNext
       [] part = "table" -> tbNext
       [] part = "codec" -> cdNext
       [] part = "repair" -> rpNext
       [] part = "filtercache" -> fcNext
       [] part = "reader" -> rrNext
       [] part = "async" -> asNext
       [] part = "sync" -> rcNext
       [] part = "sds" -> sdNext
       [] part = "ycsb" -> yNext
=============================================================================
