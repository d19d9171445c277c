----------------------------- MODULE CommandTable -----------------------------
(***************************************************************************)
(* The command table of commands/command.go: Outcomes(s, c) is what the    *)
(* handler registered under c.name may do to the state s when it runs      *)
(* command c.  Most handlers have one outcome; a handler that draws at     *)
(* random, or ranges over a Go map, has several.                           *)
(***************************************************************************)
EXTENDS SortGeoCommands

ZSetOutcome(s, c) ==
  CASE c.name = "zadd"        -> zaddCommand(s, c)
    [] c.name = "geoadd"      -> geoaddCommand(s, c)
    [] c.name = "zincrby"     -> zincrbyCommand(s, c)
    [] c.name = "zrem"        -> zremCommand(s, c)
    [] c.name = "zpopmin"     -> zpopminCommand(s, c)
    [] c.name = "zpopmax"     -> zpopmaxCommand(s, c)
    [] c.name \in {"zrange", "zrevrange", "zrangebyscore", "zrevrangebyscore",
                   "zrangebylex", "zrevrangebylex"} -> zrangeCommand(s, c)
    [] c.name \in {"zcount", "zlexcount"} -> zcountCommand(s, c)
    [] c.name \in {"zremrangebyrank", "zremrangebyscore", "zremrangebylex"}
                              -> zremrangeCommand(s, c)
    [] c.name = "zrangestore" -> zrangestoreCommand(s, c)
    [] c.name = "zscore"      -> zscoreCommand(s, c)
    [] c.name = "zmscore"     -> zmscoreCommand(s, c)
    [] c.name \in {"zrank", "zrevrank"} -> zrankGeneric(s, c)
    [] c.name = "zcard"       -> zcardCommand(s, c)
    [] c.name = "zscan"       -> zscanCommand(s, c)
    [] c.name \in {"zunion", "zinter", "zdiff"} -> zsetReadGeneric(s, c)
    [] c.name = "zintercard"  -> zintercardCommand(s, c)
    [] c.name \in {"zunionstore", "zinterstore", "zdiffstore"} -> zsetStoreGeneric(s, c)

SetOutcome(s, c) ==
  CASE c.name = "sadd"       -> saddCommand(s, c)
    [] c.name = "srem"       -> sremCommand(s, c)
    [] c.name = "smembers"   -> smembersCommand(s, c)
    [] c.name = "sismember"  -> sismemberCommand(s, c)
    [] c.name = "smismember" -> smismemberCommand(s, c)
    [] c.name = "scard"      -> scardCommand(s, c)
    [] c.name = "sscan"      -> sscanCommand(s, c)
    [] c.name \in {"sinter", "sunion", "sdiff"} -> setOpCommand(s, c)
    [] c.name \in {"sintercard", "sunioncard", "sdiffcard"} -> setCardGeneric(s, c)
    [] c.name = "smove"      -> smoveCommand(s, c)
    [] OTHER -> ZSetOutcome(s, c)

ListOutcome(s, c) ==
  CASE c.name = "lpush"     -> lpushCommand(s, c)
    [] c.name = "rpush"     -> rpushCommand(s, c)
    [] c.name = "lpushx"    -> lpushxCommand(s, c)
    [] c.name = "rpushx"    -> rpushxCommand(s, c)
    [] c.name = "lpop"      -> lpopCommand(s, c)
    [] c.name = "rpop"      -> rpopCommand(s, c)
    [] c.name = "lrange"    -> lrangeCommand(s, c)
    [] c.name = "llen"      -> llenCommand(s, c)
    [] c.name = "lindex"    -> lindexCommand(s, c)
    [] c.name = "lset"      -> lsetCommand(s, c)
    [] c.name = "linsert"   -> linsertCommand(s, c)
    [] c.name = "ltrim"     -> ltrimCommand(s, c)
    [] c.name = "lrem"      -> lremCommand(s, c)
    [] c.name = "lpos"      -> lposCommand(s, c)
    [] c.name = "lmove"     -> lmoveCommand(s, c)
    [] c.name = "rpoplpush" -> rpoplpushCommand(s, c)
    [] OTHER -> SetOutcome(s, c)

HashOutcome(s, c) ==
  CASE c.name \in {"hset", "hmset"} -> hsetGeneric(s, c)
    [] c.name = "hsetnx"   -> hsetnxCommand(s, c)
    [] c.name = "hincrby"  -> hincrbyCommand(s, c)
    [] c.name = "hdel"     -> hdelCommand(s, c)
    [] c.name = "hget"     -> hgetCommand(s, c)
    [] c.name = "hexists"  -> hexistsCommand(s, c)
    [] c.name = "hstrlen"  -> hstrlenCommand(s, c)
    [] c.name = "hlen"     -> hlenCommand(s, c)
    [] c.name = "hgetall"  -> hgetallCommand(s, c)
    [] c.name = "hkeys"    -> hkeysCommand(s, c)
    [] c.name = "hvals"    -> hvalsCommand(s, c)
    [] c.name = "hmget"    -> hmgetCommand(s, c)
    [] c.name = "hscan"    -> hscanCommand(s, c)
    [] OTHER -> ListOutcome(s, c)

KeyOutcome(s, c) ==
  CASE c.name \in {"expire", "pexpire", "expireat", "pexpireat"} -> expireGeneric(s, c)
    [] c.name = "persist"  -> persistCommand(s, c)
    [] c.name = "ttl"      -> ttlCommand(s, c)
    [] c.name = "pttl"     -> pttlCommand(s, c)
    [] c.name \in {"expiretime", "pexpiretime"} -> expiretimeGeneric(s, c)
    [] c.name \in {"del", "unlink"} -> delCommand(s, c)
    [] c.name = "exists"   -> existsCommand(s, c)
    [] c.name = "touch"    -> touchCommand(s, c)
    [] c.name = "type"     -> typeCommand(s, c)
    [] c.name = "rename"   -> renameCommand(s, c)
    [] c.name = "renamenx" -> renamenxCommand(s, c)
    [] c.name = "copy"     -> copyCommand(s, c)
    [] c.name = "keys"     -> keysCommand(s, c)
    [] c.name \in {"flushall", "flushdb"} -> flushallCommand(s, c)
    [] c.name = "dump"     -> dumpCommand(s, c)
    [] c.name = "restore"  -> restoreCommand(s, c)
    [] OTHER -> HashOutcome(s, c)

StringOutcome(s, c) ==
  CASE c.name = "get"      -> getCommand(s, c)
    [] c.name = "strlen"   -> strlenCommand(s, c)
    [] c.name = "digest"   -> digestCommand(s, c)
    [] c.name = "getrange" -> getrangeCommand(s, c)
    [] c.name = "setrange" -> setrangeCommand(s, c)
    [] c.name = "append"   -> appendCommand(s, c)
    [] c.name = "incr"     -> incrCommand(s, c)
    [] c.name = "decr"     -> decrCommand(s, c)
    [] c.name = "incrby"   -> incrbyCommand(s, c)
    [] c.name = "decrby"   -> decrbyCommand(s, c)
    [] c.name = "set"      -> setCommand(s, c)
    [] c.name = "setnx"    -> setnxCommand(s, c)
    [] c.name = "setex"    -> setexCommand(s, c)
    [] c.name = "psetex"   -> psetexCommand(s, c)
    [] c.name = "getset"   -> getsetCommand(s, c)
    [] c.name = "getdel"   -> getdelCommand(s, c)
    [] c.name = "getex"    -> getexCommand(s, c)
    [] c.name = "mset"     -> msetCommand(s, c)
    [] c.name = "msetnx"   -> msetnxCommand(s, c)
    [] c.name = "msetex"   -> msetexCommand(s, c)
    [] c.name = "mget"     -> mgetCommand(s, c)
    [] c.name = "delex"    -> delexCommand(s, c)
    [] c.name = "setbit"   -> setbitCommand(s, c)
    [] c.name = "getbit"   -> getbitCommand(s, c)
    [] c.name = "bitcount" -> bitcountCommand(s, c)
    [] c.name = "bitpos"   -> bitposCommand(s, c)
    [] c.name = "bitop"    -> bitopCommand(s, c)
    [] c.name = "pfadd"    -> pfaddCommand(s, c)
    [] c.name = "pfcount"  -> pfcountCommand(s, c)
    [] c.name = "pfmerge"  -> pfmergeCommand(s, c)
    [] OTHER -> KeyOutcome(s, c)

\* The handlers with several outcomes, then the others.
Outcomes(s, c) ==
  CASE c.name = "randomkey"   -> randomkeyOutcomes(s, c)
    [] c.name = "hrandfield"  -> hrandfieldOutcomes(s, c)
    [] c.name = "spop"        -> spopOutcomes(s, c)
    [] c.name = "srandmember" -> srandmemberOutcomes(s, c)
    [] c.name \in {"sinterstore", "sunionstore", "sdiffstore"} -> storeOpOutcomes(s, c)
    [] c.name = "zrandmember" -> zrandmemberOutcomes(s, c)
    [] c.name \in {"sort", "sort_ro"} -> sortOutcomes(s, c)
    [] OTHER -> {StringOutcome(s, c)}

\* The commands registered with FlagWrite.
WriteCommands ==
  StringWrites \cup GenericWrites \cup KeyspaceWrites \cup HashWrites \cup ListWrites
  \cup SetWrites \cup ZSetWrites \cup BitmapWrites \cup SortGeoWrites
  \cup {"delex", "msetex", "restore", "flushall", "flushdb"}

\* The keys a command names in its arguments.
KeysOf(c) ==
  LET Field(f) == IF f \in DOMAIN c THEN {c[f]} ELSE {}
      Many(f)  == IF f \in DOMAIN c THEN ToSet(c[f]) ELSE {}
      Pairs    == IF c.name \in {"mset", "msetnx", "msetex"}
                  THEN {c.pairs[i][1] : i \in DOMAIN c.pairs} ELSE {}
  IN Field("key") \cup Field("dst") \cup Many("keys") \cup Many("store") \cup Pairs
=============================================================================
