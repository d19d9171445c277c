---------------------------- MODULE MCPropagation ----------------------------
(***************************************************************************)
(* Workloads for Propagation.  Each is a small set of commands on one or   *)
(* two keys; the seed puts containers at the brink of a promotion, so that *)
(* the few commands that follow cross it.                                  *)
(***************************************************************************)
EXTENDS Propagation

CONSTANTS k1, k2, k3

MCKeys  == {k1, k2, k3}
MCShard == k1 :> 0 @@ k2 :> 1 @@ k3 :> 1

\* Strings: single letters and digits, and one longer than the listpack limits.
A == <<12>>
B == <<13>>
C == <<14>>
Long == <<12, 12, 12>>
Num(n) == FormatInt(n)

MCHllHash == A :> [index |-> 1, count |-> 2] @@ B :> [index |-> 1, count |-> 1]

\* Commands by their arguments.
K(name, k)        == [name |-> name, key |-> k]
KN(name, k, n)    == [name |-> name, key |-> k, n |-> n]
KV(name, k, v)    == [name |-> name, key |-> k, val |-> v]
Ks(name, ks)      == [name |-> name, keys |-> ks]
KD(name, k, d)    == [name |-> name, key |-> k, dst |-> d]
Opt(opt, n)       == [opt |-> opt, n |-> n]
SetP(k, v, e)     == SetAt(k, v, e, FALSE)
SetIf(k, v, m, w) == [SetAt(k, v, NoExpiry, FALSE) EXCEPT
                        !.cmp = [mode |-> m, val |-> w, hex |-> TRUE]]
SetNX(k, v)       == [SetAt(k, v, NoExpiry, FALSE) EXCEPT !.nx = TRUE]
SetEx(name, k, n) == [name |-> name, key |-> k, n |-> n, val |-> A]
Exp(name, k, n, opts) == [name |-> name, key |-> k, n |-> n, opts |-> opts]
Getex(k, opts)    == [name |-> "getex", key |-> k, opts |-> opts]
Pairs(name, ps)   == [name |-> name, pairs |-> ps]
MSetEx(ps, e)     == [name |-> "msetex", pairs |-> ps, expiry |-> e, nx |-> FALSE,
                      xx |-> FALSE, keepTTL |-> FALSE]
Vals(name, k, vs) == [name |-> name, key |-> k, vals |-> vs]
Mems(name, k, ms) == [name |-> name, key |-> k, members |-> ms]

\* SET with every option but NX and XX, then what reads, overwrites and removes it.
SetLoad ==
  [seed |-> <<>>, scans |-> FALSE,
   cmds |-> {SetP(k1, A, NoExpiry), SetP(k1, B, Opt("PX", 1)), SetP(k1, A, Opt("EX", 1)),
             SetP(k1, B, Opt("PXAT", 4)), SetP(k1, B, Opt("EXAT", 2)),
             SetAt(k1, B, NoExpiry, TRUE), SetIf(k1, C, "IFEQ", A), SetIf(k1, C, "IFDNE", A),
             SetP(k1, A, Opt("PX", 0)), K("get", k1), K("getdel", k1),
             [name |-> "delex", key |-> k1, cmp |-> [mode |-> "IFNE", val |-> A, hex |-> TRUE]]}]

\* The deadlines: EXPIRE and its family, PERSIST, GETEX, SETEX, and a key that
\* moves with its deadline.
TtlLoad ==
  [seed |-> <<SetP(k1, A, Opt("PX", 2))>>, scans |-> FALSE,
   cmds |-> {Exp("expire", k1, 1, {}), Exp("pexpire", k1, 1, {"NX"}),
             Exp("pexpireat", k1, 5, {"GT"}), Exp("expireat", k1, 2, {"LT"}),
             Exp("pexpire", k1, -1, {}), K("persist", k1),
             Getex(k1, <<Opt("PX", 2)>>), Getex(k1, <<Opt("EXAT", 3)>>),
             Getex(k1, <<Opt("PERSIST", 0)>>), Getex(k1, <<>>),
             SetEx("psetex", k1, 1), SetEx("setex", k1, 1), K("pttl", k1),
             KD("rename", k1, k2), Exp("pexpire", k1, 1, {"GT", "LT"})}]

\* Numbers and raw strings.
StringLoad ==
  [seed |-> <<SetP(k1, Num(9), Opt("PX", 2)), SetP(k2, A, NoExpiry)>>, scans |-> FALSE,
   cmds |-> {K("incr", k1), K("decr", k1), KN("incrby", k1, MaxInt - 9), KN("decrby", k1, MinInt),
             KN("incrby", k2, 1), KV("append", k1, A), KV("append", k3, A),
             [name |-> "setrange", key |-> k1, offset |-> 2, val |-> B],
             [name |-> "getrange", key |-> k1, start |-> -2, end |-> -1],
             KV("getset", k1, B), KV("setnx", k1, B), K("strlen", k1), K("digest", k2),
             Pairs("mset", <<<<k1, A>>, <<k2, B>>>>), Pairs("msetnx", <<<<k3, A>>, <<k1, B>>>>),
             MSetEx(<<<<k1, A>>, <<k2, B>>>>, Opt("PXAT", 5)), Ks("mget", <<k1, k3>>)}]

\* Whole keys: deletion, renaming, copying, restoring, under a SCAN.
KeyLoad ==
  [seed |-> <<SetP(k1, A, NoExpiry), SetP(k2, B, Opt("PX", 1))>>, scans |-> TRUE,
   cmds |-> {Ks("del", <<k1, k2, k1>>), Ks("unlink", <<k2>>), KD("rename", k2, k1),
             KD("renamenx", k2, k3), KD("rename", k3, k1), KD("rename", k1, k1),
             [name |-> "copy", key |-> k2, dst |-> k3, replace |-> FALSE],
             [name |-> "copy", key |-> k1, dst |-> k3, replace |-> TRUE],
             Ks("exists", <<k1, k1, k2>>), Ks("touch", <<k1, k2>>), K("type", k2),
             [name |-> "keys"], [name |-> "randomkey"], [name |-> "flushall"],
             K("ttl", k2), K("expiretime", k2), K("dump", k2),
             [name |-> "restore", key |-> k3, n |-> 2, replace |-> FALSE, absttl |-> FALSE,
              payload |-> [val |-> Str(C), exp |-> 0]],
             [name |-> "restore", key |-> k1, n |-> 0, replace |-> TRUE, absttl |-> TRUE,
              payload |-> [val |-> Str(C), exp |-> 0]]}]

\* A hash one field below its limit, with a deadline.
Fields(name, ps) == [name |-> name, key |-> k1, pairs |-> ps]
HashLoad ==
  [seed |-> <<Fields("hset", <<<<A, Num(9)>>>>), Exp("pexpire", k1, 2, {})>>, scans |-> FALSE,
   cmds |-> {Fields("hset", <<<<A, B>>, <<B, B>>, <<A, C>>>>), Fields("hmset", <<<<C, Long>>>>),
             Fields("hset", <<<<C, A>>>>),
             [name |-> "hsetnx", key |-> k1, field |-> B, val |-> A],
             [name |-> "hincrby", key |-> k1, field |-> A, n |-> 1],
             [name |-> "hincrby", key |-> k2, field |-> A, n |-> MaxInt],
             [name |-> "hdel", key |-> k1, fields |-> <<A, B, A>>],
             [name |-> "hdel", key |-> k1, fields |-> <<C>>],
             [name |-> "hget", key |-> k1, field |-> A],
             [name |-> "hexists", key |-> k1, field |-> C],
             [name |-> "hstrlen", key |-> k1, field |-> C],
             [name |-> "hmget", key |-> k1, fields |-> <<A, C>>],
             K("hlen", k1), K("hgetall", k1), K("hkeys", k1), K("hvals", k1),
             [name |-> "hrandfield", key |-> k1, single |-> FALSE, n |-> -2],
             [name |-> "hscan", key |-> k1, bad |-> FALSE, match |-> {A}],
             KV("append", k1, A)}]

\* A list at its limit and one below it.
LMove(k, d, from, to) == [name |-> "lmove", key |-> k, dst |-> d, from |-> from, to |-> to]
ListLoad ==
  [seed |-> <<Vals("rpush", k1, <<A, B>>), Vals("rpush", k2, <<A>>), Exp("pexpire", k2, 2, {})>>,
   scans |-> FALSE,
   cmds |-> {Vals("lpush", k1, <<C, A>>), Vals("rpush", k2, <<Long>>), Vals("lpushx", k3, <<A>>),
             Vals("rpushx", k2, <<B>>), K("lpop", k2), K("rpop", k1),
             LMove(k1, k2, "LEFT", "RIGHT"), LMove(k1, k1, "RIGHT", "LEFT"),
             LMove(k2, k2, "LEFT", "LEFT"), KD("rpoplpush", k2, k3),
             [name |-> "lset", key |-> k1, i |-> -1, val |-> Long],
             [name |-> "lset", key |-> k1, i |-> 5, val |-> Long],
             [name |-> "linsert", key |-> k1, where |-> "BEFORE", pivot |-> B, val |-> C],
             [name |-> "linsert", key |-> k2, where |-> "AFTER", pivot |-> A, val |-> Long],
             [name |-> "ltrim", key |-> k1, start |-> 1, stop |-> -1],
             [name |-> "ltrim", key |-> k2, start |-> 5, stop |-> 9],
             [name |-> "lrem", key |-> k1, count |-> -1, val |-> A],
             [name |-> "lpos", key |-> k1, val |-> A, rank |-> -1, count |-> 0, maxlen |-> 0],
             [name |-> "lrange", key |-> k1, start |-> 0, stop |-> -1],
             [name |-> "lindex", key |-> k1, i |-> 1], K("llen", k1)}]

\* A full intset, a full listpack and a hash table.
SetOpC(name, op, d, ks) == [name |-> name, op |-> op, dst |-> d, keys |-> ks]
SetReadC(name, op, ks)  == [name |-> name, op |-> op, keys |-> ks, limit |-> 1]
SMove(k, d, m)          == [name |-> "smove", key |-> k, dst |-> d, member |-> m]
SetLoad2 ==
  [seed |-> <<Mems("sadd", k1, <<Num(1), Num(2)>>), Mems("sadd", k2, <<A, B, Long>>)>>,
   scans |-> FALSE,
   cmds |-> {Mems("sadd", k1, <<Num(3), Num(1)>>), Mems("sadd", k1, <<A, A>>),
             Mems("sadd", k3, <<C, Num(1)>>), Mems("srem", k1, <<Num(1), Num(2), A>>),
             Mems("srem", k2, <<A, A>>),
             [name |-> "spop", key |-> k2, single |-> TRUE, n |-> 1],
             [name |-> "spop", key |-> k1, single |-> FALSE, n |-> 2],
             SMove(k1, k2, Num(1)), SMove(k2, k3, Long), SMove(k2, k2, A), SMove(k3, k1, C),
             SetOpC("sunionstore", "union", k3, <<k1, k2>>),
             SetOpC("sinterstore", "inter", k1, <<k1, k2>>),
             SetOpC("sdiffstore", "diff", k2, <<k2, k3>>),
             SetReadC("sinter", "inter", <<k1, k3>>), SetReadC("sintercard", "inter", <<k2, k3>>),
             [name |-> "srandmember", key |-> k2, single |-> FALSE, n |-> 2],
             [name |-> "sscan", key |-> k1, bad |-> FALSE, match |-> {A}],
             Mems("smismember", k1, <<A, Num(1)>>), K("smembers", k1), K("scard", k2),
             [name |-> "sismember", key |-> k1, member |-> Num(2)]}]

\* A sorted set at its limit, with equal scores and an infinity.
ZAdd(k, ps, opts) == [name |-> "zadd", key |-> k, pairs |-> ps, opts |-> opts]
Score(n, ex)      == [n |-> n, ex |-> ex]
Lex(v, ex)        == [val |-> v, ex |-> ex, min |-> FALSE, max |-> FALSE]
ZRange(name, k, by, start, stop, rev) ==
  [name |-> name, key |-> k, by |-> by, start |-> start, stop |-> stop, rev |-> rev,
   offset |-> 0, count |-> -1, bad |-> FALSE]
ZSetLoad ==
  [seed |-> <<ZAdd(k1, <<<<1, A>>, <<1, B>>>>, {}), ZAdd(k2, <<<<PosInf, A>>>>, {}),
              Exp("pexpire", k2, 2, {})>>,
   scans |-> FALSE,
   cmds |-> {ZAdd(k1, <<<<2, A>>, <<0, C>>>>, {"CH"}), ZAdd(k1, <<<<0, B>>, <<0, C>>>>, {}),
             ZAdd(k2, <<<<NegInf, A>>>>, {"INCR"}), ZAdd(k2, <<<<1, Long>>>>, {"NX"}),
             ZAdd(k3, <<<<1, A>>>>, {"XX"}), ZAdd(k1, <<<<2, A>>, <<0, B>>>>, {"GT"}),
             [name |-> "zincrby", key |-> k1, member |-> A, n |-> 1],
             Mems("zrem", k1, <<A, A>>), Mems("zrem", k2, <<A>>),
             KN("zpopmin", k1, 1), KN("zpopmax", k1, 2),
             ZRange("zremrangebyrank", k1, "rank", 0, 0, FALSE),
             ZRange("zremrangebyscore", k1, "score", Score(1, TRUE), Score(PosInf, FALSE), FALSE),
             ZRange("zremrangebylex", k1, "lex", Lex(A, FALSE), Lex(B, TRUE), FALSE),
             ZRange("zrevrangebyscore", k1, "score", Score(1, FALSE), Score(0, FALSE), TRUE),
             ZRange("zcount", k1, "score", Score(1, FALSE), Score(2, TRUE), FALSE),
             [ZRange("zrangestore", k1, "rank", 1, -1, TRUE) EXCEPT !.name = "zrangestore"]
               @@ [dst |-> k2],
             [name |-> "zrank", key |-> k1, member |-> B, rev |-> TRUE],
             [name |-> "zscore", key |-> k1, member |-> A], Mems("zmscore", k1, <<A, C>>),
             K("zcard", k1), [name |-> "zrandmember", key |-> k1, single |-> TRUE, n |-> 1],
             [name |-> "zscan", key |-> k1, bad |-> FALSE, match |-> {A}]}]

\* Sorted sets combined with sets, and positions.
ZOp(name, op, ks, mode) == [name |-> name, op |-> op, keys |-> ks, weights |-> <<2, 1>>,
                            mode |-> mode, limit |-> 1]
ZOpLoad ==
  [seed |-> <<ZAdd(k1, <<<<1, A>>, <<NegInf, B>>>>, {}), Mems("sadd", k2, <<B, C>>)>>,
   scans |-> FALSE,
   cmds |-> {ZOp("zunionstore", "union", <<k1, k2>>, "SUM") @@ [dst |-> k3],
             ZOp("zinterstore", "inter", <<k1, k2>>, "MAX") @@ [dst |-> k1],
             ZOp("zdiffstore", "diff", <<k2, k1>>, "MIN") @@ [dst |-> k2],
             ZOp("zunion", "union", <<k1, k2>>, "COUNT"), ZOp("zintercard", "inter", <<k1, k2>>, "SUM"),
             [name |-> "geoadd", key |-> k1, points |-> <<<<5, A>>, <<4, C>>>>, opts |-> {"CH"}],
             [name |-> "geoadd", key |-> k3, points |-> <<<<5, A>>>>, opts |-> {"NX"}],
             Mems("srem", k2, <<C>>)}]

\* Bits, registers and SORT.
BitC(k, off, b) == [name |-> "setbit", key |-> k, offset |-> off, bit |-> b]
BitLoad ==
  [seed |-> <<SetP(k1, A, Opt("PX", 2)), SetP(k2, <<12, 13, NUL>>, NoExpiry)>>, scans |-> FALSE,
   cmds |-> {BitC(k1, 0, 1), BitC(k1, 20, 1), BitC(k1, 2, 0), BitC(k3, 9, 0),
             [name |-> "getbit", key |-> k2, offset |-> 9],
             [name |-> "bitcount", key |-> k2, start |-> 0, end |-> -1],
             [name |-> "bitpos", key |-> k2, bit |-> 0, start |-> 1, end |-> -1, hasEnd |-> TRUE],
             SetOpC("bitop", "AND", k3, <<k1, k2>>), SetOpC("bitop", "NOT", k1, <<k2>>),
             SetOpC("bitop", "XOR", k2, <<k2, k3>>),
             [name |-> "pfadd", key |-> k3, elements |-> <<B, A>>],
             [name |-> "pfmerge", dst |-> k1, keys |-> <<k3>>], Ks("pfcount", <<k1, k3>>)}]

SortC(name, k, by, gets, alpha, store) ==
  [name |-> name, key |-> k, by |-> by, gets |-> gets, alpha |-> alpha, desc |-> TRUE,
   offset |-> 0, count |-> 2, store |-> store]
ByKey == [kind |-> "key", key |-> [e \in {A, B, C, Num(2), Num(10)} |-> IF e = A THEN k2 ELSE k3]]
SortLoad ==
  [seed |-> <<Vals("rpush", k1, <<Num(2), Num(10), Num(2)>>), SetP(k2, Num(7), NoExpiry)>>,
   scans |-> FALSE,
   cmds |-> {SortC("sort", k1, SelfPattern, <<>>, FALSE, <<k3>>),
             SortC("sort", k1, SelfPattern, <<>>, TRUE, <<k1>>),
             SortC("sort", k1, ByKey, <<SelfPattern, ByKey>>, FALSE, <<k3>>),
             SortC("sort", k2, SelfPattern, <<>>, FALSE, <<k3>>),
             SortC("sort_ro", k1, ConstPattern, <<>>, FALSE, <<>>),
             Vals("rpush", k1, <<A>>), K("incr", k2)}]

MCWorkloads ==
  [set |-> SetLoad, ttl |-> TtlLoad, string |-> StringLoad, keys |-> KeyLoad, hash |-> HashLoad,
   list |-> ListLoad, sets |-> SetLoad2, zset |-> ZSetLoad, zops |-> ZOpLoad, bits |-> BitLoad,
   sort |-> SortLoad]

\* Commands on which the two sides come to differ, one workload each.
OneCommand(seed, c) == [seed |-> seed, scans |-> FALSE, cmds |-> {c}]
SetNxLoads   == [setnx |-> OneCommand(<<SetP(k1, A, NoExpiry)>>, SetNX(k1, B))]
MSetExLoads  == [msetex |-> OneCommand(<<>>, MSetEx(<<<<k1, A>>>>, Opt("PX", 2)))]
RestoreLoads == [restore |-> OneCommand(<<>>,
                   [name |-> "restore", key |-> k1, n |-> 0, replace |-> FALSE, absttl |-> FALSE,
                    payload |-> [val |-> Str(C), exp |-> Start + 1]])]
PxatZeroLoads == [pxat |-> OneCommand(<<>>, SetP(k1, A, Opt("PXAT", 0)))]
GetexLoads   == [getex |-> OneCommand(<<SetP(k1, A, NoExpiry)>>,
                   Getex(k1, <<Opt("PX", 2), Opt("FOO", 0)>>))]

MCBounds == [w \in DOMAIN Workloads |->
  CASE w = "set" -> [steps |-> 3, now |-> Start + 2]
    [] w = "ttl" -> [steps |-> 2, now |-> Start + 3]
    [] w = "keys" -> [steps |-> 2, now |-> Start + 1]
    [] w \in {"sets", "zops", "sort"} -> [steps |-> 3, now |-> Start]
    [] OTHER -> [steps |-> 2, now |-> Start + 2]]
=============================================================================
