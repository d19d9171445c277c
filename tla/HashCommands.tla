----------------------------- MODULE HashCommands -----------------------------
(***************************************************************************)
(* Hashes: commands/hash.go, hash_ops.go, hash_encoding.go and HSCAN.      *)
(*                                                                         *)
(* A hash is [type, enc, data].  In a listpack data is the sequence of its *)
(* <<field, value>> pairs in the order of the buffer; in a hash table it is*)
(* a function from fields to values.  Fields and values are strings.       *)
(***************************************************************************)
EXTENDS KeyCommands

CONSTANTS
  HashMaxListpackEntries, \* hash-max-listpack-entries
  HashMaxListpackValue,   \* hash-max-listpack-value
  MaxRandCount            \* maxRandCount

EmptyHash == [type |-> "hash", enc |-> "listpack", data |-> <<>>]

\* lp.Find with stride 2: the pair holding a field, 0 when there is none.
FindField(v, f) == SelectInSeq(v, LAMBDA p : p[1] = f)

hashFields(h) == IF h.enc = "listpack" THEN {h.data[i][1] : i \in DOMAIN h.data} ELSE DOMAIN h.data

hashGet(h, f) == IF h.enc = "listpack" THEN h.data[FindField(h.data, f)][2] ELSE h.data[f]

\* hashView.Len counts the slots of the buffer, not the distinct fields.
hashLen(h) == IF h.enc = "listpack" THEN Len(h.data) ELSE Cardinality(DOMAIN h.data)

\* Mutant: one pair too many.
hashPromotesLate(h, f, val) ==
  \/ Len(val) > HashMaxListpackValue \/ Len(f) > HashMaxListpackValue
  \/ f \notin hashFields(h) /\ Len(h.data) > HashMaxListpackEntries

\* Replacing the value of a field the hash has does not grow the buffer.
hashShouldPromote(h, f, val) ==
  \/ Len(val) > HashMaxListpackValue \/ Len(f) > HashMaxListpackValue
  \/ f \notin hashFields(h) /\ Len(h.data) >= HashMaxListpackEntries

hashPromote(h) == [h EXCEPT !.enc = "hashtable",
                            !.data = [f \in hashFields(h) |-> hashGet(h, f)]]

hashSet(h0, f, val) ==
  LET h == IF h0.enc = "listpack" /\ hashShouldPromote(h0, f, val) THEN hashPromote(h0) ELSE h0
      i == FindField(h.data, f)
  IN [h EXCEPT !.data = IF h.enc = "hashtable" THEN (f :> val) @@ @
                     ELSE IF i > 0 THEN ReplaceAt(@, i, <<f, val>>)
                     ELSE Append(@, <<f, val>>)]

hashDel(h, f) ==
  [h EXCEPT !.data = IF h.enc = "hashtable" THEN Restrict(@, DOMAIN @ \ {f})
                  ELSE IF FindField(@, f) > 0 THEN RemoveAt(@, FindField(@, f)) ELSE @]

\* A missing key gets an empty hash, before the handler knows what it stores.
getOrCreateHash(s0, k) ==
  LET s == Get(s0, k) IN IF s.entries[k] = Nil THEN Set(s, k, EmptyHash) ELSE s

------------------------------------------------------------------------------

\* HSET answers the number of new fields, HMSET answers OK.
hsetGeneric(s0, c) ==
  LET s   == getOrCreateHash(s0, c.key)
      h   == s.entries[c.key]
      new == FoldLeft(LAMBDA x, p : hashSet(x, p[1], p[2]), h, c.pairs)
  IN IF WrongType(h, "hash") THEN Result(s, Error)
     ELSE Result([s EXCEPT !.entries[c.key] = new],
                 IF c.name = "hmset" THEN OK
                 ELSE Integer(Cardinality(hashFields(new) \ hashFields(h))))

hsetnxCommand(s0, c) ==
  LET s == getOrCreateHash(s0, c.key)  h == s.entries[c.key]
  IN IF WrongType(h, "hash") THEN Result(s, Error)
     ELSE IF c.field \in hashFields(h) THEN Result(s, Integer(0))
     ELSE Result([s EXCEPT !.entries[c.key] = hashSet(@, c.field, c.val)], Integer(1))

hincrbyCommand(s0, c) ==
  LET s   == getOrCreateHash(s0, c.key)
      h   == s.entries[c.key]
      has == c.field \in hashFields(h)
      cur == IF has THEN Number(hashGet(h, c.field)) ELSE 0
  IN IF c.n = NaI THEN Result(s0, Error)
     ELSE IF WrongType(h, "hash") THEN Result(s, Error)
     ELSE IF has /\ ~IsInt(hashGet(h, c.field)) THEN Result(s, Error)
     ELSE IF Overflows(cur, c.n) THEN Result(s, Error)
     ELSE Result([s EXCEPT !.entries[c.key] = hashSet(@, c.field, FormatInt(cur + c.n))],
                 Integer(cur + c.n))

\* The key goes when its last field does.
hdelCommand(s0, c) ==
  LET s   == Get(s0, c.key)
      h   == s.entries[c.key]
      new == FoldLeft(hashDel, h, c.fields)
      out == [s EXCEPT !.entries[c.key] = new]
  IN IF h = Nil THEN Result(s, Integer(0))
     ELSE IF WrongType(h, "hash") THEN Result(s, Error)
     ELSE Result(IF hashLen(new) = 0 THEN Del(out, c.key) ELSE out,
                 Integer(hashLen(h) - hashLen(new)))

hgetCommand(s, c) ==
  Read(s, c.key, "hash", Null,
       LAMBDA h : IF c.field \in hashFields(h) THEN Bulk(hashGet(h, c.field)) ELSE Null)

hexistsCommand(s, c) ==
  Read(s, c.key, "hash", Integer(0),
       LAMBDA h : Integer(IF c.field \in hashFields(h) THEN 1 ELSE 0))

hstrlenCommand(s, c) ==
  Read(s, c.key, "hash", Integer(0),
       LAMBDA h : Integer(IF c.field \in hashFields(h) THEN Len(hashGet(h, c.field)) ELSE 0))

hlenCommand(s, c) == Read(s, c.key, "hash", Integer(0), LAMBDA h : Integer(hashLen(h)))

\* The header announces Len entries; ForEach emits one per slot.
hgetallCommand(s, c) ==
  Read(s, c.key, "hash", Array({}),
       LAMBDA h : Array({<<f, hashGet(h, f)>> : f \in hashFields(h)}))

hkeysCommand(s, c) == Read(s, c.key, "hash", Array({}), LAMBDA h : Array(hashFields(h)))

hvalsCommand(s, c) ==
  Read(s, c.key, "hash", Array(<<>>),
       LAMBDA h : Array([f \in hashFields(h) |-> hashGet(h, f)]))

\* HMGET answers nils, not WRONGTYPE, for a key of another type.
hmgetCommand(s0, c) ==
  LET s == Get(s0, c.key)  h == s.entries[c.key]
  IN Result(s, Array([i \in DOMAIN c.fields |->
       IF h.type = "hash" /\ c.fields[i] \in hashFields(h)
       THEN Bulk(hashGet(h, c.fields[i])) ELSE Null]))

\* randCount: how many to draw, whether with repeats, and whether it is refused.
randCount(n) ==
  [n |-> IF n < 0 THEN -n ELSE n, repeats |-> n < 0,
   bad |-> n \in {NaI, MinInt} \/ (IF n < 0 THEN -n ELSE n) > MaxRandCount]

\* What a draw of n from the members may answer: distinct ones, or with repeats.
Draws(members, r) ==
  IF r.repeats THEN [1 .. r.n -> members]
  ELSE IF r.n >= Cardinality(members) THEN {members}
  ELSE kSubset(r.n, members)

\* c.single is the form without a count.
hrandfieldOutcomes(s0, c) ==
  LET s == Get(s0, c.key)
      h == s.entries[c.key]
  IN IF WrongType(h, "hash") THEN {Result(s, Error)}
     ELSE IF c.single
     THEN IF h = Nil THEN {Result(s, Null)} ELSE {Result(s, Bulk(f)) : f \in hashFields(h)}
     ELSE IF randCount(c.n).bad THEN {Result(s, Error)}
     ELSE IF h = Nil THEN {Result(s, Array({}))}
     ELSE {Result(s, Array(d)) : d \in Draws(hashFields(h), randCount(c.n))}

\* HSCAN returns the whole hash and a zero cursor; opts has passed parseScanOpts
\* (c.bad otherwise), and c.match is the set of fields the pattern accepts.
hscanCommand(s, c) ==
  IF c.bad THEN Result(s, Error)
  ELSE Read(s, c.key, "hash", Array({}), LAMBDA h : Array(hashFields(h) \cap c.match))

HashWrites == {"hset", "hmset", "hsetnx", "hincrby", "hincrbyfloat", "hdel"}
=============================================================================
