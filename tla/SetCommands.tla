------------------------------ MODULE SetCommands ------------------------------
(***************************************************************************)
(* Sets: commands/set.go, set_ops.go, set_encoding.go and SSCAN.  A set is *)
(* [type, enc, data]: in an intset data is a set of integers, in a         *)
(* listpack the sequence of its members, in a hash table a set of members. *)
(***************************************************************************)
EXTENDS ListCommands

CONSTANTS
  SetMaxIntsetEntries,   \* set-max-intset-entries
  SetMaxListpackEntries, \* set-max-listpack-entries
  SetMaxListpackValue    \* set-max-listpack-value

EmptySet == [type |-> "set", enc |-> "intset", data |-> {}]

\* intset.Parse: the canonical decimal form of an int64.
IsIntsetMember(m) == IsInt(m) /\ FormatInt(Number(m)) = m

setMembers(x) ==
  CASE x.enc = "intset"    -> {FormatInt(n) : n \in x.data}
    [] x.enc = "listpack"  -> ToSet(x.data)
    [] x.enc = "hashtable" -> x.data

setCard(x) == IF x.enc = "listpack" THEN Len(x.data) ELSE Cardinality(x.data)

\* setView.Contains: an intset looks for the number, not for the text.
setContains(x, m) ==
  IF x.enc = "intset" THEN IsIntsetMember(m) /\ Number(m) \in x.data ELSE m \in setMembers(x)

\* The members in the order Members() lists them; a hash table has no order.
setOrder(x) ==
  IF x.enc = "intset"
  THEN LET ns == SetToSortSeq(x.data, <) IN [i \in DOMAIN ns |-> FormatInt(ns[i])]
  ELSE x.data

toListpack(x) == [x EXCEPT !.enc = "listpack", !.data = setOrder(x)]

toHashSet(x) == [x EXCEPT !.enc = "hashtable", !.data = setMembers(x)]

\* addOne, one encoding after the other as in the code.
addOne(x0, m) ==
  LET fits    == IsIntsetMember(m) /\ Cardinality(x0.data) < SetMaxIntsetEntries
      leave   == IF /\ Len(m) <= SetMaxListpackValue
                    /\ Cardinality(x0.data) < SetMaxListpackEntries
                 THEN toListpack(x0) ELSE toHashSet(x0)
      x1      == IF x0.enc = "intset" THEN leave ELSE x0
      x2      == IF /\ x1.enc = "listpack"
                    /\ Len(m) > SetMaxListpackValue \/ Len(x1.data) >= SetMaxListpackEntries
                 THEN toHashSet(x1) ELSE x1
  IN IF setContains(x0, m) THEN x0
     ELSE IF x0.enc = "intset" /\ fits THEN [x0 EXCEPT !.data = @ \cup {Number(m)}]
     ELSE [x2 EXCEPT !.data = IF x2.enc = "listpack" THEN Append(@, m) ELSE @ \cup {m}]

setAdd(x, members) == FoldLeft(addOne, x, members)

removeOne(x, m) ==
  IF ~setContains(x, m) THEN x
  ELSE [x EXCEPT !.data = CASE x.enc = "intset"    -> @ \ {Number(m)}
                         [] x.enc = "listpack"  -> RemoveFirst(@, m)
                         [] x.enc = "hashtable" -> @ \ {m}]

setRemove(x, members) == FoldLeft(removeOne, x, members)

getOrCreateSet(s0, k) ==
  LET s == Get(s0, k) IN IF s.entries[k] = Nil THEN Set(s, k, EmptySet) ELSE s

\* Store the set, or delete the key when nothing is left.
PutSet(s, k, x) == IF setCard(x) = 0 THEN Del(s, k) ELSE [s EXCEPT !.entries[k] = x]

------------------------------------------------------------------------------

saddCommand(s0, c) ==
  LET s   == getOrCreateSet(s0, c.key)
      x   == s.entries[c.key]
      new == setAdd(x, c.members)
  IN IF WrongType(x, "set") THEN Result(s, Error)
     ELSE Result([s EXCEPT !.entries[c.key] = new], Integer(setCard(new) - setCard(x)))

sremCommand(s0, c) ==
  LET s   == Get(s0, c.key)
      x   == s.entries[c.key]
      new == setRemove(x, c.members)
  IN IF x = Nil THEN Result(s, Integer(0))
     ELSE IF WrongType(x, "set") THEN Result(s, Error)
     ELSE Result(PutSet(s, c.key, new), Integer(setCard(x) - setCard(new)))

\* SPOP takes the first members of Members(): any of them for a hash table,
\* the smallest or the oldest otherwise.
Pops(x, count) ==
  LET n == IF count > setCard(x) THEN setCard(x) ELSE count
  IN IF x.enc = "hashtable" THEN {SetToSeq(P) : P \in kSubset(n, x.data)}
     ELSE {SubSeq(setOrder(x), 1, n)}

\* What it did is propagated, not what it was asked.
spopPropagates(k, popped, emptied) ==
  IF popped = <<>> THEN PropagateNothing
  ELSE IF emptied THEN Propagate(DEL(k))
  ELSE Propagate([name |-> "srem", key |-> k, members |-> popped])

\* c.single is SPOP without a count.
spopOutcomes(s0, c) ==
  LET s == Get(s0, c.key)
      x == s.entries[c.key]
      Outcome(p) ==
        LET new == setRemove(x, p)
        IN ResultP(PutSet(s, c.key, new),
                   IF ~c.single THEN Array(p) ELSE IF p = <<>> THEN Null ELSE Bulk(p[1]),
                   spopPropagates(c.key, p, setCard(new) = 0))
  IN IF ~c.single /\ (c.n = NaI \/ c.n < 0 \/ c.n > MaxRandCount) THEN {Result(s0, Error)}
     ELSE IF x = Nil THEN {Result(s, IF c.single THEN Null ELSE Array(<<>>))}
     ELSE IF WrongType(x, "set") THEN {Result(s, Error)}
     ELSE {Outcome(p) : p \in Pops(x, IF c.single THEN 1 ELSE c.n)}

smembersCommand(s, c) == Read(s, c.key, "set", Array({}), LAMBDA x : Array(setMembers(x)))

sismemberCommand(s, c) ==
  Read(s, c.key, "set", Integer(0),
       LAMBDA x : Integer(IF setContains(x, c.member) THEN 1 ELSE 0))

smismemberCommand(s, c) ==
  Read(s, c.key, "set", Array([i \in DOMAIN c.members |-> 0]),
       LAMBDA x : Array([i \in DOMAIN c.members |->
                           IF setContains(x, c.members[i]) THEN 1 ELSE 0]))

scardCommand(s, c) == Read(s, c.key, "set", Integer(0), LAMBDA x : Integer(setCard(x)))

srandmemberOutcomes(s0, c) ==
  LET s == Get(s0, c.key)
      x == s.entries[c.key]
  IN IF WrongType(x, "set") THEN {Result(s, Error)}
     ELSE IF c.single
     THEN IF x = Nil THEN {Result(s, Null)} ELSE {Result(s, Bulk(m)) : m \in setMembers(x)}
     ELSE IF randCount(c.n).bad THEN {Result(s, Error)}
     ELSE IF x = Nil THEN {Result(s, Array({}))}
     ELSE {Result(s, Array(d)) : d \in Draws(setMembers(x), randCount(c.n))}

sscanCommand(s, c) ==
  IF c.bad THEN Result(s, Error)
  ELSE Read(s, c.key, "set", Array({}), LAMBDA x : Array(setMembers(x) \cap c.match))

------------------------------------------------------------------------------

\* setOp on the states of its operands: a missing key is the empty set.
setOp(s, keys, op) ==
  LET M(i)   == IF s.entries[keys[i]] = Nil THEN {} ELSE setMembers(s.entries[keys[i]])
      others == 2 .. Len(keys)
  IN CASE op = "inter" -> {m \in M(1) : \A i \in others : m \in M(i)}
       [] op = "union" -> UNION {M(i) : i \in DOMAIN keys}
       [] op = "diff"  -> {m \in M(1) : \A i \in others : m \notin M(i)}

\* The operands are looked up one by one; the first of another type ends the
\* command, and those after it are not reclaimed.
BadOperands(s, keys, types) ==
  {i \in DOMAIN keys : Get(s, keys[i]).entries[keys[i]].type \notin types \cup {"none"}}

GetOperands(s, keys, types) ==
  LET bad == BadOperands(s, keys, types)
  IN GetAll(s, IF bad = {} THEN keys ELSE SubSeq(keys, 1, Min(bad)))

setOpCommand(s0, c) ==
  LET s == GetOperands(s0, c.keys, {"set"})
  IN Result(s, IF BadOperands(s, c.keys, {"set"}) # {} THEN Error ELSE Array(setOp(s, c.keys, c.op)))

\* SINTERCARD stops at the limit, the others cap the count they computed.
setCardGeneric(s0, c) ==
  LET s == GetOperands(s0, c.keys, {"set"})
      n == Cardinality(setOp(s, c.keys, c.op))
  IN IF c.keys = <<>> \/ c.limit < 0 THEN Result(s0, Error)
     ELSE Result(s, IF BadOperands(s, c.keys, {"set"}) # {} THEN Error
                    ELSE Integer(IF c.limit > 0 /\ n > c.limit THEN c.limit ELSE n))

\* The orders Members() may list an operand in: any, for a hash table.
Orders(x) == IF x.enc = "hashtable" THEN SetToSeqs(x.data) ELSE {setOrder(x)}

\* The orders in which setOp lists its result: that of the first operand, or for
\* a union of all operands in turn without the members seen before.
Listings(s, keys, op) ==
  LET used   == {i \in DOMAIN keys : s.entries[keys[i]] # Nil /\ (op = "union" \/ i = 1)}
      result == setOp(s, keys, op)
      Ord(i) == IF i \in used THEN Orders(s.entries[keys[i]]) ELSE {<<>>}
      Pick   == {f \in [DOMAIN keys -> UNION {Ord(i) : i \in DOMAIN keys}] :
                   \A i \in DOMAIN keys : f[i] \in Ord(i)}
      Add(out, m) == IF m \in result /\ m \notin ToSet(out) THEN Append(out, m) ELSE out
  IN {FoldLeft(Add, <<>>, FlattenSeq(f)) : f \in Pick}

\* SINTERSTORE, SUNIONSTORE and SDIFFSTORE: the destination is replaced, after
\* the operands (one of which it may be) have been read.
storeOpOutcomes(s0, c) ==
  LET s       == GetOperands(s0, c.keys, {"set"})
      members == setOp(s, c.keys, c.op)
      cleared == getOrCreateSet(Del(s, c.dst), c.dst)
  IN IF BadOperands(s, c.keys, {"set"}) # {} THEN {Result(s, Error)}
     ELSE IF members = {} THEN {Result(Del(s, c.dst), Integer(0))}
     ELSE {Result([cleared EXCEPT !.entries[c.dst] = setAdd(@, order)],
                  Integer(Cardinality(members))) : order \in Listings(s, c.keys, c.op)}

smoveCommand(s0, c) ==
  LET s1   == Get(s0, c.key)
      src  == s1.entries[c.key]
      s2   == Get(s1, c.dst)
      s3   == getOrCreateSet(PutSet(s2, c.key, removeOne(src, c.member)), c.dst)
  IN IF WrongType(src, "set") THEN Result(s1, Error)
     ELSE IF WrongType(s2.entries[c.dst], "set") THEN Result(s2, Error)
     ELSE IF src = Nil \/ ~setContains(src, c.member) THEN Result(s2, Integer(0))
     ELSE Result([s3 EXCEPT !.entries[c.dst] = addOne(@, c.member)], Integer(1))

SetWrites == {"sadd", "srem", "spop", "smove", "sinterstore", "sunionstore", "sdiffstore"}
=============================================================================
