------------------------------ MODULE StreamData ------------------------------
(***************************************************************************)
(* A stream value: datastruct/stream.  Entries lie in a list of chunks, a  *)
(* deleted entry stays where it is with a flag, and a chunk leaves only    *)
(* from the head.  Each operator is one method of Stream, which runs under *)
(* the mutex of the stream, and gives the stream it leaves.                *)
(*                                                                         *)
(* An ID is a pair <<ms, seq>>.  An entry's fields and values are one      *)
(* payload with a size; the waiters of blocked readers are in StreamBlock. *)
(***************************************************************************)
EXTENDS Integers, Sequences, FiniteSets, SequencesExt

CONSTANTS
  MaxChunkEntries, \* entries of a chunk
  ChunkArenaSize,  \* the slab a chunk copies its values into
  MaxWord          \* the largest uint64 in an ID

ZeroID == <<0, 0>>
MaxID  == <<MaxWord, MaxWord>>

Compare(a, b) == IF a[1] < b[1] \/ (a[1] = b[1] /\ a[2] < b[2]) THEN -1
                 ELSE IF a = b THEN 0 ELSE 1

\* An ID as a command spells it is a record: kind "min", "max", "auto" (*),
\* "seq" (ms-*), "id", or "bad" for what ParseUint refuses.
BadID == <<-1, -1>>

ParseID(spec, lastID, now) ==
  LET ms == IF now < lastID[1] THEN lastID[1] ELSE now
      Succ(m) == IF m = lastID[1] THEN (lastID[2] + 1) % (MaxWord + 1) ELSE 0
  IN CASE spec.kind = "min"  -> ZeroID
       [] spec.kind = "max"  -> MaxID
       [] spec.kind = "auto" -> <<ms, Succ(ms)>>
       [] spec.kind = "seq"  -> <<spec.id[1], Succ(spec.id[1])>>
       [] spec.kind = "id"   -> spec.id
       [] spec.kind = "bad"  -> BadID

NoGroups  == [g \in {} |-> {}]
NewStream == [chunks |-> <<>>, length |-> 0, last |-> ZeroID, groups |-> NoGroups]
NewChunk  == [entries |-> <<>>, deleted |-> 0, used |-> 0]

NumActive(chunk) == Len(chunk.entries) - chunk.deleted

\* Chunk.Append: FALSE when the chunk is full or its slab has no room left.
Fits(chunk, size) ==
  Len(chunk.entries) < MaxChunkEntries /\ chunk.used + size <= ChunkArenaSize

ChunkAppend(chunk, id, e) ==
  [chunk EXCEPT !.entries = Append(@, [id |-> id, val |-> e.val, size |-> e.size, gone |-> FALSE]),
                !.used = @ + e.size]

------------------------------------------------------------------------------
(* Trimming and deletion.                                                   *)

\* The positions of the first n entries that are not deleted.
FirstActive(entries, n) ==
  {i \in DOMAIN entries :
     /\ ~entries[i].gone
     /\ Cardinality({j \in 1 .. i : ~entries[j].gone}) <= n}

MarkGone(chunk, at) ==
  [chunk EXCEPT !.entries = [i \in DOMAIN @ |-> IF i \in at THEN [@[i] EXCEPT !.gone = TRUE] ELSE @[i]],
                !.deleted = @ + Cardinality(at)]

\* Whole chunks while that leaves enough, else entry by entry; a chunk whose
\* last entry went is released.
RECURSIVE trimInternal(_, _, _)
trimInternal(st, maxLen, approx) ==
  LET head   == Head(st.chunks)
      active == NumActive(head)
      marked == MarkGone(head, FirstActive(head.entries, st.length - maxLen))
      n      == marked.deleted - head.deleted
  IN IF st.length <= maxLen \/ st.chunks = <<>> THEN st
     ELSE IF approx /\ st.length - active >= maxLen
     THEN trimInternal([st EXCEPT !.length = @ - active, !.chunks = Tail(@)], maxLen, approx)
     ELSE trimInternal([st EXCEPT !.length = @ - n,
                                  !.chunks = IF NumActive(marked) = 0 THEN Tail(@)
                                             ELSE ReplaceAt(@, 1, marked)], maxLen, approx)

Trim(st, maxLen, approx) == trimInternal(st, maxLen, approx)

Delete(st, ids) ==
  LET At(chunk) == {i \in DOMAIN chunk.entries :
                      ~chunk.entries[i].gone /\ chunk.entries[i].id \in ids}
      n == FoldLeft(LAMBDA x, c : x + Cardinality(At(c)), 0, st.chunks)
  IN [st EXCEPT !.chunks = [i \in DOMAIN @ |-> MarkGone(@[i], At(@[i]))],
                !.length = @ - n]

------------------------------------------------------------------------------
(* Appending.  The order of IDs is only enforced while the stream has       *)
(* entries; an entry no slab can hold is counted and not stored.            *)

Refused(st, id) == st.length > 0 /\ Compare(id, st.last) <= 0

Add(st, id, e, maxLen, approx) ==
  LET base  == IF st.chunks = <<>> THEN <<NewChunk>> ELSE st.chunks
      fresh == IF Fits(NewChunk, e.size) THEN ChunkAppend(NewChunk, id, e) ELSE NewChunk
      added == [st EXCEPT
                 !.chunks = IF Fits(Last(base), e.size)
                            THEN ReplaceAt(base, Len(base), ChunkAppend(Last(base), id, e))
                            ELSE Append(base, fresh),
                 !.last = id, !.length = @ + 1]
  IN IF maxLen > 0 /\ added.length > maxLen THEN trimInternal(added, maxLen, approx) ELSE added

------------------------------------------------------------------------------
(* Reading.  A scan skips a chunk by the ID at its far end, passes over     *)
(* deleted entries, and ends at the first entry beyond the range.           *)

FirstN(s, n) == IF n > 0 /\ n < Len(s) THEN SubSeq(s, 1, n) ELSE s

Unpack(entries) ==
  [i \in DOMAIN entries |-> [id |-> entries[i].id, val |-> entries[i].val, size |-> entries[i].size]]

\* The leading entries that satisfy In.
While(entries, In(_)) ==
  LET out == SelectInSeq(entries, LAMBDA e : ~In(e))
  IN IF out = 0 THEN entries ELSE SubSeq(entries, 1, out - 1)

Active(chunks) == SelectSeq(FlattenSeq([i \in DOMAIN chunks |-> chunks[i].entries]),
                            LAMBDA e : ~e.gone)

\* Mutant: a chunk is skipped by the ID of its first entry.
StreamRangeSkipsByFirst(st, start, end, count, reverse) ==
  LET Skip(c)  == c.entries # <<>> /\ Compare(Head(c.entries).id, start) < 0
      chunks   == SelectSeq(st.chunks, LAMBDA c : ~Skip(c))
      from     == SelectSeq(Active(chunks), LAMBDA e : Compare(e.id, start) >= 0)
  IN FirstN(Unpack(While(from, LAMBDA e : Compare(e.id, end) <= 0)), count)

StreamRange(st, start, end, count, reverse) ==
  LET FwdSkip(c) == c.entries # <<>> /\ Compare(Last(c.entries).id, start) < 0
      RevSkip(c) == c.entries # <<>> /\ Compare(Head(c.entries).id, start) > 0
      chunks     == SelectSeq(st.chunks, LAMBDA c : IF reverse THEN ~RevSkip(c) ELSE ~FwdSkip(c))
      entries    == IF reverse THEN Reverse(Active(chunks)) ELSE Active(chunks)
      d          == IF reverse THEN -1 ELSE 1
      from       == SelectSeq(entries, LAMBDA e : d * Compare(e.id, start) >= 0)
  IN FirstN(Unpack(While(from, LAMBDA e : d * Compare(e.id, end) <= 0)), count)

\* trimBelowMinID of commands/stream.go.
trimBelowMinID(st, minID) ==
  LET old == StreamRange(st, ZeroID, minID, 0, FALSE)
  IN Delete(st, {e.id : e \in {x \in ToSet(old) : Compare(x.id, minID) < 0}})

------------------------------------------------------------------------------
(* Consumer groups.  A group has its cursor, its pending list, and for each *)
(* consumer the IDs of the consumer's own pending list.                     *)

NewConsumerGroup(startID) == [cursor |-> startID, pel |-> NoGroups, cons |-> NoGroups]

WithGroup(st, g, cg) == [st EXCEPT !.groups = (g :> cg) @@ @]

GetOrCreateConsumer(cg, c) == [cg EXCEPT !.cons = @ @@ (c :> {})]

\* An entry that is pending already changes its owner; it is not taken from the
\* list of the consumer that had it.
AddPending(cg0, c, id, now) ==
  LET cg  == GetOrCreateConsumer(cg0, c)
      old == cg.pel[id]
      new == IF id \in DOMAIN cg.pel
             THEN [owner |-> c, time |-> now, count |-> old.count + 1]
             ELSE [owner |-> c, time |-> now, count |-> 1]
  IN [cg EXCEPT !.pel = (id :> new) @@ @, !.cons[c] = @ \cup {id}]

GroupAck(cg, id) ==
  IF id \notin DOMAIN cg.pel THEN cg
  ELSE [cg EXCEPT !.pel = Restrict(@, DOMAIN @ \ {id}),
                  !.cons[cg.pel[id].owner] = @ \ {id}]

HasGroup(st, g) == g \in DOMAIN st.groups

CreateGroup(st, g, startID) == WithGroup(st, g, NewConsumerGroup(startID))

SetGroupID(st, g, id) == [st EXCEPT !.groups[g].cursor = id]

DestroyGroup(st, g) == [st EXCEPT !.groups = Restrict(@, DOMAIN @ \ {g})]

\* What XREADGROUP delivers: new entries move the cursor and become pending, an
\* ID asks again for the consumer's own pending entries.
ReadGroup(st, g, c, startID, isNew, count, noAck, now) ==
  LET cg == st.groups[g]
      Deliver(acc, e) ==
        IF Compare(e.id, acc.cg.cursor) <= 0 \/ (count > 0 /\ Len(acc.out) >= count) THEN acc
        ELSE [out |-> Append(acc.out, e),
              cg  |-> [(IF noAck THEN acc.cg ELSE AddPending(acc.cg, c, e.id, now))
                        EXCEPT !.cursor = e.id]]
      new   == FoldLeft(Deliver, [out |-> <<>>, cg |-> cg], Active(st.chunks))
      known == GetOrCreateConsumer(cg, c)
      own   == SelectSeq(Active(st.chunks),
                         LAMBDA e : Compare(e.id, startID) > 0 /\ e.id \in known.cons[c])
  IN IF isNew THEN [st |-> WithGroup(st, g, new.cg), out |-> Unpack(new.out)]
     ELSE [st |-> WithGroup(st, g, known), out |-> FirstN(Unpack(own), count)]

Ack(st, g, ids) ==
  WithGroup(st, g, FoldLeft(GroupAck, st.groups[g], ids))

Pending(st, g, start, end, count, filter) ==
  LET cg   == st.groups[g]
      from == SelectSeq(Active(st.chunks), LAMBDA e : Compare(e.id, start) >= 0)
      in   == While(from, LAMBDA e : Compare(e.id, end) <= 0)
      held == SelectSeq(in, LAMBDA e : e.id \in DOMAIN cg.pel
                                       /\ filter \in {"", cg.pel[e.id].owner})
  IN FirstN([i \in DOMAIN held |-> [id |-> held[i].id, owner |-> cg.pel[held[i].id].owner,
                                    count |-> cg.pel[held[i].id].count]], count)

\* Claims every pending ID that has been idle long enough, and returns those of
\* them whose entry is still there.
Claim(st, g, c, minIdle, ids, now) ==
  LET Take(acc, id) ==
        IF id \in DOMAIN acc.cg.pel /\ now - acc.cg.pel[id].time >= minIdle
        THEN [cg |-> AddPending(acc.cg, c, id, now), got |-> acc.got \cup {id}] ELSE acc
      end == FoldLeft(Take, [cg |-> st.groups[g], got |-> {}], ids)
  IN [st |-> WithGroup(st, g, end.cg),
      out |-> Unpack(SelectSeq(Active(st.chunks), LAMBDA e : e.id \in end.got))]
=============================================================================
