------------------------------- MODULE StreamLog -------------------------------
(***************************************************************************)
(* What a stream promises its clients, whatever it is stored in: a log of  *)
(* entries in the order of their IDs, and groups that hand each entry to   *)
(* one consumer, who owns it until it is acknowledged or claimed.          *)
(*                                                                         *)
(* op is the last call and what it answered, so that an implementation has *)
(* to agree on the answers as well.  StreamStore implements this.          *)
(***************************************************************************)
EXTENDS Integers, Sequences, FiniteSets, SequencesExt

CONSTANT MaxWord \* the largest half of an ID

VARIABLES
  log,    \* the entries, oldest first
  top,    \* the ID of the last entry added
  groups, \* group -> [cursor, pel: ID -> [owner, time, count], seen: consumer -> IDs]
  clock,
  op      \* the last call: [call, reply], or [call, error]

vars == <<log, top, groups, clock, op>>

Before(a, b) == a[1] < b[1] \/ (a[1] = b[1] /\ a[2] < b[2])
UpTo(a, b)   == ~Before(b, a)

IDs(entries) == {entries[i].id : i \in DOMAIN entries}
FirstOf(entries, n) == IF n > 0 /\ n < Len(entries) THEN SubSeq(entries, 1, n) ELSE entries
Newest(entries, n) == SubSeq(entries, IF n < Len(entries) THEN Len(entries) - n + 1 ELSE 1, Len(entries))
Without(entries, gone) == SelectSeq(entries, LAMBDA e : e.id \notin gone)
Between(lo, hi) == SelectSeq(log, LAMBDA e : UpTo(lo, e.id) /\ UpTo(e.id, hi))

Answers(c, reply) == op' = [call |-> c, reply |-> reply]
Fails(c)          == op' = [call |-> c, error |-> TRUE]

Init ==
  /\ log = <<>>
  /\ top = <<0, 0>>
  /\ groups = [g \in {} |-> {}]
  /\ clock = 1
  /\ op = [call |-> [name |-> "none"], error |-> FALSE]

\* The ID is the caller's, or one chosen past the last.
Add(c) ==
  /\ "reply" \in DOMAIN op' /\ Answers(c, op'.reply)
  /\ c.spec.kind = "id" => op'.reply = c.spec.id
  /\ log = <<>> \/ Before(top, op'.reply)
  /\ LET all  == Append(log, [id |-> op'.reply, val |-> c.val, size |-> c.size])
         kept == IF c.maxLen > 0 THEN Newest(all, c.maxLen) ELSE all
     IN log' = SelectSeq(kept, LAMBDA e : UpTo(c.minID, e.id))
  /\ top' = op'.reply
  /\ UNCHANGED <<groups, clock>>

\* An ID that does not follow the last is refused, unless the log is empty; one
\* that the caller leaves open, only when there is none to choose.
Refuse(c) ==
  /\ log # <<>>
  /\ CASE c.spec.kind = "id"   -> UpTo(c.spec.id, top)
       [] c.spec.kind = "seq"  -> UpTo(<<c.spec.id[1], MaxWord>>, top)
       [] c.spec.kind = "auto" -> top[2] = MaxWord
  /\ Fails(c)
  /\ UNCHANGED <<log, top, groups, clock>>

Trim(c) ==
  /\ log' = Newest(log, IF c.maxLen < 0 THEN 0 ELSE c.maxLen)
  /\ Answers(c, Len(log) - Len(log'))
  /\ UNCHANGED <<top, groups, clock>>

TrimBelow(c) ==
  /\ log' = SelectSeq(log, LAMBDA e : UpTo(c.minID, e.id))
  /\ Answers(c, Len(log) - Len(log'))
  /\ UNCHANGED <<top, groups, clock>>

Delete(c) ==
  /\ log' = Without(log, c.ids)
  /\ Answers(c, Cardinality(c.ids \cap IDs(log)))
  /\ UNCHANGED <<top, groups, clock>>

\* Reads leave everything as it is.
Read(c) ==
  /\ Answers(c, CASE c.name = "len"      -> Len(log)
                  [] c.name = "range"    -> FirstOf(Between(c.start, c.end), c.count)
                  [] c.name = "revrange" -> FirstOf(Reverse(Between(c.end, c.start)), c.count)
                  [] c.name = "read"     -> FirstOf(SelectSeq(log, LAMBDA e : Before(c.start, e.id)),
                                                    c.count))
  /\ UNCHANGED <<log, top, groups, clock>>

------------------------------------------------------------------------------

GroupExists(c) == c.group \in DOMAIN groups
Becomes(g, cg) == groups' = (g :> cg) @@ groups
Owned(cg, consumer) == {id \in DOMAIN cg.pel : cg.pel[id].owner = consumer}
Seen(cg, consumer) == IF consumer \in DOMAIN cg.seen THEN cg.seen[consumer] ELSE {}

\* cg after some entries went to a consumer, pending unless it asked for none.
Given(cg, consumer, ids) ==
  [cg EXCEPT !.pel = [id \in ids |-> [owner |-> consumer, time |-> clock,
                                      count |-> IF id \in DOMAIN cg.pel
                                                THEN cg.pel[id].count + 1 ELSE 1]] @@ @,
             !.seen = (consumer :> (Seen(cg, consumer) \cup ids)) @@ @]

Create(c) ==
  /\ ~GroupExists(c)
  /\ Becomes(c.group, [cursor |-> IF c.last THEN top ELSE c.start, pel |-> [i \in {} |-> {}],
                       seen |-> [i \in {} |-> {}]])
  /\ Answers(c, TRUE)
  /\ UNCHANGED <<log, top, clock>>

SetID(c) ==
  /\ GroupExists(c)
  /\ Becomes(c.group, [groups[c.group] EXCEPT !.cursor = IF c.last THEN top ELSE c.start])
  /\ Answers(c, TRUE)
  /\ UNCHANGED <<log, top, clock>>

Destroy(c) ==
  /\ GroupExists(c)
  /\ groups' = Restrict(groups, DOMAIN groups \ {c.group})
  /\ Answers(c, TRUE)
  /\ UNCHANGED <<log, top, clock>>

\* A call on a group that is not there, or CREATE of one that is.
GroupError(c) ==
  /\ GroupExists(c) = (c.name = "create")
  /\ Fails(c)
  /\ UNCHANGED <<log, top, groups, clock>>

\* The entries past the cursor, which moves to the last of them.
Deliver(c) ==
  /\ GroupExists(c)
  /\ LET cg  == groups[c.group]
         new == FirstOf(SelectSeq(log, LAMBDA e : Before(cg.cursor, e.id)), c.count)
         moved == IF new = <<>> THEN cg ELSE [cg EXCEPT !.cursor = Last(new).id]
     IN /\ Becomes(c.group, IF c.noAck \/ new = <<>> THEN moved ELSE Given(moved, c.consumer, IDs(new)))
        /\ Answers(c, new)
  /\ UNCHANGED <<log, top, clock>>

\* What a consumer has to process: all it owns, and it may be shown entries that
\* were its own before another consumer claimed them.
History(c) ==
  /\ GroupExists(c)
  /\ LET cg == groups[c.group]
     IN \E shown \in SUBSET Seen(cg, c.consumer) :
          /\ Owned(cg, c.consumer) \subseteq shown
          /\ Answers(c, FirstOf(SelectSeq(log, LAMBDA e : e.id \in shown /\ Before(c.start, e.id)),
                                c.count))
  /\ UNCHANGED <<log, top, groups, clock>>

Ack(c) ==
  /\ GroupExists(c)
  /\ LET cg == groups[c.group]
     IN /\ Becomes(c.group, [cg EXCEPT !.pel = Restrict(@, DOMAIN @ \ c.ids)])
        /\ Answers(c, Cardinality(c.ids \cap DOMAIN cg.pel))
  /\ UNCHANGED <<log, top, clock>>

Pending(c) ==
  /\ GroupExists(c)
  /\ LET cg   == groups[c.group]
         held == SelectSeq(Between(c.start, c.end),
                           LAMBDA e : e.id \in DOMAIN cg.pel
                                      /\ c.filter \in {"", cg.pel[e.id].owner})
     IN Answers(c, FirstOf([i \in DOMAIN held |->
          [id |-> held[i].id, owner |-> cg.pel[held[i].id].owner,
           count |-> cg.pel[held[i].id].count]], c.count))
  /\ UNCHANGED <<log, top, groups, clock>>

\* Only entries somebody has left alone for long enough change hands.
Claim(c) ==
  /\ GroupExists(c)
  /\ LET cg == groups[c.group]
         got == {id \in c.ids \cap DOMAIN cg.pel : clock - cg.pel[id].time >= c.minIdle}
     IN /\ Becomes(c.group, IF got = {} THEN cg ELSE Given(cg, c.consumer, got))
        /\ Answers(c, SelectSeq(log, LAMBDA e : e.id \in got))
  /\ UNCHANGED <<log, top, clock>>

Tick == clock' = clock + 1 /\ UNCHANGED <<log, top, groups, op>>

Call(c) ==
  \/ c.name = "add" /\ (Add(c) \/ Refuse(c))
  \/ c.name = "trim" /\ Trim(c)
  \/ c.name = "minid" /\ TrimBelow(c)
  \/ c.name = "del" /\ Delete(c)
  \/ c.name \in {"len", "range", "revrange", "read"} /\ Read(c)
  \/ c.name = "create" /\ Create(c)
  \/ c.name = "setid" /\ SetID(c)
  \/ c.name = "destroy" /\ Destroy(c)
  \/ c.name = "new" /\ Deliver(c)
  \/ c.name = "history" /\ History(c)
  \/ c.name = "ack" /\ Ack(c)
  \/ c.name = "pending" /\ Pending(c)
  \/ c.name = "claim" /\ Claim(c)
  \/ c.name \in {"create", "setid", "destroy", "new", "history", "ack", "pending", "claim"}
     /\ GroupError(c)

Next == Call(op'.call) \/ Tick

Spec == Init /\ [][Next]_vars
=============================================================================
