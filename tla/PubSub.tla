-------------------------------- MODULE PubSub --------------------------------
(***************************************************************************)
(* Publish/subscribe (pubsub/pubsub.go, commands/pubsub.go and the end of  *)
(* a connection in server/server.go).  The hub maps a channel to its       *)
(* subscribers under a lock, and keeps the pattern subscriptions in a list *)
(* that is replaced as a whole and read without a lock.  A subscriber has  *)
(* its own lock, its own record of what it subscribed to, and a bounded    *)
(* queue that its writer goroutine empties.  A message is its publisher,   *)
(* its number and the subscription that it came through.                   *)
(***************************************************************************)
EXTENDS Integers, Sequences, Functions

CONSTANTS
  Subs, Publishers, Channels,
  Matches,    \* the channels that each pattern matches
  QueueSize,  \* DefaultMsgQueueSize
  MaxCalls    \* calls in a run, PUBLISH among them

\* Channels and patterns are two kinds of subscriptions.
ASSUME SubscriptionAssumption ==
  /\ Matches \in [DOMAIN Matches -> SUBSET Channels]
  /\ Channels \cap DOMAIN Matches = {}
  /\ QueueSize \in Nat /\ MaxCalls \in Nat

VARIABLES
  channels, \* hub: subscribers of every channel
  patterns, \* hub: the list of pattern entries
  patMu,    \* who holds patMu
  subbed,   \* sub.channels and sub.patterns of every subscriber
  queue,    \* sub.MsgCh
  closed,   \* sub.closed
  conn,     \* the call that a connection is in
  calls,    \* calls made
  pub       \* the PUBLISH that a publisher is in

hubVars == <<channels, patterns, patMu, subbed, queue, closed, conn, calls, pub>>

Patterns == DOMAIN Matches
Idle     == [at |-> "idle", todo |-> {}, then |-> "idle", noting |-> {}]

HubInit ==
  /\ channels = [ch \in Channels |-> {}] /\ patterns = <<>> /\ patMu = {}
  /\ subbed = [s \in Subs |-> {}] /\ queue = [s \in Subs |-> <<>>]
  /\ closed = [s \in Subs |-> FALSE]
  /\ conn = [s \in Subs |-> Idle] /\ calls = 0
  /\ pub = [p \in Publishers |-> [at |-> "idle", n |-> 0]]

\* A shard's write lock waits for the publishers that read the channel.
Unread(ch) == \A p \in Publishers : ~(pub[p].at = "channel" /\ pub[p].ch = ch)

ConnGoes(s, next) == conn' = [conn EXCEPT ![s] = next]

\* A publisher owes nothing more to a subscriber that begins to unsubscribe.
Excuse(s) == pub' = [p \in Publishers |-> IF pub[p].at = "idle" THEN pub[p]
                       ELSE [pub[p] EXCEPT !.owed = {o \in @ : o[1] # s}]]

\* A client sends a command: "add" or "drop", and the subscription to handle.
Call(s, what, subscription) ==
  /\ conn[s] = Idle /\ ~closed[s] /\ calls < MaxCalls
  /\ ConnGoes(s, [at |-> what, todo |-> {subscription}, then |-> "idle", noting |-> {}])
  /\ calls' = calls + 1
  /\ IF what = "drop" THEN Excuse(s) ELSE UNCHANGED pub
  /\ UNCHANGED <<channels, patterns, patMu, subbed, queue, closed>>

\* Mutant: the patterns are forgotten.
UnsubscribeAllChannels(s, then) ==
  /\ ConnGoes(s, [at |-> "drop", todo |-> subbed[s] \cap Channels, then |-> then, noting |-> {}])
  /\ Excuse(s)

\* UnsubscribeAll takes its list of what to drop under the subscriber's lock.
UnsubscribeAll(s, then) == /\ ConnGoes(s, [at |-> "drop", todo |-> subbed[s], then |-> then, noting |-> {}])
                           /\ Excuse(s)

\* Without argument, UNSUBSCRIBE and PUNSUBSCRIBE both drop everything.
CallUnsubscribeAll(s) ==
  /\ conn[s] = Idle /\ ~closed[s] /\ calls < MaxCalls
  /\ UnsubscribeAll(s, "idle")
  /\ calls' = calls + 1
  /\ UNCHANGED <<channels, patterns, patMu, subbed, queue, closed>>

Disconnect(s) ==
  /\ conn[s] = Idle /\ ~closed[s]
  /\ UnsubscribeAll(s, "close")
  /\ UNCHANGED <<channels, patterns, patMu, subbed, queue, closed, calls>>

\* Between the hub's half of a subscription and the subscriber's.
Noting(s) == conn[s].noting # {}

\* The hub's half of Subscribe and Unsubscribe, under the shard's lock.
HubChannel(s) ==
  \E ch \in Channels :
    /\ conn[s].at \in {"add", "drop"} /\ ch \in conn[s].todo /\ ~Noting(s) /\ Unread(ch)
    /\ channels' = [channels EXCEPT ![ch] = IF conn[s].at = "add" THEN @ \cup {s} ELSE @ \ {s}]
    /\ ConnGoes(s, [conn[s] EXCEPT !.todo = @ \ {ch}, !.noting = {ch}])
    /\ UNCHANGED <<patterns, patMu, subbed, queue, closed, calls, pub>>

Entry(s, pat) == [sub |-> s, pat |-> pat]

\* The entries of a list that are in a set, in their order.
KeptUpTo(list, set) ==
  LET kept[i \in 0 .. Len(list)] ==
        IF i = 0 THEN <<>>
        ELSE IF list[i] \in set THEN Append(kept[i - 1], list[i]) ELSE kept[i - 1]
  IN kept
Keeping(list, set) == KeptUpTo(list, set)[Len(list)]

WithEntry(list, e) == IF e \in Range(list) THEN list ELSE Append(list, e)

WithoutEntry(list, e) == Keeping(list, Range(list) \ {e})

\* The hub's half of PSubscribe and PUnsubscribe: a new list, under patMu, which
\* is kept until the subscriber's half is done.  Channels come before patterns.
HubPattern(s) ==
  \E pat \in Patterns :
    /\ conn[s].at \in {"add", "drop"} /\ pat \in conn[s].todo /\ ~Noting(s) /\ patMu = {}
    /\ conn[s].todo \cap Channels = {}
    /\ patterns' = IF conn[s].at = "add" THEN WithEntry(patterns, Entry(s, pat))
                   ELSE WithoutEntry(patterns, Entry(s, pat))
    /\ patMu' = {s}
    /\ ConnGoes(s, [conn[s] EXCEPT !.todo = @ \ {pat}, !.noting = {pat}])
    /\ UNCHANGED <<channels, subbed, queue, closed, calls, pub>>

\* The subscriber's half, under its own lock; then the next subscription.
Note(s) ==
  /\ Noting(s)
  /\ subbed' = [subbed EXCEPT ![s] = IF conn[s].at = "add" THEN @ \cup conn[s].noting
                                     ELSE @ \ conn[s].noting]
  /\ patMu' = patMu \ {s}
  /\ ConnGoes(s, [conn[s] EXCEPT !.noting = {}])
  /\ UNCHANGED <<channels, patterns, queue, closed, calls, pub>>

\* Nothing left to handle: the reply, or the Close of a connection that ends.
Finish(s) ==
  /\ conn[s].at \in {"add", "drop"} /\ conn[s].todo = {} /\ ~Noting(s)
  /\ ConnGoes(s, Idle)
  /\ IF conn[s].then = "close"
     THEN closed' = [closed EXCEPT ![s] = TRUE] /\ subbed' = [subbed EXCEPT ![s] = {}]
     ELSE UNCHANGED <<closed, subbed>>
  /\ UNCHANGED <<channels, patterns, patMu, queue, calls, pub>>

\* The writer goroutine of the connection.
Drain(s) ==
  /\ queue[s] # <<>> /\ ~closed[s]
  /\ queue' = [queue EXCEPT ![s] = Tail(@)]
  /\ UNCHANGED <<channels, patterns, patMu, subbed, closed, conn, calls, pub>>

------------------------------------------------------------------------------

\* Mutant: the flag is not looked at under the lock.
MaySendAlways(s) == Len(queue[s]) < QueueSize

\* TrySend, under the subscriber's lock: not to a closed subscriber, and not to
\* one whose queue is full.
MaySend(s) == ~closed[s] /\ Len(queue[s]) < QueueSize

\* The subscriptions that a message must reach: those made before it is
\* published and not given up meanwhile.
Owed(ch) == {o \in Subs \X ({ch} \cup {pat \in Patterns : ch \in Matches[pat]}) :
               o[2] \in subbed[o[1]] /\ conn[o[1]].at # "drop"}

Publish(p, ch) ==
  /\ pub[p].at = "idle" /\ calls < MaxCalls
  /\ pub' = [pub EXCEPT ![p] = [at |-> "channel", n |-> @.n + 1, ch |-> ch, todo |-> channels[ch],
                                owed |-> Owed(ch), sent |-> {}, full |-> {}, list |-> <<>>]]
  /\ calls' = calls + 1
  /\ UNCHANGED <<channels, patterns, patMu, subbed, queue, closed, conn>>

\* The outcome of TrySend in the books of the publisher.
Booked(p, s, sub) == IF MaySend(s) THEN [pub[p] EXCEPT !.sent = @ \cup {<<s, sub>>}]
                     ELSE [pub[p] EXCEPT !.full = @ \cup {<<s, sub>>}]

TrySend(p, s, sub) ==
  queue' = IF MaySend(s) THEN [queue EXCEPT ![s] = Append(@, [p |-> p, n |-> pub[p].n, via |-> sub])]
           ELSE queue

\* Mutant: the first subscriber that cannot take the message ends the loop.
RestStops(p, s) == IF MaySend(s) THEN pub[p].todo \ {s} ELSE {}

Rest(p, s) == pub[p].todo \ {s}

\* Under the read lock of the shard, to one subscriber after the other.
ToChannel(p) ==
  /\ pub[p].at = "channel"
  /\ \E s \in pub[p].todo :
       /\ TrySend(p, s, pub[p].ch)
       /\ pub' = [pub EXCEPT ![p] = [Booked(p, s, pub[p].ch) EXCEPT !.todo = Rest(p, s)]]
  /\ UNCHANGED <<channels, patterns, patMu, subbed, closed, conn, calls>>

\* The lock is released; the list of patterns is loaded once.
LoadPatterns(p) ==
  /\ pub[p].at = "channel" /\ pub[p].todo = {}
  /\ pub' = [pub EXCEPT ![p].at = "pattern",
                        ![p].list = Keeping(patterns, {e \in Range(patterns) : pub[p].ch \in Matches[e.pat]})]
  /\ UNCHANGED <<channels, patterns, patMu, subbed, queue, closed, conn, calls>>

ToPattern(p) ==
  /\ pub[p].at = "pattern" /\ pub[p].list # <<>>
  /\ LET e == Head(pub[p].list)
     IN /\ TrySend(p, e.sub, e.pat)
        /\ pub' = [pub EXCEPT ![p] = [Booked(p, e.sub, e.pat) EXCEPT !.list = Tail(@)]]
  /\ UNCHANGED <<channels, patterns, patMu, subbed, closed, conn, calls>>

\* PUBLISH answers the number of receivers.
Answer(p) ==
  /\ pub[p].at = "pattern" /\ pub[p].list = <<>>
  /\ pub' = [pub EXCEPT ![p] = [at |-> "idle", n |-> @.n]]
  /\ UNCHANGED <<channels, patterns, patMu, subbed, queue, closed, conn, calls>>

HubNext ==
  \/ \E s \in Subs :
       \/ \E sub \in Channels \cup Patterns, what \in {"add", "drop"} : Call(s, what, sub)
       \/ CallUnsubscribeAll(s) \/ Disconnect(s)
       \/ HubChannel(s) \/ HubPattern(s) \/ Note(s) \/ Finish(s) \/ Drain(s)
  \/ \E p \in Publishers :
       \/ \E ch \in Channels : Publish(p, ch)
       \/ ToChannel(p) \/ LoadPatterns(p) \/ ToPattern(p) \/ Answer(p)

HubSpec == HubInit /\ [][HubNext]_hubVars

------------------------------------------------------------------------------

\* Between two calls of a connection the hub and the subscriber agree on what it
\* is subscribed to; a connection that ended has left no trace in the hub.
HubAgrees ==
  \A s \in Subs : conn[s] = Idle =>
    /\ \A ch \in Channels : s \in channels[ch] <=> ch \in subbed[s]
    /\ \A pat \in Patterns : Entry(s, pat) \in Range(patterns) <=> pat \in subbed[s]
    /\ closed[s] => subbed[s] = {}

\* A message reaches every subscription made before it was published and not
\* given up meanwhile, unless that subscriber's queue was full.
ReachesSubscribed ==
  \A p \in Publishers : pub[p].at = "pattern" /\ pub[p].list = <<>> =>
    pub[p].owed \subseteq pub[p].sent \cup pub[p].full

\* A subscriber sees what one publisher sent in the order it was sent, and each
\* message at most once for each subscription that matches.
InOrderOnce ==
  \A s \in Subs : \A i, j \in DOMAIN queue[s] :
    LET a == queue[s][i] b == queue[s][j]
    IN i < j /\ a.p = b.p => a.n <= b.n /\ a # b

\* A message reaches the subscriptions made before it, once, and the messages of a
\* publisher arrive in order.
DeliveredOnce == ReachesSubscribed /\ InOrderOnce

\* A publisher that still holds an old list of patterns, or the old subscribers
\* of a channel, never sends on a queue that was closed meanwhile, which would
\* stop the server.
NothingSentAfterClose ==
  [][\A s \in Subs : closed[s] => queue'[s] = queue[s]]_hubVars
=============================================================================
