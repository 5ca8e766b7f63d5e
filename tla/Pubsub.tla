------------------------------ MODULE Pubsub -------------------------------
(***************************************************************************)
(* Publish/subscribe and keyspace notifications (pubsub.c, notify.c): the  *)
(* server's two tables of who listens, each client's own two lists, and    *)
(* the delivery of a message over them. Subscriptions come and go from     *)
(* both sides, one name at a time, and with the client.                    *)
(*                                                                         *)
(* A name is a sequence of characters, a pattern a sequence of tokens.     *)
(* The channel "" is left out.                                             *)
(***************************************************************************)
EXTENDS Integers, Sequences, FiniteSets, SequencesExt

CONSTANTS Subscribers,
          Channels,       \* the names subscribed and published to
          Patterns,
          EventKeys,      \* the keys whose events are notified, each a name
          EventNames,     \* the events, each a name and the character of its class
          Settings,       \* values of notify-keyspace-events, as sets of characters
          ChannelOf(_, _) \* "K" and a key or "E" and an event: the channel of the notification

VARIABLES pubsub_channels,  \* server.pubsub_channels: channel -> its clients
          pubsub_patterns,  \* server.pubsub_patterns: <<[client, pattern], ...>>
          subs,             \* client -> [channels, patterns, flag], flag REDIS_PUBSUB
          notify,           \* server.notify_keyspace_events
          published,        \* history: the channels of the last command's messages
          heard             \* client -> history: what it was sent of them

pubsubvars == <<pubsub_channels, pubsub_patterns, subs, notify, published, heard>>

----------------------------------------------------------------------------
(* util.c.                                                                 *)

Star == [k |-> "*"]
Class(not, from, to) == [k |-> "[", not |-> not, from |-> from, to |-> to]
Char(c) == [k |-> "c", c |-> c]

\* One character against "[a-b]", with the ends in either order, or against itself.
MatchesOne(t, c) ==
  CASE t.k = "?" -> TRUE
    [] t.k = "c" -> t.c = c
    [] t.k = "[" -> t.not # ((t.from <= c /\ c <= t.to) \/ (t.to <= c /\ c <= t.from))

\* stringmatchlen: a star tries the rest of the pattern at every place but the end,
\* and stars after the last character match nothing.
RECURSIVE StringMatch(_, _)
StringMatch(p, s) ==
  IF p = <<>> THEN s = <<>>
  ELSE IF Head(p) = Star
    THEN Tail(p) = <<>> \/ \E i \in 1 .. Len(s) : StringMatch(Tail(p), SubSeq(s, i, Len(s)))
  ELSE /\ s # <<>> /\ MatchesOne(Head(p), Head(s))
       /\ IF Tail(s) = <<>> THEN \A i \in 2 .. Len(p) : p[i] = Star
                            ELSE StringMatch(Tail(p), Tail(s))

\* What it means to match: the name can be cut into as many parts as the pattern
\* has tokens, a star taking any part and another token one character.
Matches(p, s) ==
  \E cut \in [0 .. Len(p) -> 0 .. Len(s)] :
     /\ cut[0] = 0 /\ cut[Len(p)] = Len(s)
     /\ \A i \in 1 .. Len(p) :
          IF p[i] = Star THEN cut[i - 1] <= cut[i]
                         ELSE cut[i] = cut[i - 1] + 1 /\ MatchesOne(p[i], s[cut[i]])

----------------------------------------------------------------------------
(* Subscriptions. A step is what one name of a command does to the tables. *)

Tables == [chans |-> pubsub_channels, pats |-> pubsub_patterns, subs |-> subs]

Put(f, k, v) == [x \in DOMAIN f \cup {k} |-> IF x = k THEN v ELSE f[x]]
Drop(f, k)   == [x \in DOMAIN f \ {k} |-> f[x]]
Without(q, e) == RemoveAt(q, CHOOSE i \in DOMAIN q : q[i] = e /\ \A j \in 1 .. i - 1 : q[j] # e)

SubscribeChannel(T, c, ch) ==
  IF ch \in T.subs[c].channels THEN T
  ELSE [T EXCEPT !.subs[c].channels = @ \cup {ch},
                 !.chans = Put(@, ch, (IF ch \in DOMAIN @ THEN @[ch] ELSE <<>>) \o <<c>>)]

\* A channel without clients leaves the table.
UnsubscribeChannel(T, c, ch) ==
  IF ch \notin T.subs[c].channels THEN T
  ELSE LET rest == Without(T.chans[ch], c)
       IN [T EXCEPT !.subs[c].channels = @ \ {ch},
                    !.chans = IF rest = <<>> THEN Drop(@, ch) ELSE Put(@, ch, rest)]

SubscribePattern(T, c, p) ==
  IF p \in ToSet(T.subs[c].patterns) THEN T
  ELSE [T EXCEPT !.subs[c].patterns = Append(@, p), !.pats = Append(@, [client |-> c, pattern |-> p])]

UnsubscribePattern(T, c, p) ==
  IF p \notin ToSet(T.subs[c].patterns) THEN T
  ELSE [T EXCEPT !.subs[c].patterns = Without(@, p), !.pats = Without(@, [client |-> c, pattern |-> p])]

UnsubscribeAllChannels(T, c) ==
  FoldLeft(LAMBDA t, ch : UnsubscribeChannel(t, c, ch), T, SetToSeq(T.subs[c].channels))
UnsubscribeAllPatterns(T, c) ==
  FoldLeft(LAMBDA t, p : UnsubscribePattern(t, c, p), T, T.subs[c].patterns)

Count(T, c) == Cardinality(T.subs[c].channels) + Len(T.subs[c].patterns)

\* subscribeCommand and psubscribeCommand set the flag, the others clear it with the
\* last subscription.
Subscribed(T, c)   == [T EXCEPT !.subs[c].flag = TRUE]
Unsubscribed(T, c) == [T EXCEPT !.subs[c].flag = @ /\ Count(T, c) # 0]

Becomes(T) == /\ pubsub_channels' = T.chans /\ pubsub_patterns' = T.pats /\ subs' = T.subs
              /\ published' = <<>> /\ heard' = [c \in Subscribers |-> <<>>]
              /\ UNCHANGED notify

Several(op(_, _, _), c, names) == FoldLeft(LAMBDA t, x : op(t, c, x), Tables, names)

SUBSCRIBE(c, chs)  == Becomes(Subscribed(Several(SubscribeChannel, c, chs), c))
PSUBSCRIBE(c, ps)  == Becomes(Subscribed(Several(SubscribePattern, c, ps), c))
UNSUBSCRIBE(c, chs) ==
  Becomes(Unsubscribed(IF chs = <<>> THEN UnsubscribeAllChannels(Tables, c)
                                     ELSE Several(UnsubscribeChannel, c, chs), c))
PUNSUBSCRIBE(c, ps) ==
  Becomes(Unsubscribed(IF ps = <<>> THEN UnsubscribeAllPatterns(Tables, c)
                                    ELSE Several(UnsubscribePattern, c, ps), c))

\* freeClient; a new client has none.
Disconnect(c) ==
  LET T == UnsubscribeAllPatterns(UnsubscribeAllChannels(Tables, c), c)
  IN Becomes([T EXCEPT !.subs[c].flag = FALSE])

----------------------------------------------------------------------------
(* Messages.                                                               *)

\* pubsubPublishMessage: to the channel's clients, then over the patterns.
Publish(H, ch) ==
  LET direct == IF ch \in DOMAIN pubsub_channels THEN pubsub_channels[ch] ELSE <<>>
      told   == FoldLeft(LAMBDA h, c : [h EXCEPT ![c] = Append(@, <<ch>>)], H, direct)
  IN FoldLeft(LAMBDA h, p : IF StringMatch(p.pattern, ch)
                            THEN [h EXCEPT ![p.client] = Append(@, <<ch, p.pattern>>)] ELSE h,
              told, pubsub_patterns)

Sends(chs) == /\ published' = chs
              /\ heard' = FoldLeft(Publish, [c \in Subscribers |-> <<>>], chs)
              /\ UNCHANGED <<pubsub_channels, pubsub_patterns, subs, notify>>

\* processCommand lets a client that listens do nothing else.
PUBLISH(c, ch) == ~subs[c].flag /\ Sends(<<ch>>)

AllEvents == {"g", "$", "l", "s", "h", "z", "x", "e"}
StringToFlags(chars) == (chars \ {"A"}) \cup (IF "A" \in chars THEN AllEvents ELSE {})
FlagsToString(flags) ==
  (IF AllEvents \subseteq flags THEN {"A"} ELSE flags \cap AllEvents) \cup (flags \cap {"K", "E"})

\* CONFIG SET notify-keyspace-events: a character that means nothing is refused.
Configure(chars) == /\ chars \subseteq AllEvents \cup {"A", "K", "E"}
                    /\ notify' = StringToFlags(chars)
                    /\ published' = <<>> /\ heard' = [c \in Subscribers |-> <<>>]
                    /\ UNCHANGED <<pubsub_channels, pubsub_patterns, subs>>

\* notifyKeyspaceEvent: the event to the key's channel, the key to the event's.
Notify(key, event) ==
  /\ event.class \in notify
  /\ Sends((IF "K" \in notify THEN <<ChannelOf("K", key)>> ELSE <<>>)
           \o (IF "E" \in notify THEN <<ChannelOf("E", event.name)>> ELSE <<>>))

\* PUBSUB CHANNELS and PUBSUB NUMSUB.
ListChannels(p) == {ch \in DOMAIN pubsub_channels : StringMatch(p, ch)}
NumSub(ch) == IF ch \in DOMAIN pubsub_channels THEN Len(pubsub_channels[ch]) ELSE 0

PubsubInit ==
  /\ pubsub_channels = <<>> /\ pubsub_patterns = <<>>
  /\ subs = [c \in Subscribers |-> [channels |-> {}, patterns |-> <<>>, flag |-> FALSE]]
  /\ notify = {} /\ published = <<>> /\ heard = [c \in Subscribers |-> <<>>]

UpToTwo(S) == {<<>>} \cup {<<x>> : x \in S} \cup {<<x, y>> : x, y \in S}

PubsubNext ==
  \/ \E c \in Subscribers :
       \/ \E chs \in UpToTwo(Channels) : chs # <<>> /\ SUBSCRIBE(c, chs)
       \/ \E ps \in UpToTwo(Patterns) : ps # <<>> /\ PSUBSCRIBE(c, ps)
       \/ \E chs \in UpToTwo(Channels) : UNSUBSCRIBE(c, chs)
       \/ \E ps \in UpToTwo(Patterns) : PUNSUBSCRIBE(c, ps)
       \/ Disconnect(c)
       \/ \E ch \in Channels : PUBLISH(c, ch)
  \/ \E chars \in Settings : Configure(chars)
  \/ \E key \in EventKeys, event \in EventNames : Notify(key, event)

----------------------------------------------------------------------------
\* The two sides agree on who listens to what, and in which order; a channel nobody
\* listens to is forgotten; a client is held to the few commands exactly while it
\* listens.
TablesAgree ==
  /\ \A ch \in DOMAIN pubsub_channels : pubsub_channels[ch] # <<>> /\ ch \in Channels
  /\ \A c \in Subscribers :
       /\ subs[c].channels = {ch \in DOMAIN pubsub_channels : c \in ToSet(pubsub_channels[ch])}
       /\ LET mine == SelectSeq(pubsub_patterns, LAMBDA p : p.client = c)
          IN subs[c].patterns = <<>> \o [i \in DOMAIN mine |-> mine[i].pattern]
       /\ subs[c].flag <=> Count(Tables, c) > 0
  /\ \A ch \in Channels : NumSub(ch) = Cardinality({c \in Subscribers : ch \in subs[c].channels})
  /\ \A p \in Patterns : ListChannels(p) =
       {ch \in Channels : Matches(p, ch) /\ \E c \in Subscribers : ch \in subs[c].channels}

\* What a client was sent is one message per subscription of its own that matches,
\* its channel first, in the order of the messages.
Deliveries(c) ==
  FlattenSeq([i \in DOMAIN published |->
    LET ch == published[i]
        ps == SelectSeq(subs[c].patterns, LAMBDA p : Matches(p, ch))
    IN (IF ch \in subs[c].channels THEN <<<<ch>>>> ELSE <<>>)
       \o [j \in DOMAIN ps |-> <<ch, ps[j]>>]])
DeliveredRight == \A c \in Subscribers : heard[c] = Deliveries(c)

\* CONFIG GET answers a string that sets the same flags again.
FlagsRoundTrip == StringToFlags(FlagsToString(notify)) = notify

PubsubSound == TablesAgree /\ DeliveredRight /\ FlagsRoundTrip
=============================================================================
