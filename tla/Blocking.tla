------------------------------ MODULE Blocking ------------------------------
(***************************************************************************)
(* Blocking list operations (t_list.c): BLPOP, BRPOP and BRPOPLPUSH, the   *)
(* keys that become ready, and the clients served after each command,      *)
(* transaction or script (processCommand, redis.c), with timeouts          *)
(* (clientsCron) and disconnections (freeClient).                          *)
(*                                                                         *)
(* Elements are numbered as they are pushed.  One action is one command,   *)
(* one command of an EXEC, or one step of handleClientsBlockedOnLists,     *)
(* during which nothing else happens.                                      *)
(***************************************************************************)
EXTENDS Integers, Sequences

CONSTANTS Clients, Keys, NoClient, NoKey,
          Ops,          \* the commands clients send
          Stored,       \* what SET and SORT STORE leave: "string", "list"
          Pipelining,   \* clients send commands before they have read the reply
          MaxElems,     \* bound: elements pushed
          MaxQueue,     \* bound: commands in a transaction
          MaxUnblocked  \* bound: entries of unblocked_clients

AllOps == {"lpush", "rpush", "lpop", "set", "del", "rename", "expire", "rpoplpush",
           "blpop", "brpop", "brpoplpush"}

ASSUME ConstantsAssumption ==
  /\ NoClient \notin Clients /\ NoKey \notin Keys
  /\ Ops \subseteq AllOps /\ Stored \subseteq {"string", "list"} /\ Pipelining \in BOOLEAN
  /\ {MaxElems, MaxQueue, MaxUnblocked} \subseteq Nat

VARIABLES
  clients,            \* server.clients
  dict,               \* the key space: type and elements
  blocked,            \* the clients with REDIS_BLOCKED
  bpop,               \* c->bpop: keys, target, the end popped, has a timeout
  blocking_keys,      \* db->blocking_keys
  db_ready,           \* db->ready_keys
  ready_keys,         \* server.ready_keys, by their keys
  unblocked,          \* the clients with REDIS_UNBLOCKED
  unblocked_clients,  \* server.unblocked_clients
  exec,               \* the client in execCommand, and the commands it has left
  serving,            \* handleClientsBlockedOnLists: its list l, the key whose
                      \* clients are served, and how many of them
  replica,            \* the key space of a reader of the propagated commands
  nelems,             \* elements pushed so far
  taken,              \* history: the elements popped, removed or overwritten
  arrivals            \* history: the blocked clients in the order they blocked

tableVars == <<blocked, bpop, blocking_keys, arrivals>>
queueVars == <<unblocked, unblocked_clients>>
readyVars == <<db_ready, ready_keys>>
dataVars  == <<dict, replica, nelems, taken>>
vars == <<clients, tableVars, queueVars, readyVars, dataVars, exec, serving>>

Idle       == [keys |-> <<>>, key |-> NoKey, left |-> 0]
NotServing == serving = Idle /\ ready_keys = <<>>
NoExec     == [client |-> NoClient, left |-> 0]
NotWaiting == [keys |-> {}, target |-> NoKey, where |-> "head", timed |-> FALSE]

Rng(s)        == {s[i] : i \in DOMAIN s}
Distinct(s)   == \A i, j \in DOMAIN s : s[i] = s[j] => i = j
\* x comes before y in s.
Before(s, x, y) == \E i, j \in DOMAIN s : i < j /\ s[i] = x /\ s[j] = y
\* listSearchKey and listDelNode: the first one.
RemoveFirst(s, x) ==
  LET i == CHOOSE i \in DOMAIN s : s[i] = x /\ \A j \in 1 .. i - 1 : s[j] # x
  IN  SubSeq(s, 1, i - 1) \o SubSeq(s, i + 1, Len(s))

----------------------------------------------------------------------------
(* Key spaces.                                                             *)

Nothing == [type |-> "none", els |-> <<>>]
List(s) == [type |-> "list", els |-> s]

Push(ds, k, e, w) ==
  [ds EXCEPT ![k] = List(IF w = "head" THEN <<e>> \o @.els ELSE Append(@.els, e))]
Last(s) == s[Len(s)]
End(s, w) == IF w = "head" THEN Head(s) ELSE Last(s)

\* listTypePop: the key stays, even if its list becomes empty.
Pop(ds, k, w) ==
  [ds EXCEPT ![k].els = IF w = "head" THEN Tail(@) ELSE SubSeq(@, 1, Len(@) - 1)]

\* dbDelete, if the list is empty.
Tidy(ds, k) == IF ds[k] = List(<<>>) THEN [ds EXCEPT ![k] = Nothing] ELSE ds

PopAndTidy(ds, k, w) == Tidy(Pop(ds, k, w), k)
Rpoplpush(ds, src, dst) ==
  Tidy(Push(Pop(ds, src, "tail"), dst, Last(ds[src].els), "head"), src)

----------------------------------------------------------------------------
Init ==
  /\ clients = Clients
  /\ dict = [k \in Keys |-> Nothing] /\ replica = dict
  /\ blocked = {} /\ bpop = [c \in Clients |-> NotWaiting]
  /\ blocking_keys = [k \in Keys |-> <<>>] /\ arrivals = <<>>
  /\ db_ready = {} /\ ready_keys = <<>>
  /\ unblocked = {} /\ unblocked_clients = <<>>
  /\ exec = NoExec /\ serving = Idle
  /\ nelems = 0 /\ taken = {}

\* A command of client c may run: its own, or the next one of its EXEC.
May(c, op) ==
  /\ op \in Ops /\ c \in clients \ blocked
  /\ \/ exec.client = c /\ exec.left > 0
     \/ exec = NoExec /\ NotServing /\ (Pipelining \/ c \notin unblocked)
CountExec == exec' = IF exec = NoExec THEN NoExec ELSE [exec EXCEPT !.left = @ - 1]

\* signalListAsReady, called by dbAdd for a list.
Signal(k) ==
  IF blocking_keys[k] # <<>> /\ k \notin db_ready
  THEN db_ready' = db_ready \cup {k} /\ ready_keys' = Append(ready_keys, k)
  ELSE UNCHANGED readyVars

\* Mutant: keys are not signalled while clients are served.
SignalFromCommand(k) ==
  IF dict[k].type = "none" /\ serving = Idle THEN Signal(k) ELSE UNCHANGED readyVars

SignalIfAdded(k) == IF dict[k].type = "none" THEN Signal(k) ELSE UNCHANGED readyVars

\* A data command, whose effect is propagated as it is.
Execute(effect(_)) ==
  /\ dict' = effect(dict) /\ replica' = effect(replica)
  /\ CountExec
  /\ UNCHANGED <<clients, tableVars, queueVars, serving>>

PushCommand(c, k, w) ==
  /\ May(c, IF w = "head" THEN "lpush" ELSE "rpush")
  /\ nelems < MaxElems /\ dict[k].type # "string"
  /\ nelems' = nelems + 1
  /\ Execute(LAMBDA ds : Push(ds, k, nelems', w))
  /\ SignalIfAdded(k)
  /\ UNCHANGED taken

LpopCommand(c, k) ==
  /\ May(c, "lpop") /\ dict[k].type = "list"
  /\ taken' = taken \cup {Head(dict[k].els)}
  /\ Execute(LAMBDA ds : PopAndTidy(ds, k, "head"))
  /\ UNCHANGED <<readyVars, nelems>>

\* rpoplpushCommand.
RpoplpushCommand(c, src, dst) ==
  /\ May(c, "rpoplpush") /\ dict[src].type = "list" /\ dict[dst].type # "string"
  /\ Execute(LAMBDA ds : Rpoplpush(ds, src, dst))
  /\ SignalIfAdded(dst)
  /\ UNCHANGED <<nelems, taken>>

\* setKey, for SET or SORT STORE: dbAdd, or dbOverwrite, which does not signal.
SetKey(c, k, type) ==
  LET new == IF type = "list" THEN List(<<nelems + 1>>) ELSE [type |-> "string", els |-> <<>>]
  IN  /\ May(c, "set") /\ type \in Stored
      /\ nelems' = nelems + Len(new.els) /\ nelems' <= MaxElems
      /\ taken' = taken \cup Rng(dict[k].els)
      /\ Execute(LAMBDA ds : [ds EXCEPT ![k] = new])
      /\ IF type = "list" THEN SignalIfAdded(k) ELSE UNCHANGED readyVars

Remove(k) ==
  /\ dict[k].type # "none"
  /\ taken' = taken \cup Rng(dict[k].els)
  /\ dict' = [dict EXCEPT ![k] = Nothing] /\ replica' = [replica EXCEPT ![k] = Nothing]
  /\ UNCHANGED <<clients, tableVars, queueVars, readyVars, nelems, serving>>

DelCommand(c, k) == May(c, "del") /\ Remove(k) /\ CountExec

\* expireIfNeeded, when any key is looked up, or the active expire cycle: the key
\* being served was looked up just before.
Expire(k) == "expire" \in Ops /\ serving.key # k /\ Remove(k) /\ UNCHANGED exec

RenameCommand(c, k, new) ==
  /\ May(c, "rename") /\ k # new /\ dict[k].type # "none"
  /\ taken' = taken \cup Rng(dict[new].els)
  /\ Execute(LAMBDA ds : [ds EXCEPT ![new] = ds[k], ![k] = Nothing])
  /\ IF dict[k].type = "list" THEN Signal(new) ELSE UNCHANGED readyVars
  /\ UNCHANGED nelems

----------------------------------------------------------------------------
(* Blocking commands.                                                      *)

\* Mutant: the last client to block is the first to be served.
BlockFirst(c, ks, target, w, timed) ==
  /\ exec = NoExec /\ Len(unblocked_clients) < MaxUnblocked
  /\ blocked' = blocked \cup {c}
  /\ bpop' = [bpop EXCEPT ![c] = [keys |-> ks, target |-> target, where |-> w, timed |-> timed]]
  /\ blocking_keys' = [k \in Keys |-> IF k \in ks THEN <<c>> \o blocking_keys[k]
                                                   ELSE blocking_keys[k]]
  /\ arrivals' = Append(arrivals, c)
  /\ UNCHANGED <<clients, queueVars, readyVars, dataVars, exec, serving>>

\* blockForKeys, for distinct keys ks.
BlockForKeys(c, ks, target, w, timed) ==
  /\ exec = NoExec /\ Len(unblocked_clients) < MaxUnblocked
  /\ blocked' = blocked \cup {c}
  /\ bpop' = [bpop EXCEPT ![c] = [keys |-> ks, target |-> target, where |-> w, timed |-> timed]]
  /\ blocking_keys' = [k \in Keys |-> IF k \in ks THEN Append(blocking_keys[k], c)
                                                   ELSE blocking_keys[k]]
  /\ arrivals' = Append(arrivals, c)
  /\ UNCHANGED <<clients, queueVars, readyVars, dataVars, exec, serving>>

\* blockingPopGenericCommand, from keys ks in order: the first that exists
\* decides.
FirstKey(ks) == IF \E i \in DOMAIN ks : dict[ks[i]].type # "none"
                THEN ks[CHOOSE i \in DOMAIN ks : /\ dict[ks[i]].type # "none"
                                                 /\ \A j \in 1 .. i - 1 : dict[ks[j]].type = "none"]
                ELSE NoKey

PopFirst(c, ks, w) ==
  LET k == FirstKey(ks)
  IN  /\ k # NoKey /\ dict[k].type = "list"
      /\ taken' = taken \cup {End(dict[k].els, w)}
      /\ Execute(LAMBDA ds : PopAndTidy(ds, k, w))
      /\ UNCHANGED <<readyVars, nelems>>

BlockingPop(c, ks, w, timed) ==
  /\ May(c, IF w = "head" THEN "blpop" ELSE "brpop")
  /\ \/ PopFirst(c, ks, w)
     \/ FirstKey(ks) = NoKey /\ BlockForKeys(c, Rng(ks), NoKey, w, timed)

\* brpoplpushCommand, when the source does not exist; else it is RPOPLPUSH.
BrpoplpushCommand(c, src, dst, timed) ==
  /\ May(c, "brpoplpush") /\ dict[src].type = "none"
  /\ BlockForKeys(c, {src}, dst, "tail", timed)

\* unblockClientWaitingData.
Unblocked(c) ==
  /\ blocked' = blocked \ {c} /\ bpop' = [bpop EXCEPT ![c] = NotWaiting]
  /\ blocking_keys' = [k \in Keys |-> IF k \in bpop[c].keys THEN RemoveFirst(blocking_keys[k], c)
                                                           ELSE blocking_keys[k]]
  /\ arrivals' = RemoveFirst(arrivals, c)

Unblock(c) ==
  /\ Unblocked(c)
  /\ unblocked' = unblocked \cup {c}
  /\ unblocked_clients' = Append(unblocked_clients, c)

ExecCommand(c) ==
  /\ exec = NoExec /\ NotServing /\ c \in clients \ blocked
  /\ Pipelining \/ c \notin unblocked
  /\ \E n \in 2 .. MaxQueue : exec' = [client |-> c, left |-> n]
  /\ UNCHANGED <<clients, tableVars, queueVars, readyVars, dataVars, serving>>

\* A queued command may do nothing, such as a blocking one without data.
ExecNothing ==
  /\ exec.left > 0 /\ CountExec
  /\ UNCHANGED <<clients, tableVars, queueVars, readyVars, dataVars, serving>>

ExecEnd ==
  /\ exec # NoExec /\ exec.left = 0 /\ exec' = NoExec
  /\ UNCHANGED <<clients, tableVars, queueVars, readyVars, dataVars, serving>>

----------------------------------------------------------------------------
(* handleClientsBlockedOnLists, after a command or an EXEC.                *)

MayServe == exec = NoExec /\ serving.key = NoKey

\* server.ready_keys is replaced by a new list, and the old one is run.
NextRound ==
  /\ MayServe /\ serving.keys = <<>> /\ ready_keys # <<>>
  /\ serving' = [serving EXCEPT !.keys = ready_keys] /\ ready_keys' = <<>>
  /\ UNCHANGED <<clients, tableVars, queueVars, db_ready, dataVars, exec>>

NextKey ==
  /\ MayServe /\ serving.keys # <<>>
  /\ LET k == Head(serving.keys)
     IN  /\ db_ready' = db_ready \ {k}
         /\ serving' = [keys |-> Tail(serving.keys),
                        key  |-> IF dict[k].type = "list" THEN k ELSE NoKey,
                        left |-> IF dict[k].type = "list" THEN Len(blocking_keys[k]) ELSE 0]
  /\ UNCHANGED <<clients, tableVars, queueVars, ready_keys, dataVars, exec>>

\* Mutant: BLPOP is propagated as RPOP.
ServePopAsRpop(k, w) ==
  /\ dict' = Pop(dict, k, w)
  /\ replica' = PopAndTidy(replica, k, "tail")
  /\ taken' = taken \cup {End(dict[k].els, w)}
  /\ UNCHANGED readyVars

\* serveClientBlockedOnList for BLPOP and BRPOP: propagated as LPOP or RPOP.
ServePop(k, w) ==
  /\ dict' = Pop(dict, k, w)
  /\ replica' = PopAndTidy(replica, k, w)
  /\ taken' = taken \cup {End(dict[k].els, w)}
  /\ UNCHANGED readyVars

\* Mutant: the element is not pushed back.
ServePushNoUndo(k, dst) ==
  IF dict[dst].type = "string"
  THEN dict' = Pop(dict, k, "tail") /\ UNCHANGED <<replica, taken, readyVars>>
  ELSE LET e == Last(dict[k].els)
       IN  /\ dict' = Push(Pop(dict, k, "tail"), dst, e, "head")
           /\ replica' = Push(PopAndTidy(replica, k, "tail"), dst, e, "head")
           /\ SignalIfAdded(dst)
           /\ UNCHANGED taken

\* For BRPOPLPUSH: propagated as RPOP and LPUSH.  A wrong destination makes
\* the caller push the element back.
ServePush(k, dst) ==
  IF dict[dst].type = "string" THEN UNCHANGED <<dict, replica, taken, readyVars>>
  ELSE LET e == Last(dict[k].els)
       IN  /\ dict' = Push(Pop(dict, k, "tail"), dst, e, "head")
           /\ replica' = Push(PopAndTidy(replica, k, "tail"), dst, e, "head")
           /\ SignalIfAdded(dst)
           /\ UNCHANGED taken

ServeClient ==
  LET k == serving.key
      c == Head(blocking_keys[k])
  IN  /\ k # NoKey /\ serving.left > 0 /\ dict[k].els # <<>>
      /\ Unblock(c)
      /\ IF bpop[c].target = NoKey THEN ServePop(k, bpop[c].where)
                                   ELSE ServePush(k, bpop[c].target)
      /\ serving' = [serving EXCEPT !.left = @ - 1]
      /\ UNCHANGED <<clients, nelems, exec>>

KeyServed ==
  /\ serving.key # NoKey
  /\ serving.left = 0 \/ dict[serving.key].els = <<>>
  /\ dict' = Tidy(dict, serving.key)
  /\ serving' = [serving EXCEPT !.key = NoKey, !.left = 0]
  /\ UNCHANGED <<clients, tableVars, queueVars, readyVars, replica, nelems, taken, exec>>

----------------------------------------------------------------------------
(* Clients come, go and wait too long.                                     *)

Quiet == exec = NoExec /\ NotServing

\* clientsCronHandleTimeout.
Timeout(c) ==
  /\ Quiet /\ c \in blocked /\ bpop[c].timed
  /\ Unblock(c)
  /\ UNCHANGED <<clients, readyVars, dataVars, exec, serving>>

Connect(c) ==
  /\ Quiet /\ c \notin clients /\ clients' = clients \cup {c}
  /\ UNCHANGED <<tableVars, queueVars, readyVars, dataVars, exec, serving>>

\* Mutant: a blocked client is freed and left in the lists of its keys.
FreeOnly(c) ==
  /\ Quiet /\ c \in clients /\ clients' = clients \ {c}
  /\ unblocked_clients' = IF c \in unblocked THEN RemoveFirst(unblocked_clients, c)
                                             ELSE unblocked_clients
  /\ unblocked' = unblocked \ {c}
  /\ UNCHANGED <<tableVars, readyVars, dataVars, exec, serving>>

\* freeClient: unblockClientWaitingData puts a blocked one in
\* unblocked_clients, from which one entry is removed at the end.
FreeClient(c) ==
  /\ Quiet /\ c \in clients /\ clients' = clients \ {c}
  /\ IF c \in blocked THEN Unblocked(c) ELSE UNCHANGED tableVars
  /\ LET q == IF c \in blocked THEN Append(unblocked_clients, c) ELSE unblocked_clients
     IN  unblocked_clients' = IF c \in blocked \cup unblocked THEN RemoveFirst(q, c) ELSE q
  /\ unblocked' = unblocked \ {c}
  /\ UNCHANGED <<readyVars, dataVars, exec, serving>>

\* beforeSleep, one client at a time; the commands it had already sent follow.
BeforeSleep ==
  /\ Quiet /\ unblocked_clients # <<>>
  /\ unblocked_clients' = Tail(unblocked_clients)
  /\ unblocked' = unblocked \ {Head(unblocked_clients)}
  /\ UNCHANGED <<clients, tableVars, readyVars, dataVars, exec, serving>>

KeyLists == {<<k>> : k \in Keys} \cup {s \in [1 .. 2 -> Keys] : s[1] # s[2]}

CommandOf(c) ==
  \/ \E k \in Keys, w \in {"head", "tail"} : PushCommand(c, k, w)
  \/ \E k \in Keys : LpopCommand(c, k) \/ DelCommand(c, k)
  \/ \E k \in Keys, type \in Stored : SetKey(c, k, type)
  \/ \E k, j \in Keys : RpoplpushCommand(c, k, j) \/ RenameCommand(c, k, j)
  \/ \E ks \in KeyLists, w \in {"head", "tail"}, timed \in BOOLEAN : BlockingPop(c, ks, w, timed)
  \/ \E k, j \in Keys, timed \in BOOLEAN : BrpoplpushCommand(c, k, j, timed)

Handle == NextRound \/ NextKey \/ ServeClient \/ KeyServed

Next ==
  \/ \E c \in Clients : \/ CommandOf(c) \/ ExecCommand(c)
                        \/ Timeout(c) \/ Connect(c) \/ FreeClient(c)
  \/ \E k \in Keys : Expire(k)
  \/ ExecNothing \/ ExecEnd \/ Handle \/ BeforeSleep

Spec == Init /\ [][Next]_vars

----------------------------------------------------------------------------
(* Properties.                                                             *)

Waits  == [keys : SUBSET Keys, target : Keys \cup {NoKey}, where : {"head", "tail"},
           timed : BOOLEAN]
Values == [type : {"none", "list", "string"}, els : Seq(1 .. MaxElems)]

\* Every variable has its type.
TypeOK ==
  /\ clients \subseteq Clients /\ blocked \subseteq clients /\ unblocked \subseteq clients
  /\ dict \in [Keys -> Values] /\ replica \in [Keys -> Values]
  /\ bpop \in [Clients -> Waits]
  /\ blocking_keys \in [Keys -> Seq(clients)]
  /\ db_ready \subseteq Keys /\ ready_keys \in Seq(Keys)
  /\ unblocked_clients \in Seq(Clients) /\ arrivals \in Seq(clients)
  /\ exec \in [client : Clients \cup {NoClient}, left : 0 .. MaxQueue]
  /\ serving \in [keys : Seq(Keys), key : Keys \cup {NoKey}, left : Nat]
  /\ nelems \in 0 .. MaxElems /\ taken \subseteq 1 .. nelems

\* "Note that server.ready_keys will not have duplicates" (redis.h): a key is
\* in db->ready_keys exactly if it waits to be handled, once.
ReadyOnce ==
  LET waiting == serving.keys \o ready_keys
  IN  Rng(waiting) = db_ready /\ Distinct(waiting)

\* "This client was unblocked and is stored in server.unblocked_clients"
\* (redis.h): the flag and the list agree, so that freeClient, which looks for
\* one entry if the flag is set, leaves none behind for beforeSleep.  It takes
\* clients that wait for their reply: see Pipelining.
UnblockedOnce == Rng(unblocked_clients) = unblocked /\ Distinct(unblocked_clients)

\* The clients of a key are those that block for it, in the order they blocked,
\* whatever other keys they wait for; none is there twice, as none is before
\* itself.
ListsInOrder ==
  /\ Rng(arrivals) = blocked /\ Distinct(arrivals)
  /\ \A k \in Keys :
       /\ Rng(blocking_keys[k]) = {c \in blocked : k \in bpop[c].keys}
       /\ \A i, j \in DOMAIN blocking_keys[k] :
            i < j => Before(arrivals, blocking_keys[k][i], blocking_keys[k][j])

\* "We serve clients in the same order they blocked for this key, from the
\* first blocked to the last" (handleClientsBlockedOnLists): every list is in
\* order, a key with a list waits to be handled once, and a client that was
\* unblocked is listed once.
QueuesInOrder == ReadyOnce /\ UnblockedOnce /\ ListsInOrder

\* Between commands no client is left blocked for a key that holds a list:
\* every way a list appears signals its key, and serving goes on until the
\* lists made by BRPOPLPUSH are served too.
NobodyWaitsInVain ==
  Quiet => \A k \in Keys : dict[k].type = "list" => blocking_keys[k] = <<>>

\* Every element pushed is in one place of one list, or was taken: an element
\* is never given to two clients, and never lost when BRPOPLPUSH finds a
\* destination of the wrong type.
ElementsConserved ==
  LET held(k) == Rng(dict[k].els)
  IN  /\ \A k \in Keys : Distinct(dict[k].els)
      /\ \A k, j \in Keys : k # j => held(k) \cap held(j) = {}
      /\ UNION {held(k) : k \in Keys} = 1 .. nelems \ taken

\* "Propagate the resulting BRPOP, BLPOP and additional LPUSH if any into the
\* AOF and replication channel": a reader of them holds the same data set
\* between the commands, also when clients are served at either end.
ReplicaInStep == Quiet => replica = dict
=============================================================================
