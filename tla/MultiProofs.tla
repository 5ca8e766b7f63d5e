---------------------------- MODULE MultiProofs ----------------------------
(* Proofs about Multi: see the README for the argument.                    *)
EXTENDS Multi, FiniteSetTheorems, TLAPS

USE DEF ControlOps, DirtyAfterExec

----------------------------------------------------------------------------
(* Facts about the operators.                                              *)

\* A command leaves a data set a data set (the procs of the commands).
LEMMA EffectType ==
  ASSUME NEW m \in [op : Ops \cup {"del"}, key : Keys, val : Values \cup {NoVal}, db : DBs],
         NEW d \in DBs, NEW ds \in Datasets
  PROVE  Effect(m, d, ds) \in Datasets
<1>1. <<d, m.key>> \in WKeys /\ <<m.db, m.key>> \in WKeys
  BY DEF WKeys
<1>2. NoVal \in Values \cup {NoVal}
  OBVIOUS
<1> QED BY <1>1, <1>2 DEF Effect, Datasets, Exists, Moves

\* The number of keys of a part of a data set is a natural number, and it is
\* zero only if that part is empty (dictSize, as added to server.dirty).
LEMMA NumKeysFacts ==
  ASSUME NEW ds \in Datasets, NEW S, S \subseteq WKeys
  PROVE  /\ NumKeys(ds, S) \in Nat
         /\ NumKeys(ds, S) = 0 => \A wk \in S : ~Exists(ds, wk)
<1> DEFINE T == {wk \in S : Exists(ds, wk)}
<1>1. IsFiniteSet(WKeys)
  BY ConstantsAssumption, FS_Product DEF WKeys
<1>2. IsFiniteSet(T)
  BY <1>1, FS_Subset
<1>3. Cardinality(T) \in Nat /\ (Cardinality(T) = 0 <=> T = {})
  BY <1>2, FS_CardinalityType, FS_EmptySet
<1> QED BY <1>3 DEF NumKeys

LEMMA CommandType ==
  ASSUME NEW m \in Commands
  PROVE  /\ m \in [op : Ops, key : Keys, val : Values, db : DBs]
         /\ m \in [op : Ops \cup {"del"}, key : Keys, val : Values \cup {NoVal}, db : DBs]
         /\ m.op \in AllOps
<1>1. m \in [op : Ops, key : Keys, val : Values, db : DBs]
  BY DEF Commands
<1>2. m.op \in AllOps
  BY <1>1, ConstantsAssumption
<1>3. m = [op |-> m.op, key |-> m.key, val |-> m.val, db |-> m.db]
  BY <1>1
<1> QED BY <1>1, <1>2, <1>3

\* server.dirty stays a natural number; only SAVE makes it smaller, and when
\* it does not grow the command changed nothing.
LEMMA DirtyFacts ==
  ASSUME TypeOK, NEW m \in Commands, NEW d \in DBs
  PROVE  /\ DirtyAfter(m, d, dict) \in Nat
         /\ m.op # "save" => DirtyAfter(m, d, dict) >= dirty
         /\ ~(DirtyAfter(m, d, dict) > dirty) => Effect(m, d, dict) = dict
<1>1. dict \in Datasets /\ dirty \in Nat
  BY DEF TypeOK
<1>2. <<d, m.key>> \in WKeys /\ InDb(d) \subseteq WKeys
  BY CommandType DEF WKeys, InDb
<1> DEFINE n1 == NumKeys(dict, {<<d, m.key>>})
           n2 == NumKeys(dict, InDb(d))
           n3 == NumKeys(dict, WKeys)
<1>3. /\ n1 \in Nat /\ n2 \in Nat /\ n3 \in Nat
      /\ n1 = 0 => ~Exists(dict, <<d, m.key>>)
      /\ n2 = 0 => \A wk \in InDb(d) : ~Exists(dict, wk)
  BY <1>1, <1>2, NumKeysFacts
<1> HIDE DEF n1, n2, n3
<1>4. CASE m.op = "set"
  BY <1>1, <1>4 DEF DirtyAfter
<1>5. CASE m.op = "del"
  <2>1. DirtyAfter(m, d, dict) = dirty + n1
    BY <1>5 DEF DirtyAfter, Moves, n1
  <2>2. n1 = 0 => Effect(m, d, dict) = dict
    BY <1>1, <1>2, <1>3, <1>5 DEF Effect, Moves, Exists, Datasets
  <2> QED BY <1>1, <1>3, <2>1, <2>2
<1>6. CASE m.op = "flushdb"
  <2>1. DirtyAfter(m, d, dict) = dirty + n2
    BY <1>6 DEF DirtyAfter, Moves, n2
  <2>2. n2 = 0 => Effect(m, d, dict) = dict
    BY <1>1, <1>2, <1>3, <1>6 DEF Effect, Moves, Exists, Datasets
  <2> QED BY <1>1, <1>3, <2>1, <2>2
<1>7. CASE m.op = "flushall"
  <2>1. DirtyAfter(m, d, dict) = dirty + n3 + 1
    BY <1>7 DEF DirtyAfter, Moves, n3
  <2> QED BY <1>1, <1>3, <2>1
<1>8. CASE m.op = "save"
  BY <1>1, <1>8 DEF DirtyAfter, Effect, Moves
<1>9. CASE m.op \notin {"set", "del", "flushdb", "flushall", "save"}
  BY <1>1, <1>9 DEF DirtyAfter, Effect, Moves
<1> QED BY <1>4, <1>5, <1>6, <1>7, <1>8, <1>9

----------------------------------------------------------------------------
(* Type correctness.                                                       *)

LEMMA InitType == Init => TypeOK
<1> SUFFICES ASSUME Init PROVE TypeOK
  OBVIOUS
<1>1. dict \in Datasets
  BY DEF Init, Datasets
<1> QED BY <1>1, ConstantsAssumption DEF Init, TypeOK

LEMMA UnwatchType ==
  ASSUME TypeOK, NEW c \in Clients, Unwatch(c)
  PROVE  watched' \in [Clients -> SUBSET WKeys] /\ watched_keys' \in [WKeys -> SUBSET Clients]
BY DEF TypeOK, Unwatch

LEMMA DiscardType ==
  ASSUME TypeOK, NEW c \in Clients, DiscardTransaction(c)
  PROVE  /\ watched' \in [Clients -> SUBSET WKeys] /\ watched_keys' \in [WKeys -> SUBSET Clients]
         /\ mstate' \in [Clients -> Seq(Commands)]
         /\ flags' \in [Clients -> SUBSET {"MULTI", "DIRTY_CAS", "DIRTY_EXEC"}]
         /\ touched' \in [Clients -> SUBSET WKeys]
         /\ refused' \in [Clients -> BOOLEAN]
<1>1. Unwatch(c)
  BY DEF DiscardTransaction
<1>2. mstate' \in [Clients -> Seq(Commands)]
  BY DEF TypeOK, DiscardTransaction
<1> QED BY <1>1, <1>2, UnwatchType DEF TypeOK, DiscardTransaction

\* The reader's state stays a reader's state, whatever is propagated to it.
LEMMA ReaderType ==
  ASSUME TypeOK, NEW d \in DBs, NEW m \in [op : Ops \cup {"del"}, key : Keys, val : Values \cup {NoVal}, db : DBs],
         NEW r \in [multi : BOOLEAN, db : DBs, dict : Datasets, pdict : Datasets]
  PROVE  /\ Selected(r, d) \in [multi : BOOLEAN, db : DBs, dict : Datasets, pdict : Datasets]
         /\ ReplicaMulti(r) \in [multi : BOOLEAN, db : DBs, dict : Datasets, pdict : Datasets]
         /\ ReplicaExec(r) \in [multi : BOOLEAN, db : DBs, dict : Datasets, pdict : Datasets]
         /\ ReplicaApply(r, m) \in [multi : BOOLEAN, db : DBs, dict : Datasets, pdict : Datasets]
<1>1. Effect(m, r.db, r.pdict) \in Datasets
  BY EffectType
<1> QED BY <1>1 DEF Selected, ReplicaMulti, ReplicaExec, ReplicaApply

\* What call changes, apart from the propagation.
LEMMA CallType ==
  ASSUME TypeOK, NEW c \in Clients, NEW m \in Commands, Call(c, m)
  PROVE  /\ dict' \in Datasets /\ dirty' \in Nat /\ db' \in [Clients -> DBs]
         /\ flags' \in [Clients -> SUBSET {"MULTI", "DIRTY_CAS", "DIRTY_EXEC"}]
         /\ watched' \in [Clients -> SUBSET WKeys]
         /\ watched_keys' \in [WKeys -> SUBSET Clients]
         /\ touched' \in [Clients -> SUBSET WKeys]
<1>1. db[c] \in DBs /\ dict \in Datasets
  BY DEF TypeOK
<1>2. dict' \in Datasets
  BY <1>1, CommandType, EffectType DEF Call
<1>3. dirty' \in Nat
  BY <1>1, DirtyFacts DEF Call
<1>4. db' \in [Clients -> DBs]
  BY CommandType DEF Call, TypeOK
<1>5. flags' \in [Clients -> SUBSET {"MULTI", "DIRTY_CAS", "DIRTY_EXEC"}]
  BY DEF Call, TypeOK
<1>6. /\ watched' \in [Clients -> SUBSET WKeys]
      /\ watched_keys' \in [WKeys -> SUBSET Clients]
  BY UnwatchType DEF Call, TypeOK, watchVars
<1>7. touched' \in [Clients -> SUBSET WKeys]
  BY DEF Call, TypeOK, Changed
<1> QED BY <1>2, <1>3, <1>4, <1>5, <1>6, <1>7

LEMMA NextType == TypeOK /\ [Next]_vars => TypeOK'
<1> SUFFICES ASSUME TypeOK, [Next]_vars PROVE TypeOK'
  OBVIOUS
<1> USE DEF clientVars, watchVars, linkVars
<1>1. ASSUME NEW c \in Clients, Connect(c) PROVE TypeOK'
  BY <1>1, ConstantsAssumption DEF Connect, TypeOK
<1>2. ASSUME NEW c \in Clients, FreeClient(c) PROVE TypeOK'
  <2>1. mstate' \in [Clients -> Seq(Commands)]
    BY <1>2 DEF FreeClient, TypeOK
  <2> QED BY <1>2, <2>1, UnwatchType DEF FreeClient, TypeOK
<1>3. ASSUME NEW c \in Clients, NEW op \in Ops \cup ControlOps, Refuse(c, op) PROVE TypeOK'
  <2>0. flags' = flags \/ FlagTransaction(c)
    BY <1>3, Zenon DEF Refuse
  <2>1. flags' \in [Clients -> SUBSET {"MULTI", "DIRTY_CAS", "DIRTY_EXEC"}]
    <3>1. CASE flags' = flags
      BY <3>1 DEF TypeOK
    <3>2. CASE FlagTransaction(c)
      BY <3>2 DEF FlagTransaction, TypeOK
    <3> QED BY <2>0, <3>1, <3>2
  <2>2. refused' \in [Clients -> BOOLEAN]
    BY <1>3 DEF Refuse, NoteRefused, TypeOK
  <2> QED BY <1>3, <2>1, <2>2 DEF Refuse, TypeOK
<1>4. ASSUME NEW c \in Clients, BadCommand(c) PROVE TypeOK'
  BY <1>4 DEF BadCommand, FlagTransaction, NoteRefused, TypeOK
<1>5. ASSUME NEW c \in Clients, MultiCommand(c) PROVE TypeOK'
  BY <1>5 DEF MultiCommand, TypeOK
<1>6. ASSUME NEW c \in Clients, DiscardCommand(c) PROVE TypeOK'
  BY <1>6, DiscardType DEF DiscardCommand, TypeOK
<1>7. ASSUME NEW c \in Clients, NEW ks \in SUBSET Keys, WatchCommand(c, ks) PROVE TypeOK'
  <2>1. {<<db[c], k>> : k \in ks} \subseteq WKeys
    BY DEF TypeOK, WKeys
  <2> QED BY <1>7, <2>1 DEF WatchCommand, TypeOK
<1>8. ASSUME NEW c \in Clients, NEW m \in Commands, CallCommand(c, m) PROVE TypeOK'
  <2>1. Call(c, m) /\ db[c] \in DBs
    BY <1>8 DEF CallCommand, TypeOK
  <2>2. /\ replica' \in [multi : BOOLEAN, db : DBs, dict : Datasets, pdict : Datasets]
        /\ slaveseldb' \in DBs
    BY <1>8, <2>1, CommandType, ReaderType DEF CallCommand, Propagated, TypeOK
  <2> QED BY <1>8, <2>1, <2>2, CallType DEF CallCommand, TypeOK
<1>9. ASSUME NEW c \in Clients, NEW m \in Commands, QueueMultiCommand(c, m) PROVE TypeOK'
  <2>1. mstate' \in [Clients -> Seq(Commands)]
    BY <1>9 DEF QueueMultiCommand, TypeOK
  <2> QED BY <1>9, <2>1 DEF QueueMultiCommand, TypeOK
<1>10. ASSUME NEW c \in Clients, ExecAbort(c) PROVE TypeOK'
  BY <1>10, DiscardType DEF ExecAbort, TypeOK
<1>11. ASSUME NEW c \in Clients, ExecBegin(c) PROVE TypeOK'
  BY <1>11, UnwatchType DEF ExecBegin, TypeOK
<1>12. ASSUME NEW c \in Clients, ExecStep(c) PROVE TypeOK'
  <2>1. Queued(c) \in Commands /\ db[c] \in DBs
    BY <1>12 DEF ExecStep, InCall, Queued, TypeOK
  <2>2. Call(c, Queued(c))
    BY <1>12 DEF ExecStep
  <2>3. exec' \in [client : Clients \cup {NoClient}, j : Nat \ {0},
                   must_propagate : BOOLEAN, dirty : Nat]
    BY <1>12 DEF ExecStep, TypeOK
  <2>4. /\ replica' \in [multi : BOOLEAN, db : DBs, dict : Datasets, pdict : Datasets]
        /\ slaveseldb' \in DBs
    BY <1>12, <2>1, CommandType, ReaderType DEF ExecStep, Propagated, TypeOK
  <2> QED BY <1>12, <2>1, <2>2, <2>3, <2>4, CallType DEF ExecStep, TypeOK
<1>18. ASSUME NEW c \in Clients, ExecPropagateMulti(c) PROVE TypeOK'
  <2>1. Queued(c) \in Commands /\ db[c] \in DBs
    BY <1>18 DEF ExecPropagateMulti, Queued, TypeOK
  <2>2. replica' \in [multi : BOOLEAN, db : DBs, dict : Datasets, pdict : Datasets]
    BY <1>18, <2>1, CommandType, ReaderType DEF ExecPropagateMulti, TypeOK
  <2> QED BY <1>18, <2>1, <2>2 DEF ExecPropagateMulti, TypeOK
<1>13. ASSUME NEW c \in Clients, ExecEnd(c) PROVE TypeOK'
  <2>1. db[c] \in DBs /\ dirty' \in Nat /\ DiscardTransaction(c)
    BY <1>13 DEF ExecEnd, TypeOK
  <2>2. /\ replica' \in [multi : BOOLEAN, db : DBs, dict : Datasets, pdict : Datasets]
        /\ slaveseldb' \in DBs
    <3>1. [op |-> "del", key |-> CHOOSE k \in Keys : TRUE, val |-> NoVal, db |-> db[c]]
            \in [op : Ops \cup {"del"}, key : Keys, val : Values \cup {NoVal}, db : DBs]
      BY <2>1, ConstantsAssumption
    <3>2. replica' \in {replica, ReplicaExec(Selected(replica, db[c]))} /\ slaveseldb' \in {db[c], slaveseldb}
      BY <1>13 DEF ExecEnd
    <3>3. Selected(replica, db[c]) \in [multi : BOOLEAN, db : DBs, dict : Datasets, pdict : Datasets]
      BY <2>1, <3>1, ReaderType DEF TypeOK
    <3>4. ReplicaExec(Selected(replica, db[c])) \in [multi : BOOLEAN, db : DBs, dict : Datasets, pdict : Datasets]
      BY <2>1, <3>1, <3>3, ReaderType
    <3> QED BY <2>1, <3>2, <3>4 DEF TypeOK
  <2> QED BY <1>13, <2>1, <2>2, DiscardType DEF ExecEnd, TypeOK
<1>14. ASSUME NEW wk \in WKeys, DropKey(wk) PROVE TypeOK'
  <2>1. [op |-> "del", key |-> wk[2], val |-> NoVal, db |-> wk[1]]
          \in [op : Ops \cup {"del"}, key : Keys, val : Values \cup {NoVal}, db : DBs]
    BY DEF WKeys
  <2>2. wk[1] \in DBs /\ dict' \in Datasets
    BY <1>14 DEF WKeys, DropKey, TypeOK, Datasets
  <2>3. replica' \in [multi : BOOLEAN, db : DBs, dict : Datasets, pdict : Datasets]
    BY <1>14, <2>1, <2>2, ReaderType DEF DropKey, TypeOK
  <2> QED BY <1>14, <2>2, <2>3 DEF DropKey, NoteChanges, Changed, TypeOK
<1>15. ASSUME NEW s \in SUBSET Conditions, ChangeConditions(s) PROVE TypeOK'
  BY <1>15 DEF ChangeConditions, TypeOK
<1>16. ASSUME NEW n \in 1 .. dirty, BgsaveDone(n) PROVE TypeOK'
  BY <1>16 DEF BgsaveDone, TypeOK
<1>17. CASE UNCHANGED vars
  BY <1>17 DEF vars, TypeOK
<1> QED BY <1>1, <1>2, <1>3, <1>4, <1>5, <1>6, <1>7, <1>8, <1>9, <1>10, <1>11, <1>12,
           <1>13, <1>14, <1>15, <1>16, <1>17, <1>18 DEF Next

\* Type correctness of every reachable state.
THEOREM TypeCorrect == Spec => []TypeOK
BY InitType, NextType, PTL DEF Spec

----------------------------------------------------------------------------
(* WATCH.                                                                  *)

\* A free slot holds nothing of the client that used it.
FreeSlotsClean ==
  \A c \in Clients \ clients : flags[c] = {} /\ touched[c] = {} /\ ~refused[c]

\* The client whose EXEC runs is connected.
ExecConnected == exec.client # NoClient => exec.client \in clients

WatchInv == TypeOK /\ WatchTablesAgree /\ FreeSlotsClean /\ ExecConnected

\* unwatchAllKeys takes a client out of every list, and no other client.
LEMMA UnwatchAgrees ==
  ASSUME TypeOK, WatchTablesAgree, NEW c \in Clients, Unwatch(c)
  PROVE  /\ \A x \in Clients, wk \in WKeys : wk \in watched'[x] <=> x \in watched_keys'[wk]
         /\ \A wk \in WKeys : watched_keys'[wk] \subseteq clients \ {c}
BY DEF TypeOK, WatchTablesAgree, Unwatch

\* Whoever is touched by a command is connected.
LEMMA TouchedConnected ==
  ASSUME NEW m, NEW d, NEW ds
  PROVE  TouchedClients(m, d, ds) \subseteq clients
BY DEF TouchedClients

LEMMA CallWatch ==
  ASSUME WatchInv, NEW c \in Clients, c \in clients, NEW m, Call(c, m), clients' = clients,
         refused' = refused
  PROVE  WatchTablesAgree' /\ FreeSlotsClean'
<1> USE DEF WatchInv
<1>1. WatchTablesAgree'
  <2>1. CASE m.op = "unwatch"
    BY <2>1, UnwatchAgrees DEF Call, WatchTablesAgree
  <2>2. CASE m.op # "unwatch"
    BY <2>2 DEF Call, WatchTablesAgree, watchVars
  <2> QED BY <2>1, <2>2
<1>2. ASSUME NEW x \in Clients \ clients PROVE flags'[x] = {} /\ touched'[x] = {} /\ ~refused'[x]
  <2>1. x # c /\ x \notin TouchedClients(m, db[c], dict)
    BY <1>2, TouchedConnected
  <2>2. flags'[x] = flags[x]
    BY <2>1 DEF Call
  <2>3. watched[x] = {}
    BY <1>2 DEF WatchTablesAgree, TypeOK
  <2>4. touched'[x] = touched[x]
    BY <2>1, <2>3 DEF Call, Changed, TypeOK
  <2> QED BY <1>2, <2>2, <2>4 DEF FreeSlotsClean
<1> QED BY <1>1, <1>2 DEF FreeSlotsClean

LEMMA NextWatch == WatchInv /\ [Next]_vars => WatchTablesAgree' /\ FreeSlotsClean'
<1> SUFFICES ASSUME WatchInv, [Next]_vars PROVE WatchTablesAgree' /\ FreeSlotsClean'
  OBVIOUS
<1> USE DEF WatchInv, clientVars, watchVars, linkVars
<1>1. ASSUME NEW c \in Clients, Connect(c) PROVE WatchTablesAgree' /\ FreeSlotsClean'
  BY <1>1 DEF Connect, WatchTablesAgree, FreeSlotsClean
<1>2. ASSUME NEW c \in Clients, FreeClient(c) PROVE WatchTablesAgree' /\ FreeSlotsClean'
  <2>1. Unwatch(c) /\ clients' = clients \ {c}
    BY <1>2 DEF FreeClient
  <2>2. WatchTablesAgree'
    BY <2>1, UnwatchAgrees DEF WatchTablesAgree
  <2>3. FreeSlotsClean'
    BY <1>2 DEF FreeClient, FreeSlotsClean, TypeOK
  <2> QED BY <2>2, <2>3
<1>3. ASSUME NEW c \in Clients, c \in clients, clients' = clients, UNCHANGED watchVars,
             touched' = touched,
             \A x \in Clients : x # c => flags'[x] = flags[x] /\ refused'[x] = refused[x]
      PROVE WatchTablesAgree' /\ FreeSlotsClean'
  BY <1>3 DEF WatchTablesAgree, FreeSlotsClean
<1>4. ASSUME NEW c \in Clients, NEW op \in Ops \cup ControlOps, Refuse(c, op)
      PROVE WatchTablesAgree' /\ FreeSlotsClean'
  <2>0. flags' = flags \/ FlagTransaction(c)
    BY <1>4, Zenon DEF Refuse
  <2>1. \A x \in Clients : x # c => flags'[x] = flags[x]
    <3>1. CASE flags' = flags
      BY <3>1
    <3>2. CASE FlagTransaction(c)
      BY <3>2 DEF FlagTransaction, TypeOK
    <3> QED BY <2>0, <3>1, <3>2
  <2>2. \A x \in Clients : x # c => refused'[x] = refused[x]
    BY <1>4 DEF Refuse, NoteRefused, TypeOK
  <2> QED BY <1>3, <1>4, <2>1, <2>2 DEF Refuse
<1>5. ASSUME NEW c \in Clients, BadCommand(c) PROVE WatchTablesAgree' /\ FreeSlotsClean'
  <2>1. \A x \in Clients : x # c => flags'[x] = flags[x] /\ refused'[x] = refused[x]
    BY <1>5 DEF BadCommand, FlagTransaction, NoteRefused, TypeOK
  <2> QED BY <1>3, <1>5, <2>1 DEF BadCommand
<1>6. ASSUME NEW c \in Clients, MultiCommand(c) PROVE WatchTablesAgree' /\ FreeSlotsClean'
  <2>1. \A x \in Clients : x # c => flags'[x] = flags[x] /\ refused'[x] = refused[x]
    BY <1>6 DEF MultiCommand, TypeOK
  <2> QED BY <1>3, <1>6, <2>1 DEF MultiCommand, Accepted
<1>7. ASSUME NEW c \in Clients, c \in clients, clients' = clients, DiscardTransaction(c)
      PROVE WatchTablesAgree' /\ FreeSlotsClean'
  <2>1. WatchTablesAgree'
    BY <1>7, UnwatchAgrees DEF DiscardTransaction, WatchTablesAgree
  <2>2. FreeSlotsClean'
    BY <1>7 DEF DiscardTransaction, FreeSlotsClean, TypeOK
  <2> QED BY <2>1, <2>2
<1>8. ASSUME NEW c \in Clients, DiscardCommand(c) PROVE WatchTablesAgree' /\ FreeSlotsClean'
  BY <1>7, <1>8 DEF DiscardCommand, Accepted
<1>9. ASSUME NEW c \in Clients, NEW ks \in SUBSET Keys, WatchCommand(c, ks)
      PROVE WatchTablesAgree' /\ FreeSlotsClean'
  <2> DEFINE new == {<<db[c], k>> : k \in ks} \ watched[c]
  <2>1. /\ c \in clients /\ clients' = clients /\ flags' = flags /\ touched' = touched
        /\ refused' = refused
        /\ watched' = [watched EXCEPT ![c] = @ \cup new]
        /\ watched_keys' = [wk \in WKeys |-> IF wk \in new THEN watched_keys[wk] \cup {c}
                                                          ELSE watched_keys[wk]]
    BY <1>9 DEF WatchCommand, Accepted
  <2> HIDE DEF new
  <2>2. WatchTablesAgree'
    BY <2>1 DEF WatchTablesAgree, TypeOK
  <2> QED BY <2>1, <2>2 DEF FreeSlotsClean
<1>10. ASSUME NEW c \in Clients, NEW m \in Commands, CallCommand(c, m)
       PROVE WatchTablesAgree' /\ FreeSlotsClean'
  BY <1>10, CallWatch DEF CallCommand, Accepted
<1>11. ASSUME NEW c \in Clients, NEW m \in Commands, QueueMultiCommand(c, m)
       PROVE WatchTablesAgree' /\ FreeSlotsClean'
  BY <1>11 DEF QueueMultiCommand, WatchTablesAgree, FreeSlotsClean
<1>12. ASSUME NEW c \in Clients, ExecAbort(c) PROVE WatchTablesAgree' /\ FreeSlotsClean'
  BY <1>7, <1>12 DEF ExecAbort, Accepted
<1>13. ASSUME NEW c \in Clients, ExecBegin(c) PROVE WatchTablesAgree' /\ FreeSlotsClean'
  <2>1. WatchTablesAgree'
    BY <1>13, UnwatchAgrees DEF ExecBegin, WatchTablesAgree
  <2>2. FreeSlotsClean'
    BY <1>13 DEF ExecBegin, Accepted, FreeSlotsClean, TypeOK
  <2> QED BY <2>1, <2>2
<1>14. ASSUME NEW wk \in WKeys, DropKey(wk) PROVE WatchTablesAgree' /\ FreeSlotsClean'
  <2>1. ASSUME NEW x \in Clients \ clients PROVE touched'[x] = touched[x]
    <3>1. watched[x] = {}
      BY <2>1 DEF WatchTablesAgree, TypeOK
    <3> QED BY <1>14, <3>1 DEF DropKey, NoteChanges, Changed, TypeOK
  <2> QED BY <1>14, <2>1 DEF DropKey, WatchTablesAgree, FreeSlotsClean
<1>15. ASSUME NEW s \in SUBSET Conditions, ChangeConditions(s)
       PROVE WatchTablesAgree' /\ FreeSlotsClean'
  BY <1>15 DEF ChangeConditions, WatchTablesAgree, FreeSlotsClean
<1>16. ASSUME NEW n \in 1 .. dirty, BgsaveDone(n) PROVE WatchTablesAgree' /\ FreeSlotsClean'
  BY <1>16 DEF BgsaveDone, WatchTablesAgree, FreeSlotsClean
<1>17. CASE UNCHANGED vars
  BY <1>17 DEF vars, WatchTablesAgree, FreeSlotsClean
<1>18. ASSUME NEW c \in Clients, ExecStep(c) PROVE WatchTablesAgree' /\ FreeSlotsClean'
  <2>1. c \in clients
    BY <1>18, ConstantsAssumption DEF ExecStep, InCall, ExecConnected
  <2>2. Call(c, Queued(c)) /\ clients' = clients /\ refused' = refused
    BY <1>18 DEF ExecStep
  <2> QED BY <2>1, <2>2, CallWatch
<1>19. ASSUME NEW c \in Clients, ExecEnd(c) PROVE WatchTablesAgree' /\ FreeSlotsClean'
  <2>1. c \in clients
    BY <1>19, ConstantsAssumption DEF ExecEnd, ExecConnected
  <2> QED BY <1>7, <1>19, <2>1 DEF ExecEnd
<1>20. ASSUME NEW c \in Clients, ExecPropagateMulti(c) PROVE WatchTablesAgree' /\ FreeSlotsClean'
  BY <1>20 DEF ExecPropagateMulti, WatchTablesAgree, FreeSlotsClean
<1> QED BY <1>1, <1>2, <1>4, <1>5, <1>6, <1>8, <1>9, <1>10, <1>11, <1>12, <1>13, <1>14,
           <1>15, <1>16, <1>17, <1>18, <1>19, <1>20 DEF Next

LEMMA NextConnected == WatchInv /\ [Next]_vars => ExecConnected'
<1> SUFFICES ASSUME WatchInv, [Next]_vars PROVE ExecConnected'
  OBVIOUS
<1> USE DEF WatchInv, clientVars, watchVars, linkVars, ExecConnected, Idle
<1>1. CASE UNCHANGED vars
  BY <1>1 DEF vars
<1>2. ASSUME NEW c \in Clients, ExecBegin(c) PROVE ExecConnected'
  BY <1>2 DEF ExecBegin, Accepted
<1>3. ASSUME NEW c \in Clients, ExecStep(c) \/ ExecPropagateMulti(c) PROVE ExecConnected'
  BY <1>3 DEF ExecStep, ExecPropagateMulti, InCall
<1>4. ASSUME NEW c \in Clients, ExecEnd(c) PROVE ExecConnected'
  BY <1>4 DEF ExecEnd
<1>5. ASSUME NEW c \in Clients, FreeClient(c) \/ Connect(c) PROVE ExecConnected'
  BY <1>5 DEF FreeClient, Connect
<1>6. ASSUME exec' = exec, clients' = clients PROVE ExecConnected'
  BY <1>6
<1>7. ASSUME NEW c \in Clients,
             \/ \E op \in Ops \cup ControlOps : Refuse(c, op)
             \/ BadCommand(c) \/ MultiCommand(c) \/ DiscardCommand(c)
             \/ \E ks \in SUBSET Keys : WatchCommand(c, ks)
             \/ \E m \in Commands : CallCommand(c, m) \/ QueueMultiCommand(c, m)
             \/ ExecAbort(c)
      PROVE exec' = exec /\ clients' = clients
  BY <1>7 DEF Refuse, BadCommand, MultiCommand, DiscardCommand, WatchCommand, CallCommand,
              QueueMultiCommand, ExecAbort
<1>8. ASSUME \/ \E wk \in WKeys : DropKey(wk)
             \/ \E s \in SUBSET Conditions : ChangeConditions(s)
             \/ \E n \in 1 .. dirty : BgsaveDone(n)
      PROVE exec' = exec /\ clients' = clients
  BY <1>8 DEF DropKey, ChangeConditions, BgsaveDone
<1> QED BY <1>1, <1>2, <1>3, <1>4, <1>5, <1>6, <1>7, <1>8 DEF Next

LEMMA InitWatch == Init => WatchInv
<1> SUFFICES ASSUME Init PROVE WatchInv
  OBVIOUS
<1>1. WatchTablesAgree /\ FreeSlotsClean /\ ExecConnected
  BY DEF Init, WatchTablesAgree, FreeSlotsClean, ExecConnected
<1> QED BY <1>1, InitType DEF WatchInv

LEMMA WatchInvariant == Spec => []WatchInv
<1>1. WatchInv /\ [Next]_vars => WatchInv'
  BY NextType, NextWatch, NextConnected DEF WatchInv
<1> QED BY <1>1, InitWatch, PTL DEF Spec

\* For any clients, keys and databases, after any sequence of commands and
\* disconnections, the client side and the key side of WATCH agree.
THEOREM WatchTablesCorrect == Spec => []WatchTablesAgree
<1>1. WatchInv => WatchTablesAgree
  BY DEF WatchInv
<1> QED BY <1>1, WatchInvariant, PTL

----------------------------------------------------------------------------
(* A change of a watched key dirties the watching client.                  *)

\* The commands other than MOVE pass every key they change to a hook.
LEMMA ChangesAreHooked ==
  ASSUME NEW m \in Commands, m.op # "move", NEW d \in DBs, NEW ds \in Datasets,
         NEW wk \in WKeys, Effect(m, d, ds)[wk] # ds[wk]
  PROVE  wk \in Signalled(m, d, ds) \cup Flushed(m, d, ds)
<1>1. <<d, m.key>> \in WKeys
  BY CommandType DEF WKeys
<1>2. CASE m.op = "set"
  BY <1>1, <1>2 DEF Effect, Moves, Signalled, Datasets
<1>3. CASE m.op = "del"
  BY <1>1, <1>3 DEF Effect, Moves, Signalled, Datasets, Exists
<1>4. CASE m.op = "flushdb"
  BY <1>4 DEF Effect, Moves, Flushed, Datasets, Exists
<1>5. CASE m.op = "flushall"
  BY <1>5 DEF Effect, Moves, Flushed, Datasets, Exists
<1>6. CASE m.op \notin {"set", "del", "flushdb", "flushall"}
  BY <1>6 DEF Effect, Moves
<1> QED BY <1>2, <1>3, <1>4, <1>5, <1>6

LEMMA CallSound ==
  ASSUME WatchInv, WatchSound, NEW c \in Clients, c \in clients, NEW m \in Commands,
         m.op # "move", Call(c, m), clients' = clients
  PROVE  WatchSound'
<1> SUFFICES ASSUME NEW x \in clients, touched'[x] # {} PROVE "DIRTY_CAS" \in flags'[x]
  BY DEF WatchSound
<1> USE DEF WatchInv
<1>0. x \in Clients /\ db[c] \in DBs /\ dict \in Datasets
  BY DEF TypeOK
<1>1. CASE x = c /\ m.op = "unwatch"
  BY <1>0, <1>1 DEF Call, TypeOK
<1>2. CASE ~(x = c /\ m.op = "unwatch") /\ touched[x] # {}
  <2>1. "DIRTY_CAS" \in flags[x]
    BY <1>2 DEF WatchSound
  <2> QED BY <1>0, <1>2, <2>1 DEF Call
<1>3. CASE ~(x = c /\ m.op = "unwatch") /\ touched[x] = {}
  <2>1. PICK wk \in watched[x] : Effect(m, db[c], dict)[wk] # dict[wk]
    BY <1>0, <1>3 DEF Call, Changed, TypeOK
  <2>2. wk \in WKeys /\ x \in watched_keys[wk]
    BY <1>0, <2>1 DEF TypeOK, WatchTablesAgree
  <2>3. wk \in Signalled(m, db[c], dict) \cup Flushed(m, db[c], dict)
    BY <1>0, <2>1, <2>2, ChangesAreHooked
  <2>4. x \in TouchedClients(m, db[c], dict)
    BY <2>1, <2>2, <2>3 DEF TouchedClients
  <2> QED BY <1>0, <1>3, <2>4 DEF Call
<1> QED BY <1>1, <1>2, <1>3

LEMMA NextSound ==
  ASSUME WatchInv, WatchSound, [Next]_vars, ~Drops, "move" \notin Ops
  PROVE  WatchSound'
<1> USE DEF WatchInv, clientVars, watchVars, linkVars
<1>1. ASSUME NEW c \in Clients, Connect(c) PROVE WatchSound'
  BY <1>1 DEF Connect, WatchSound, FreeSlotsClean
<1>2. ASSUME NEW c \in Clients, FreeClient(c) PROVE WatchSound'
  BY <1>2 DEF FreeClient, WatchSound, TypeOK
<1>3. ASSUME NEW c \in Clients, clients' = clients, touched' = touched,
             \A x \in Clients : flags[x] \subseteq flags'[x]
      PROVE WatchSound'
  BY <1>3 DEF WatchSound, TypeOK
<1>4. ASSUME NEW c \in Clients, NEW op \in Ops \cup ControlOps, Refuse(c, op) PROVE WatchSound'
  <2>0. flags' = flags \/ FlagTransaction(c)
    BY <1>4, Zenon DEF Refuse
  <2>1. \A x \in Clients : flags[x] \subseteq flags'[x]
    <3>1. CASE flags' = flags
      BY <3>1
    <3>2. CASE FlagTransaction(c)
      BY <3>2 DEF FlagTransaction, TypeOK
    <3> QED BY <2>0, <3>1, <3>2
  <2> QED BY <1>3, <1>4, <2>1 DEF Refuse
<1>5. ASSUME NEW c \in Clients, BadCommand(c) PROVE WatchSound'
  <2>1. \A x \in Clients : flags[x] \subseteq flags'[x]
    BY <1>5 DEF BadCommand, FlagTransaction, TypeOK
  <2> QED BY <1>3, <1>5, <2>1 DEF BadCommand
<1>6. ASSUME NEW c \in Clients, MultiCommand(c) PROVE WatchSound'
  <2>1. \A x \in Clients : flags[x] \subseteq flags'[x]
    BY <1>6 DEF MultiCommand, TypeOK
  <2> QED BY <1>3, <1>6, <2>1 DEF MultiCommand
<1>7. ASSUME NEW c \in Clients, clients' = clients, DiscardTransaction(c) PROVE WatchSound'
  BY <1>7 DEF DiscardTransaction, WatchSound, TypeOK
<1>8. ASSUME NEW c \in Clients, DiscardCommand(c) \/ ExecAbort(c) PROVE WatchSound'
  BY <1>7, <1>8 DEF DiscardCommand, ExecAbort
<1>9. ASSUME NEW c \in Clients, NEW ks \in SUBSET Keys, WatchCommand(c, ks) PROVE WatchSound'
  BY <1>9 DEF WatchCommand, WatchSound
<1>10. ASSUME NEW c \in Clients, NEW m \in Commands, CallCommand(c, m) PROVE WatchSound'
  <2>1. m.op # "move"
    BY CommandType
  <2> QED BY <1>10, <2>1, CallSound DEF CallCommand, Accepted
<1>11. ASSUME NEW c \in Clients, NEW m \in Commands, QueueMultiCommand(c, m) PROVE WatchSound'
  BY <1>11 DEF QueueMultiCommand, WatchSound
<1>12. ASSUME NEW c \in Clients, ExecBegin(c) PROVE WatchSound'
  BY <1>12 DEF ExecBegin, WatchSound, TypeOK
<1>13. ASSUME NEW c \in Clients, ExecStep(c) PROVE WatchSound'
  <2>1. c \in clients
    BY <1>13, ConstantsAssumption DEF ExecStep, InCall, ExecConnected
  <2>2. Queued(c) \in Commands
    BY <1>13 DEF ExecStep, InCall, Queued, TypeOK
  <2>3. Queued(c).op # "move"
    BY <2>2, CommandType
  <2>4. Call(c, Queued(c)) /\ clients' = clients
    BY <1>13 DEF ExecStep
  <2> QED BY <2>1, <2>2, <2>3, <2>4, CallSound
<1>14. ASSUME NEW c \in Clients, ExecEnd(c) PROVE WatchSound'
  BY <1>7, <1>14 DEF ExecEnd
<1>15. ASSUME NEW s \in SUBSET Conditions, ChangeConditions(s) PROVE WatchSound'
  BY <1>15 DEF ChangeConditions, WatchSound
<1>16. ASSUME NEW n \in 1 .. dirty, BgsaveDone(n) PROVE WatchSound'
  BY <1>16 DEF BgsaveDone, WatchSound
<1>17. CASE UNCHANGED vars
  BY <1>17 DEF vars, WatchSound
<1>18. ASSUME NEW wk \in WKeys, DropKey(wk) PROVE WatchSound'
  BY <1>18 DEF DropKey
<1>19. ASSUME NEW c \in Clients, ExecPropagateMulti(c) PROVE WatchSound'
  BY <1>19 DEF ExecPropagateMulti, WatchSound
<1> QED BY <1>1, <1>2, <1>4, <1>5, <1>6, <1>8, <1>9, <1>10, <1>11, <1>12, <1>13, <1>14,
           <1>15, <1>16, <1>17, <1>18, <1>19 DEF Next

\* Where no key expires or is evicted and MOVE is not used (the three that
\* call no hook), a change of a watched key always dirties its watchers.
THEOREM WatchSoundCorrect ==
  ASSUME ~Drops, "move" \notin Ops
  PROVE  Spec => []WatchSound
<1>1. Init => WatchSound
  BY DEF Init, WatchSound
<1>2. WatchInv /\ WatchSound /\ [Next]_vars => WatchSound'
  BY NextSound
<1> QED BY <1>1, <1>2, WatchInvariant, PTL DEF Spec

----------------------------------------------------------------------------
(* Propagation.                                                            *)

\* While EXEC runs, server.dirty is not below its value when EXEC began.
ExecDirty ==
  /\ dirty >= exec.dirty
  /\ exec.client = NoClient => ~exec.must_propagate /\ exec.dirty = 0

StreamInv == TypeOK /\ ReplicaInStep /\ ExecDirty

\* A reader in step that receives a command run in database d stays in step.
LEMMA ApplyInStep ==
  ASSUME TypeOK, ReplicaInStep, NEW d \in DBs,
         NEW m \in [op : Ops \cup {"del"}, key : Keys, val : Values \cup {NoVal}, db : DBs]
  PROVE  LET r == ReplicaApply(Selected(replica, d), m)
         IN  /\ r.multi = replica.multi /\ r.db = d /\ r.pdict = Effect(m, d, dict)
             /\ ~r.multi => r.dict = Effect(m, d, dict)
<1> DEFINE p == Selected(replica, d)
<1>1. /\ p.multi = replica.multi /\ p.db = d /\ p.pdict = dict /\ p.dict = replica.dict
      /\ p \in [multi : BOOLEAN, db : DBs, dict : Datasets, pdict : Datasets]
  BY DEF Selected, ReplicaInStep, TypeOK
<1> HIDE DEF p
<1> QED BY <1>1 DEF ReplicaApply, p

LEMMA NextStream ==
  ASSUME StreamInv, [Next]_vars, TypeOK', "save" \notin Ops
  PROVE  ReplicaInStep' /\ ExecDirty'
<1> USE DEF StreamInv, clientVars, watchVars, linkVars
<1>1. ASSUME exec' = exec, dict' = dict, replica' = replica, slaveseldb' = slaveseldb, dirty' = dirty
      PROVE ReplicaInStep' /\ ExecDirty'
  BY <1>1 DEF ReplicaInStep, ExecDirty
<1>2. ASSUME NEW c \in Clients,
             \/ Connect(c) \/ FreeClient(c)
             \/ \E op \in Ops \cup ControlOps : Refuse(c, op)
             \/ BadCommand(c) \/ MultiCommand(c) \/ DiscardCommand(c)
             \/ \E ks \in SUBSET Keys : WatchCommand(c, ks)
             \/ \E m \in Commands : QueueMultiCommand(c, m)
             \/ ExecAbort(c)
      PROVE  ReplicaInStep' /\ ExecDirty'
  <2>1. exec' = exec /\ dict' = dict /\ replica' = replica /\ slaveseldb' = slaveseldb /\ dirty' = dirty
    BY <1>2 DEF Connect, FreeClient, Refuse, BadCommand, MultiCommand, DiscardCommand,
                WatchCommand, QueueMultiCommand, ExecAbort
  <2> QED BY <1>1, <2>1
<1>3. ASSUME NEW c \in Clients, NEW m \in Commands, CallCommand(c, m)
      PROVE  ReplicaInStep' /\ ExecDirty'
  <2>1. db[c] \in DBs /\ m.op # "save"
    BY CommandType DEF TypeOK
  <2>2. /\ dict' = Effect(m, db[c], dict) /\ dirty' = DirtyAfter(m, db[c], dict)
        /\ exec' = exec /\ exec.client = NoClient
    BY <1>3 DEF CallCommand, Call, Accepted, Idle
  <2>3. dirty' \in Nat /\ dirty' >= dirty
    BY <2>1, <2>2, DirtyFacts
  <2>4. CASE dirty' > dirty
    <3>1. replica' = ReplicaApply(Selected(replica, db[c]), m) /\ slaveseldb' = db[c]
      BY <1>3, <2>2, <2>4 DEF CallCommand, Propagated
    <3> QED BY <2>1, <2>2, <2>3, <3>1, ApplyInStep, CommandType DEF ReplicaInStep, ExecDirty, TypeOK
  <2>5. CASE ~(dirty' > dirty)
    <3>1. replica' = replica /\ slaveseldb' = slaveseldb /\ dict' = dict
      BY <1>3, <2>1, <2>2, <2>5, DirtyFacts DEF CallCommand
    <3> QED BY <2>2, <2>3, <3>1 DEF ReplicaInStep, ExecDirty, TypeOK
  <2> QED BY <2>4, <2>5
<1>4. ASSUME NEW c \in Clients, ExecBegin(c) PROVE ReplicaInStep' /\ ExecDirty'
  <2>1. ~exec.must_propagate
    BY <1>4 DEF ExecBegin, Accepted, Idle, ExecDirty
  <2>2. exec' = [client |-> c, j |-> 1, must_propagate |-> FALSE, dirty |-> dirty]
    BY <1>4 DEF ExecBegin
  <2>3. ReplicaInStep'
    <3>1. exec'.must_propagate = FALSE
      BY <2>2, Zenon
    <3>2. replica.multi = FALSE
      BY <2>1, Zenon DEF ReplicaInStep, TypeOK
    <3>3. replica' = replica /\ slaveseldb' = slaveseldb /\ dict' = dict
      BY <1>4 DEF ExecBegin
    <3> QED BY <3>1, <3>2, <3>3, Zenon DEF ReplicaInStep
  <2>4. ExecDirty'
    BY <1>4, <2>2, ConstantsAssumption DEF ExecBegin, ExecDirty, TypeOK
  <2> QED BY <2>3, <2>4
<1>5. ASSUME NEW c \in Clients, ExecStep(c) PROVE ReplicaInStep' /\ ExecDirty'
  <2>1. Queued(c) \in Commands /\ db[c] \in DBs
    BY <1>5 DEF ExecStep, InCall, Queued, TypeOK
  <2>2. Queued(c).op # "save"
    BY <2>1, CommandType
  <2>3. /\ dict' = Effect(Queued(c), db[c], dict)
        /\ dirty' = DirtyAfter(Queued(c), db[c], dict)
    BY <1>5 DEF ExecStep, Call
  <2>4. /\ exec'.must_propagate = exec.must_propagate
        /\ exec'.client = c /\ exec'.dirty = exec.dirty
    <3>1. exec' = [client |-> c, j |-> exec.j + 1, dirty |-> exec.dirty,
                   must_propagate |-> exec.must_propagate]
      BY <1>5, Zenon DEF ExecStep
    <3> QED BY <3>1, Zenon
  <2>5. dirty' \in Nat /\ dirty' >= dirty
    BY <2>1, <2>2, <2>3, DirtyFacts
  <2>6. ExecDirty'
    BY <2>4, <2>5, ConstantsAssumption DEF ExecDirty, TypeOK
  <2>7. CASE dirty' > dirty
    <3>1. replica' = ReplicaApply(Selected(replica, db[c]), Queued(c)) /\ slaveseldb' = db[c]
      BY <1>5, <2>3, <2>7 DEF ExecStep, Propagated
    <3> QED BY <2>1, <2>3, <2>4, <2>6, <3>1, ApplyInStep, CommandType DEF ReplicaInStep
  <2>8. CASE ~(dirty' > dirty)
    <3>1. replica' = replica /\ slaveseldb' = slaveseldb
      BY <1>5, <2>3, <2>8 DEF ExecStep
    <3>2. dict' = dict
      BY <2>1, <2>3, <2>8, DirtyFacts
    <3> QED BY <2>4, <2>6, <3>1, <3>2 DEF ReplicaInStep
  <2> QED BY <2>7, <2>8
<1>11. ASSUME NEW c \in Clients, ExecPropagateMulti(c) PROVE ReplicaInStep' /\ ExecDirty'
  <2>1. /\ ~exec.must_propagate /\ db[c] \in DBs
        /\ dict' = dict /\ dirty' = dirty /\ slaveseldb' = db[c]
        /\ replica' = ReplicaMulti(Selected(replica, db[c]))
    BY <1>11 DEF ExecPropagateMulti, TypeOK
  <2>2. exec'.must_propagate = TRUE /\ exec'.client = c /\ exec'.dirty = exec.dirty
    <3>1. exec' = [client |-> c, j |-> exec.j, dirty |-> exec.dirty, must_propagate |-> TRUE]
      BY <1>11, Zenon DEF ExecPropagateMulti
    <3> QED BY <3>1, Zenon
  <2>3. replica'.multi = TRUE /\ replica'.db = db[c] /\ replica'.pdict = dict
    BY <2>1 DEF Selected, ReplicaMulti, ReplicaInStep, TypeOK
  <2>4. ExecDirty'
    BY <2>1, <2>2, ConstantsAssumption DEF ExecDirty, TypeOK
  <2> QED BY <2>1, <2>2, <2>3, <2>4, Zenon DEF ReplicaInStep
<1>6. ASSUME NEW c \in Clients, ExecEnd(c) PROVE ReplicaInStep' /\ ExecDirty'
  <2>1. /\ dict' = dict /\ db[c] \in DBs
        /\ exec' = [client |-> NoClient, j |-> 1, must_propagate |-> FALSE, dirty |-> 0]
    BY <1>6 DEF ExecEnd, TypeOK
  <2>2. ExecDirty'
    BY <2>1 DEF ExecDirty, TypeOK
  <2>m. exec'.must_propagate = FALSE
    BY <2>1, Zenon
  <2>3. CASE dirty' > exec.dirty
    <3>1. replica' = ReplicaExec(Selected(replica, db[c])) /\ slaveseldb' = db[c]
      BY <1>6, <2>3 DEF ExecEnd
    <3> DEFINE p == Selected(replica, db[c])
    <3>2. p.db = db[c] /\ p.pdict = dict
          /\ p \in [multi : BOOLEAN, db : DBs, dict : Datasets, pdict : Datasets]
      BY <2>1 DEF Selected, ReplicaInStep, TypeOK
    <3> HIDE DEF p
    <3>3. ~replica'.multi /\ replica'.db = db[c] /\ replica'.pdict = dict /\ replica'.dict = dict
      BY <3>1, <3>2 DEF ReplicaExec, p
    <3>4. replica'.multi = FALSE
      BY <3>3, Zenon DEF TypeOK
    <3> QED BY <2>1, <2>2, <2>m, <3>1, <3>3, <3>4, Zenon DEF ReplicaInStep
  <2>4. CASE ~(dirty' > exec.dirty)
    <3>1. replica' = replica /\ slaveseldb' = slaveseldb
      BY <1>6, <2>4 DEF ExecEnd
    <3>2. ~exec.must_propagate
      BY <1>6, <2>4 DEF ExecEnd, ExecDirty, TypeOK
    <3>3. replica.multi = FALSE
      BY <3>2, Zenon DEF ReplicaInStep, TypeOK
    <3> QED BY <2>1, <2>2, <2>m, <3>1, <3>3, Zenon DEF ReplicaInStep
  <2> QED BY <2>3, <2>4
<1>7. ASSUME NEW wk \in WKeys, DropKey(wk) PROVE ReplicaInStep' /\ ExecDirty'
  <2> DEFINE m == [op |-> "del", key |-> wk[2], val |-> NoVal, db |-> wk[1]]
  <2>1. wk[1] \in DBs /\ wk = <<wk[1], wk[2]>>
        /\ m \in [op : Ops \cup {"del"}, key : Keys, val : Values \cup {NoVal}, db : DBs]
    BY DEF WKeys
  <2>2. dict' = Effect(m, wk[1], dict)
    BY <1>7, <2>1 DEF DropKey, Effect, Moves
  <2>3. replica' = ReplicaApply(Selected(replica, wk[1]), m) /\ slaveseldb' = wk[1]
        /\ exec' = exec /\ dirty' = dirty
    BY <1>7 DEF DropKey
  <2> HIDE DEF m
  <2> QED BY <2>1, <2>2, <2>3, ApplyInStep DEF ReplicaInStep, ExecDirty
<1>8. ASSUME NEW s \in SUBSET Conditions, ChangeConditions(s) PROVE ReplicaInStep' /\ ExecDirty'
  BY <1>1, <1>8 DEF ChangeConditions
<1>9. ASSUME NEW n \in 1 .. dirty, BgsaveDone(n) PROVE ReplicaInStep' /\ ExecDirty'
  BY <1>9 DEF BgsaveDone, Idle, ReplicaInStep, ExecDirty, TypeOK
<1>10. CASE UNCHANGED vars
  BY <1>1, <1>10 DEF vars
<1> QED BY <1>2, <1>3, <1>4, <1>5, <1>6, <1>7, <1>8, <1>9, <1>10, <1>11 DEF Next

\* Where no transaction runs SAVE (which resets server.dirty), a reader of the
\* propagated stream is in step with the server after every command.
THEOREM ReplicaCorrect ==
  ASSUME "save" \notin Ops
  PROVE  Spec => []ReplicaInStep
<1>1. Init => StreamInv
  <2> SUFFICES ASSUME Init PROVE StreamInv
    OBVIOUS
  <2>0. /\ exec = [client |-> NoClient, j |-> 1, must_propagate |-> FALSE, dirty |-> 0]
        /\ dirty = 0
    BY DEF Init
  <2>a. PICK d \in DBs :
          /\ slaveseldb = d
          /\ replica = [multi |-> FALSE, db |-> d, dict |-> dict, pdict |-> dict]
    BY DEF Init
  <2>1. ReplicaInStep /\ ExecDirty
    BY <2>0, <2>a DEF ReplicaInStep, ExecDirty
  <2> QED BY <2>1, InitType DEF StreamInv
<1>2. StreamInv /\ [Next]_vars => StreamInv'
  BY NextType, NextStream DEF StreamInv
<1>3. StreamInv => ReplicaInStep
  BY DEF StreamInv
<1> QED BY <1>1, <1>2, <1>3, PTL DEF Spec

----------------------------------------------------------------------------
(* The causes of an abort.                                                 *)

\* DirtyHasCause, of every slot.
FlagHasCause == \A c \in Clients : "DIRTY_CAS" \in flags[c] => watched[c] # {}

LEMMA CallHasCause ==
  ASSUME WatchInv, FlagHasCause, NEW c \in Clients, NEW m \in Commands, Call(c, m)
  PROVE  FlagHasCause'
<1> SUFFICES ASSUME NEW x \in Clients, "DIRTY_CAS" \in flags'[x] PROVE watched'[x] # {}
  BY DEF FlagHasCause
<1> USE DEF WatchInv, TypeOK
<1>1. CASE m.op = "unwatch"
  <2>1. x # c /\ x \notin TouchedClients(m, db[c], dict)
    BY <1>1 DEF Call, TouchedClients, Signalled, Flushed
  <2>2. "DIRTY_CAS" \in flags[x]
    BY <2>1 DEF Call
  <2>3. watched'[x] = watched[x]
    BY <1>1, <2>1 DEF Call, Unwatch
  <2> QED BY <2>2, <2>3 DEF FlagHasCause
<1>2. CASE m.op # "unwatch"
  <2>1. watched'[x] = watched[x]
    BY <1>2 DEF Call, watchVars
  <2>2. CASE x \in TouchedClients(m, db[c], dict)
    <3>1. db[c] \in DBs /\ m.key \in Keys
      BY CommandType
    <3>2. Signalled(m, db[c], dict) \subseteq WKeys
      BY <3>1 DEF Signalled, WKeys
    <3> QED BY <2>1, <2>2, <3>2 DEF TouchedClients, WatchTablesAgree
  <2>3. CASE x \notin TouchedClients(m, db[c], dict)
    BY <1>2, <2>1, <2>3 DEF Call, FlagHasCause
  <2> QED BY <2>2, <2>3
<1> QED BY <1>1, <1>2

LEMMA NextHasCause ==
  ASSUME WatchInv, FlagHasCause, [Next]_vars
  PROVE  FlagHasCause'
<1> USE DEF WatchInv, clientVars, watchVars, linkVars
<1>1. ASSUME watched' = watched, \A x \in Clients : "DIRTY_CAS" \in flags'[x] => "DIRTY_CAS" \in flags[x]
      PROVE  FlagHasCause'
  BY <1>1 DEF FlagHasCause
<1>2. ASSUME NEW c \in Clients, Connect(c) PROVE FlagHasCause'
  BY <1>1, <1>2 DEF Connect
<1>3. ASSUME NEW c \in Clients, FreeClient(c) PROVE FlagHasCause'
  BY <1>3 DEF FreeClient, Unwatch, FlagHasCause, TypeOK
<1>4. ASSUME NEW c \in Clients, NEW op \in Ops \cup ControlOps, Refuse(c, op) PROVE FlagHasCause'
  <2>1. /\ flags' = flags \/ FlagTransaction(c)
        /\ watched' = watched
    BY <1>4, Zenon DEF Refuse
  <2>2. CASE FlagTransaction(c)
    BY <1>1, <2>1, <2>2 DEF FlagTransaction, TypeOK
  <2> QED BY <1>1, <2>1, <2>2
<1>5. ASSUME NEW c \in Clients, BadCommand(c) PROVE FlagHasCause'
  BY <1>1, <1>5 DEF BadCommand, FlagTransaction, TypeOK
<1>6. ASSUME NEW c \in Clients, MultiCommand(c) PROVE FlagHasCause'
  BY <1>1, <1>6 DEF MultiCommand, TypeOK
<1>7. ASSUME NEW c \in Clients, DiscardTransaction(c) PROVE FlagHasCause'
  BY <1>7 DEF DiscardTransaction, Unwatch, FlagHasCause, TypeOK
<1>8. ASSUME NEW c \in Clients, DiscardCommand(c) \/ ExecAbort(c) \/ ExecEnd(c) PROVE FlagHasCause'
  BY <1>7, <1>8 DEF DiscardCommand, ExecAbort, ExecEnd
<1>9. ASSUME NEW c \in Clients, NEW ks \in SUBSET Keys, WatchCommand(c, ks) PROVE FlagHasCause'
  BY <1>9 DEF WatchCommand, FlagHasCause, TypeOK
<1>10. ASSUME NEW c \in Clients, NEW m \in Commands, CallCommand(c, m) PROVE FlagHasCause'
  BY <1>10, CallHasCause DEF CallCommand
<1>11. ASSUME NEW c \in Clients, NEW m \in Commands, QueueMultiCommand(c, m) PROVE FlagHasCause'
  BY <1>1, <1>11 DEF QueueMultiCommand
<1>12. ASSUME NEW c \in Clients, ExecBegin(c) PROVE FlagHasCause'
  BY <1>12 DEF ExecBegin, Unwatch, FlagHasCause, TypeOK
<1>13. ASSUME NEW c \in Clients, ExecStep(c) PROVE FlagHasCause'
  <2>1. Queued(c) \in Commands
    BY <1>13 DEF ExecStep, InCall, Queued, TypeOK
  <2>2. Call(c, Queued(c))
    BY <1>13 DEF ExecStep
  <2> QED BY <2>1, <2>2, CallHasCause
<1>14. ASSUME \/ \E wk \in WKeys : DropKey(wk)
              \/ \E s \in SUBSET Conditions : ChangeConditions(s)
              \/ \E n \in 1 .. dirty : BgsaveDone(n)
       PROVE  FlagHasCause'
  BY <1>1, <1>14 DEF DropKey, ChangeConditions, BgsaveDone
<1>15. CASE UNCHANGED vars
  BY <1>1, <1>15 DEF vars
<1>16. ASSUME NEW c \in Clients, ExecPropagateMulti(c) PROVE FlagHasCause'
  BY <1>1, <1>16 DEF ExecPropagateMulti
<1> QED BY <1>2, <1>3, <1>4, <1>5, <1>6, <1>8, <1>9, <1>10, <1>11, <1>12, <1>13, <1>14, <1>15,
           <1>16 DEF Next

\* Expiry, MOVE and refusals included: an EXEC is aborted as dirty only for a
\* client that watches something, so DIRTY_CAS never outlives its transaction.
THEOREM DirtyHasCauseCorrect == Spec => []DirtyHasCause
<1>1. Init => FlagHasCause
  BY DEF Init, FlagHasCause
<1>2. WatchInv /\ FlagHasCause /\ [Next]_vars => FlagHasCause'
  BY NextHasCause
<1>3. WatchInv /\ FlagHasCause => DirtyHasCause
  BY DEF WatchInv, TypeOK, FlagHasCause, DirtyHasCause
<1> QED BY <1>1, <1>2, <1>3, WatchInvariant, PTL DEF Spec

----------------------------------------------------------------------------
(* When EXEC runs.                                                         *)

\* A transaction with a refused command is DIRTY_EXEC.
RefusedFlagged == \A c \in Clients : refused[c] => "DIRTY_EXEC" \in flags[c]

\* The first check that fails is one of those that fail.
LEMMA RefusalFails ==
  ASSUME NEW op, cond \subseteq Conditions, Refusals(op) # {}
  PROVE  Refusal(op) \in Refusals(op)
<1> DEFINE Fails(i) == RefusalOrder[i] \in Refusals(op)
           First(i) == Fails(i) /\ \A j \in 1 .. i - 1 : ~Fails(j)
<1>1. Len(RefusalOrder) = 8
  BY DEF RefusalOrder
<1>2. \E i \in 1 .. 8 : Fails(i)
  <2>1. PICK r \in Refusals(op) : r \in AllConditions
    BY ConstantsAssumption DEF Refusals
  <2>2. \E i \in 1 .. 8 : RefusalOrder[i] = r
    BY <2>1 DEF RefusalOrder, AllConditions
  <2> QED BY <2>1, <2>2
<1>3. \E i \in 1 .. 8 : First(i)
  <2> HIDE DEF Fails
  <2> QED BY <1>2
<1>4. First(CHOOSE i \in 1 .. 8 : First(i))
  <2> HIDE DEF First
  <2> QED BY <1>3
<1> QED BY <1>1, <1>4 DEF Refusal

\* What ends or begins a transaction, or leaves it alone, keeps the flag.
LEMMA NextRefused ==
  ASSUME WatchInv, RefusedFlagged, [Next]_vars, Conditions \cap {"readonly", "loading"} = {}
  PROVE  RefusedFlagged'
<1> USE DEF WatchInv, clientVars, watchVars, linkVars
<1>1. ASSUME refused' = refused,
             \A x \in Clients : "DIRTY_EXEC" \in flags[x] => "DIRTY_EXEC" \in flags'[x]
      PROVE  RefusedFlagged'
  BY <1>1 DEF RefusedFlagged
<1>2. ASSUME NEW c \in Clients, Connect(c) PROVE RefusedFlagged'
  BY <1>1, <1>2 DEF Connect
<1>3. ASSUME NEW c \in Clients, FreeClient(c) PROVE RefusedFlagged'
  BY <1>3 DEF FreeClient, RefusedFlagged, TypeOK
<1>4. ASSUME NEW c \in Clients, NEW op, FlagTransaction(c), NoteRefused(c, op) PROVE RefusedFlagged'
  BY <1>4 DEF FlagTransaction, NoteRefused, RefusedFlagged, TypeOK
<1>5. ASSUME NEW c \in Clients, NEW op \in Ops \cup ControlOps, Refuse(c, op) PROVE RefusedFlagged'
  <2>1. Refusal(op) \in cond
    BY <1>5, RefusalFails DEF Refuse, Refusals, TypeOK
  <2>2. Refusal(op) \in FlaggingRefusals
    BY <2>1, ConstantsAssumption DEF FlaggingRefusals, AllConditions, TypeOK
  <2>3. FlagTransaction(c) /\ NoteRefused(c, op)
    BY <1>5, <2>2, Zenon DEF Refuse
  <2> QED BY <1>4, <2>3
<1>6. ASSUME NEW c \in Clients, BadCommand(c) PROVE RefusedFlagged'
  BY <1>4, <1>6 DEF BadCommand
<1>7. ASSUME NEW c \in Clients, MultiCommand(c) PROVE RefusedFlagged'
  BY <1>7 DEF MultiCommand, RefusedFlagged, TypeOK
<1>8. ASSUME NEW c \in Clients, DiscardTransaction(c) PROVE RefusedFlagged'
  BY <1>8 DEF DiscardTransaction, RefusedFlagged, TypeOK
<1>9. ASSUME NEW c \in Clients, DiscardCommand(c) \/ ExecAbort(c) \/ ExecEnd(c) PROVE RefusedFlagged'
  BY <1>8, <1>9 DEF DiscardCommand, ExecAbort, ExecEnd
<1>10. ASSUME NEW c \in Clients, NEW m, Call(c, m), refused' = refused PROVE RefusedFlagged'
  BY <1>1, <1>10 DEF Call, TypeOK
<1>11. ASSUME NEW c \in Clients, (\E m \in Commands : CallCommand(c, m)) \/ ExecStep(c) PROVE RefusedFlagged'
  BY <1>10, <1>11 DEF CallCommand, ExecStep
<1>12. ASSUME NEW c \in Clients,
              \/ \E ks \in SUBSET Keys : WatchCommand(c, ks)
              \/ \E m \in Commands : QueueMultiCommand(c, m)
              \/ ExecBegin(c) \/ ExecPropagateMulti(c)
       PROVE  RefusedFlagged'
  BY <1>1, <1>12 DEF WatchCommand, QueueMultiCommand, ExecBegin, ExecPropagateMulti
<1>13. ASSUME \/ \E wk \in WKeys : DropKey(wk)
              \/ \E s \in SUBSET Conditions : ChangeConditions(s)
              \/ \E n \in 1 .. dirty : BgsaveDone(n)
       PROVE  RefusedFlagged'
  BY <1>1, <1>13 DEF DropKey, ChangeConditions, BgsaveDone
<1>14. CASE UNCHANGED vars
  BY <1>1, <1>14 DEF vars
<1> QED BY <1>2, <1>3, <1>5, <1>6, <1>7, <1>9, <1>11, <1>12, <1>13, <1>14 DEF Next

\* Only ExecBegin starts an EXEC, and its guard reads the flags.
LEMMA ExecFindsNoFlag ==
  ASSUME [Next]_vars, NEW c \in Clients, ExecRuns(c)
  PROVE  c \in clients /\ flags[c] \cap {"DIRTY_CAS", "DIRTY_EXEC"} = {}
<1> USE ConstantsAssumption DEF ExecRuns, Idle, clientVars, watchVars, linkVars
<1>1. ~(exec' = exec)
  OBVIOUS
<1>2. ~(\E x \in Clients : \/ Connect(x) \/ FreeClient(x)
                           \/ \E op \in Ops \cup ControlOps : Refuse(x, op)
                           \/ BadCommand(x) \/ MultiCommand(x) \/ DiscardCommand(x)
                           \/ \E ks \in SUBSET Keys : WatchCommand(x, ks)
                           \/ \E m \in Commands : CallCommand(x, m) \/ QueueMultiCommand(x, m)
                           \/ ExecAbort(x))
  BY <1>1 DEF Connect, FreeClient, Refuse, BadCommand, MultiCommand, DiscardCommand, WatchCommand,
              CallCommand, QueueMultiCommand, ExecAbort
<1>3. ~(\/ \E wk \in WKeys : DropKey(wk)
        \/ \E s \in SUBSET Conditions : ChangeConditions(s)
        \/ \E n \in 1 .. dirty : BgsaveDone(n)
        \/ UNCHANGED vars)
  BY <1>1 DEF DropKey, ChangeConditions, BgsaveDone, vars
<1>4. ~(\E x \in Clients : ExecPropagateMulti(x) \/ ExecStep(x) \/ ExecEnd(x))
  BY DEF ExecPropagateMulti, ExecStep, InCall, ExecEnd
<1>5. PICK x \in Clients : ExecBegin(x)
  BY <1>2, <1>3, <1>4, Zenon DEF Next
<1>6. x = c
  BY <1>5 DEF ExecBegin
<1> QED BY <1>5, <1>6 DEF ExecBegin, Accepted

\* execCommand and flagTransaction: where every change is hooked and every
\* refusal flags (READONLY and LOADING do not), EXEC runs nothing if a watched
\* key changed or a command was refused, however late.
THEOREM ExecOnlyIfCleanCorrect ==
  ASSUME ~Drops, "move" \notin Ops, Conditions \cap {"readonly", "loading"} = {}
  PROVE  Spec => ExecOnlyIfClean
<1>1. Init => RefusedFlagged
  BY DEF Init, RefusedFlagged
<1>2. WatchInv /\ RefusedFlagged /\ [Next]_vars => RefusedFlagged'
  BY NextRefused
<1>3. ASSUME WatchInv, WatchSound, RefusedFlagged, [Next]_vars, NEW c \in Clients, ExecRuns(c)
      PROVE  touched[c] = {} /\ ~refused[c]
  BY <1>3, ExecFindsNoFlag DEF WatchSound, RefusedFlagged, WatchInv, TypeOK
<1>4. WatchInv /\ WatchSound /\ RefusedFlagged /\ [Next]_vars
        => [\A c \in Clients : ExecRuns(c) => touched[c] = {} /\ ~refused[c]]_vars
  BY <1>3
<1> QED BY <1>1, <1>2, <1>4, WatchInvariant, WatchSoundCorrect, PTL DEF Spec, ExecOnlyIfClean
=============================================================================
