----------------------------- MODULE ScriptRun -----------------------------
(***************************************************************************)
(* A script while it runs (scripting.c): the commands it calls and may not *)
(* call, the hook that lets other clients in once it takes too long, and   *)
(* SCRIPT KILL.  The conversions of replies into Lua values and back are   *)
(* the operators at the end.                                               *)
(***************************************************************************)
EXTENDS Integers, Sequences, FiniteSets, SequencesExt, TLC

CONSTANTS ScriptClients, Nobody

VARIABLES script,  \* [lua_caller, ..., caught]: see Idle
          sclients, \* client -> [connected, readable, replies]: replies not yet written
          sdeeds    \* history of the script: what it did, or what was done to it

runvars == <<script, sclients, sdeeds>>

\* protected: inside a pcall of the script's own.
Idle == [lua_caller |-> Nobody, lua_random_dirty |-> FALSE, lua_write_dirty |-> FALSE, lua_kill |-> FALSE,
         lua_timedout |-> FALSE, protected |-> FALSE]
NoDeeds == [random |-> FALSE, wrote |-> FALSE, mixed |-> FALSE, caught |-> FALSE, killed |-> FALSE, owed |-> FALSE]

Running(c) == script.lua_caller = c

\* processInputBuffer of a client that is read: evalGenericCommand up to the call.
StartScript(c) ==
  /\ Running(Nobody) /\ sclients[c].connected /\ sclients[c].readable
  /\ script' = [Idle EXCEPT !.lua_caller = c]
  /\ sdeeds' = [NoDeeds EXCEPT !.owed = sclients[c].replies]
  /\ UNCHANGED sclients

\* The end of evalGenericCommand: the reply is for a client that must still exist.
End(died) ==
  /\ script' = [Idle EXCEPT !.lua_random_dirty = script.lua_random_dirty, !.lua_write_dirty = script.lua_write_dirty]
  /\ sclients' = [sclients EXCEPT ![script.lua_caller] =
       [@ EXCEPT !.readable = @ \/ script.lua_timedout, !.replies = TRUE]]
  /\ sdeeds' = died

\* An error unwinds to the innermost pcall, or ends the script.
Raise(deeds) == IF script.protected
                  THEN script' = [script EXCEPT !.protected = FALSE] /\ sdeeds' = deeds /\ UNCHANGED sclients
                  ELSE End(deeds)

\* luaRedisGenericCommand: kind says what the command does; refused is another
\* refusal (a read only slave, a failing BGSAVE, no memory), before a write only.
Refused(kind, refused) == kind = "write" /\ (script.lua_random_dirty \/ refused)

RedisCall(kind, refused) ==
  /\ ~Running(Nobody)
  /\ IF Refused(kind, refused)
       THEN Raise(sdeeds)
       ELSE /\ script' = [script EXCEPT !.lua_random_dirty = @ \/ kind = "random", !.lua_write_dirty = @ \/ kind = "write"]
            /\ sdeeds' = [sdeeds EXCEPT !.random = @ \/ kind = "random", !.wrote = @ \/ kind = "write",
                                        !.mixed = @ \/ (kind = "write" /\ sdeeds.random)]
            /\ UNCHANGED sclients

Protect(on) == /\ ~Running(Nobody) /\ script.protected # on /\ script' = [script EXCEPT !.protected = on]
               /\ UNCHANGED <<sclients, sdeeds>>
Finish == ~Running(Nobody) /\ ~script.protected /\ End(sdeeds)

\* luaMaskCountHook: the first time the limit is exceeded the caller is no longer read.
TimesOut == /\ ~Running(Nobody) /\ ~script.lua_timedout
            /\ script' = [script EXCEPT !.lua_timedout = TRUE]
            /\ sclients' = [sclients EXCEPT ![script.lua_caller].readable = FALSE]
            /\ UNCHANGED sdeeds

\* processEventsWhileBlocked: SCRIPT KILL of another client, whatever else is refused;
\* the hook then raises the error.
ScriptKill(c) ==
  /\ script.lua_timedout /\ ~Running(c) /\ sclients[c].connected /\ sclients[c].readable
  /\ IF script.lua_write_dirty THEN UNCHANGED <<script, sdeeds>> ELSE
       /\ script' = [script EXCEPT !.lua_kill = TRUE]
       /\ sdeeds' = [sdeeds EXCEPT !.killed = TRUE]
  /\ UNCHANGED sclients
HookKills == ~Running(Nobody) /\ script.lua_kill /\ Raise([sdeeds EXCEPT !.caught = @ \/ script.protected])

\* Readable and writable events of clients: one that is gone is freed when it is read,
\* or when a reply cannot be written.
Writes(c) == /\ sclients[c].connected /\ sclients[c].replies /\ (script.lua_timedout \/ Running(Nobody))
             /\ sclients' = [sclients EXCEPT ![c].replies = FALSE]
             /\ UNCHANGED <<script, sdeeds>>
Gone(c) == /\ sclients[c].connected /\ (script.lua_timedout \/ Running(Nobody))
           /\ sclients[c].readable \/ sclients[c].replies
           /\ sclients' = [sclients EXCEPT ![c] = [connected |-> FALSE, readable |-> FALSE, replies |-> FALSE]]
           /\ UNCHANGED <<script, sdeeds>>
Connect(c) == /\ ~sclients[c].connected /\ (script.lua_timedout \/ Running(Nobody)) /\ ~Running(c)
              /\ sclients' = [sclients EXCEPT ![c] = [connected |-> TRUE, readable |-> TRUE, replies |-> FALSE]]
              /\ UNCHANGED <<script, sdeeds>>

RunInit == /\ script = Idle /\ sdeeds = NoDeeds
           /\ sclients = [c \in ScriptClients |-> [connected |-> TRUE, readable |-> TRUE, replies |-> FALSE]]

\* An error raised is raised at once: nothing else runs in between.
RunNext ==
  \/ HookKills
  \/ /\ ~script.lua_kill \/ sdeeds.caught
     /\ \/ \E kind \in {"read", "write", "random"}, refused \in BOOLEAN : RedisCall(kind, refused)
        \/ \E on \in BOOLEAN : Protect(on)
        \/ Finish \/ TimesOut
        \/ \E c \in ScriptClients : StartScript(c) \/ ScriptKill(c) \/ Writes(c) \/ Gone(c) \/ Connect(c)

----------------------------------------------------------------------------
(* Replies: a Lua value is [t, v]; an array ends at the first nil.         *)

Reply(t, text)  == [t |-> t, text |-> text, array |-> <<>>]
Multi(replies)  == [t |-> "multi", text |-> "", array |-> replies]
Lua(t, text)    == [t |-> t, text |-> text, array |-> <<>>]
Table(values)   == [t |-> "array", text |-> "", array |-> values]

\* redisProtocolToLuaType: a nil reply, bulk or multi bulk, is false.
RECURSIVE RedisToLua(_)
RedisToLua(r) == CASE r.t = "int"    -> Lua("number", r.text)
                   [] r.t = "bulk"   -> Lua("string", r.text)
                   [] r.t = "status" -> Lua("ok", r.text)
                   [] r.t = "error"  -> Lua("err", r.text)
                   [] r.t = "multi"  -> Table(<<>> \o [i \in DOMAIN r.array |-> RedisToLua(r.array[i])])
                   [] OTHER          -> Lua("boolean", "false")

\* luaReplyToRedisReply: true is 1, an array ends at its first nil.
RECURSIVE LuaToRedis(_)
LuaToRedis(l) ==
  LET nils == {i \in DOMAIN l.array : l.array[i].t = "nil"}
      last == IF nils = {} THEN Len(l.array) ELSE (CHOOSE i \in nils : \A j \in nils : i <= j) - 1
  IN  CASE l.t = "string" -> Reply("bulk", l.text)
        [] l.t = "number" -> Reply("int", l.text)
        [] l.t = "err"    -> Reply("error", l.text)
        [] l.t = "ok"     -> Reply("status", l.text)
        [] l.t = "array"  -> Multi(<<>> \o [i \in 1 .. last |-> LuaToRedis(l.array[i])])
        [] l.t = "boolean" /\ l.text = "true" -> Reply("int", "1")
        [] OTHER          -> Reply("nil", "")

Plain   == {Reply("int", "7"), Reply("bulk", "x"), Reply("status", "OK"), Reply("error", "ERR"), Reply("nil", "")}
Replies == Plain \cup {Multi(q) : q \in SeqOf(Plain, 2)} \cup {Multi(<<Multi(<<r>>), r>>) : r \in Plain}

----------------------------------------------------------------------------
\* No script writes after a random command; one that was killed, and did not catch the
\* error, has written nothing; its caller is not freed under it, if it had read all
\* its replies, nor read; after a script every client is; a reply passes through a
\* script unchanged.
ScriptRuns ==
  /\ ~sdeeds.mixed
  /\ sdeeds.killed /\ ~sdeeds.caught => ~sdeeds.wrote
  /\ \A c \in ScriptClients :
       /\ Running(c) => /\ sclients[c].connected \/ sdeeds.owed
                        /\ script.lua_timedout => ~sclients[c].readable
       /\ sclients[c].connected /\ ~sclients[c].readable => Running(c)
  /\ \A r \in Replies : LuaToRedis(RedisToLua(r)) = r
=============================================================================
