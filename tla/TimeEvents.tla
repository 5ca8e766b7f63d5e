---------------------------- MODULE TimeEvents -----------------------------
(***************************************************************************)
(* The time events of the event loop (ae.c): a list that is searched from  *)
(* its head again after every call, while calls take their time, create    *)
(* and delete events, and the clock moves, or is set, at any moment.       *)
(*                                                                         *)
(* Times are in ticks, PerSec of them to a second, so that seconds and     *)
(* milliseconds are told apart where the code does: processTimeEvents      *)
(* notices only by the seconds that the clock was set back.                *)
(***************************************************************************)
EXTENDS Integers, Sequences, SequencesExt

CONSTANTS PerSec,      \* ticks in a second
          MaxTimers,   \* bound: time events created
          Periods,     \* what a call returns, unless AE_NOMORE
          MaxTime,     \* bound: the clock
          MaxRan       \* bound: how far the clock goes forward in a round

VARIABLES timers,  \* the list of time events [id, when], the newest first
          wall,    \* the clock
          loop,    \* [lastTime, nextId, maxId, te, at, asleep, timeout]: see TimeInit
          round    \* history: [due, calls, back, ran]: the events due when the round began,
                   \* the calls of each, whether the clock was set back and how far it
                   \* went forward since

timevars == <<timers, wall, loop, round>>

Sec(t) == t \div PerSec
Ms(t)  == t % PerSec
Least(S)    == CHOOSE x \in S : \A y \in S : x <= y
Greatest(S) == CHOOSE x \in S : \A y \in S : y <= x

\* aeAddMillisecondsToNow.
After(period) == wall + period
Ids == {timers[i].id : i \in DOMAIN timers}

\* aeCreateTimeEvent, at the head; aeDeleteTimeEvent.
Created(list, period) == <<[id |-> loop.nextId, when |-> After(period)]>> \o list
Deleted(list, id) == SelectSeq(list, LAMBDA t : t.id # id)

\* aeSearchNearestTimer: the first of the earliest.
Nearest == timers[CHOOSE i \in DOMAIN timers :
  \A j \in DOMAIN timers : timers[i].when <= timers[j].when /\ (j < i => timers[i].when < timers[j].when)]

\* The timeout of aeProcessEvents, -1 for none: the seconds to go are not allowed to be
\* negative, but the milliseconds stand as they are.
Timeout ==
  IF timers = <<>> THEN -1
  ELSE LET ms  == (Ms(Nearest.when) - Ms(wall)) % PerSec
           sec == Sec(Nearest.when) - Sec(wall) - (IF Ms(Nearest.when) < Ms(wall) THEN 1 ELSE 0)
       IN  Greatest({sec, 0}) * PerSec + ms

\* aeProcessEvents sleeps in the poller.
Poll == /\ loop.at = "idle"
        /\ loop' = [loop EXCEPT !.at = "poll", !.asleep = wall, !.timeout = Timeout]
        /\ UNCHANGED <<timers, wall, round>>

\* The clock goes on, or is set. In a round it is the calls that take time.
Clock == /\ \E t \in 0 .. MaxTime :
              /\ wall' = t
              /\ IF loop.at \in {"time", "call"}
                 THEN /\ round' = [round EXCEPT !.back = @ \/ t < wall,
                                                !.ran = IF t > wall THEN @ + t - wall ELSE @]
                      /\ round'.ran <= MaxRan
                 ELSE UNCHANGED round
         /\ UNCHANGED <<timers, loop>>

Due(t) == wall >= t.when

\* processTimeEvents: when the clock went back by its seconds, all time events are
\* given a time long ago.
TimeStart ==
  /\ loop.at = "poll"
  /\ timers' = IF Sec(wall) < loop.lastTime
               THEN <<>> \o [i \in DOMAIN timers |-> [timers[i] EXCEPT !.when = Ms(@)]] ELSE timers
  /\ loop' = [loop EXCEPT !.at = "time", !.lastTime = Sec(wall), !.maxId = loop.nextId - 1, !.te = 1,
                          !.asleep = 0, !.timeout = 0]
  /\ round' = [due |-> {timers'[i].id : i \in {k \in DOMAIN timers : Due(timers'[k])}},
               calls |-> [id \in 0 .. MaxTimers - 1 |-> 0], back |-> FALSE, ran |-> 0]
  /\ UNCHANGED wall

\* The event that the search has come to.
Te == timers[loop.te]
AtTe == loop.at = "time" /\ loop.te <= Len(timers)

\* One that was created in this round, or is not due now.
TimeSkip == /\ AtTe /\ (Te.id > loop.maxId \/ ~Due(Te))
            /\ loop' = [loop EXCEPT !.te = @ + 1]
            /\ UNCHANGED <<timers, wall, round>>

TimeCall == /\ AtTe /\ Te.id <= loop.maxId /\ Due(Te)
            /\ loop' = [loop EXCEPT !.at = "call", !.te = Te.id]
            /\ round' = [round EXCEPT !.calls[Te.id] = @ + 1]
            /\ UNCHANGED <<timers, wall>>

\* In the call: loop.te is the id of its event. It may create events and delete others.
TimeProc ==
  /\ loop.at = "call"
  /\ \/ /\ loop.nextId < MaxTimers
        /\ \E p \in Periods \cup {0} : timers' = Created(timers, p)
        /\ loop' = [loop EXCEPT !.nextId = @ + 1]
     \/ /\ \E id \in Ids \ {loop.te} : timers' = Deleted(timers, id)
        /\ UNCHANGED loop
  /\ UNCHANGED <<wall, round>>

\* The call returns: its event gets its next time or is deleted, and the list is
\* searched from its head.
TimeReturn ==
  /\ loop.at = "call"
  /\ \/ timers' = Deleted(timers, loop.te)
     \/ \E p \in Periods :
          timers' = [k \in DOMAIN timers |-> IF timers[k].id = loop.te
                                              THEN [timers[k] EXCEPT !.when = After(p)] ELSE timers[k]]
  /\ loop' = [loop EXCEPT !.at = "time", !.te = 1]
  /\ UNCHANGED <<wall, round>>

TimeDone == /\ loop.at = "time" /\ loop.te > Len(timers)
            /\ loop' = [loop EXCEPT !.at = "idle", !.maxId = 0, !.te = 0]
            /\ round' = [due |-> {}, calls |-> [id \in 0 .. MaxTimers - 1 |-> 0], back |-> FALSE, ran |-> 0]
            /\ UNCHANGED <<timers, wall>>

\* at: where the loop is; te: the place in the list; maxId: of the events of this round;
\* asleep, timeout: when the poller was called, and how long it may sleep.
TimeInit == /\ timers = <<[id |-> 0, when |-> PerSec]>> /\ wall = PerSec
            /\ loop = [lastTime |-> 1, nextId |-> 1, maxId |-> 0, te |-> 0, at |-> "idle", asleep |-> 0,
                       timeout |-> 0]
            /\ round = [due |-> {}, calls |-> [id \in 0 .. MaxTimers - 1 |-> 0], back |-> FALSE, ran |-> 0]
TimeNext == Poll \/ Clock \/ TimeStart \/ TimeSkip \/ TimeCall \/ TimeProc \/ TimeReturn \/ TimeDone

----------------------------------------------------------------------------
\* A round calls no event that was created during it, and another a second time only
\* for the time that the calls took; when it ends, every event that was due when it
\* began, and was not deleted, has been called, unless the clock was set back
\* meanwhile. However the clock is set between the rounds, no event is later than its
\* period, the time that a round takes, and less than a second. The loop sleeps until
\* the nearest event is due, or, when that is late already, less than a second more.
TimersSound ==
  /\ \A id \in DOMAIN round.calls :
       round.calls[id] > 0 => /\ id <= loop.maxId
                              /\ (round.calls[id] - 1) * Least(Periods) <= round.ran
  /\ loop.at = "time" /\ loop.te > Len(timers) /\ ~round.back =>
       \A id \in Ids \cap round.due : round.calls[id] > 0
  /\ \A i \in DOMAIN timers :
       timers[i].when <= loop.lastTime * PerSec + (PerSec - 1) + MaxRan + Greatest(Periods)
  /\ loop.at = "poll" =>
       IF timers = <<>> THEN loop.timeout = -1
       ELSE /\ loop.timeout >= Greatest({Nearest.when - loop.asleep, 0})
            /\ loop.timeout <= Greatest({Nearest.when - loop.asleep, PerSec - 1})
=============================================================================
