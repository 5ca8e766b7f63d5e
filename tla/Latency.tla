------------------------------ MODULE Latency ------------------------------
(***************************************************************************)
(* The latency monitor (latency.c): per event a ring with the worst        *)
(* latency of each of the last seconds in which there was one. One event   *)
(* is modelled; the events share nothing.                                  *)
(***************************************************************************)
EXTENDS Integers, Sequences, FiniteSets, FiniteSetsExt, SequencesExt

CONSTANTS TsLen,          \* LATENCY_TS_LEN
          Latencies,
          MaxSeconds,     \* bound: the clock, which starts at 1
          MaxSpikes       \* bound: spikes since a reset

VARIABLES ts,        \* the event's [idx, max, samples], or NoSeries
          second,    \* time(NULL)
          spikes     \* history: <<[time, latency], ...>> since the last reset

latencyvars == <<ts, second, spikes>>

NoSeries == [idx |-> 0, max |-> 0, samples |-> <<>>]
Sample(t, l) == [time |-> t, latency |-> l]
NewSeries == [NoSeries EXCEPT !.samples = <<>> \o [i \in 1 .. TsLen |-> Sample(0, 0)]]

\* Indices are those of the code plus one.
Prev(s) == ((s.idx + TsLen - 1) % TsLen) + 1

\* latencyAddSample: a second that has a sample already keeps the larger one, and the
\* maximum is compared only with the first of a second.
AddSample(l) ==
  LET s == IF ts = NoSeries THEN NewSeries ELSE ts
  IN /\ spikes' = Append(spikes, Sample(second, l))
     /\ IF s.samples[Prev(s)].time = second
        THEN ts' = [s EXCEPT !.samples[Prev(s)].latency = IF l > @ THEN l ELSE @]
        ELSE ts' = [idx |-> (s.idx + 1) % TsLen,
                    max |-> IF l > s.max THEN l ELSE s.max,
                    samples |-> [s.samples EXCEPT ![s.idx + 1] = Sample(second, l)]]
     /\ UNCHANGED second

\* LATENCY RESET.
ResetEvent == /\ ts' = NoSeries /\ spikes' = <<>>
              /\ UNCHANGED second

NextSecond == /\ second < MaxSeconds
              /\ second' = second + 1
              /\ UNCHANGED <<ts, spikes>>

LatencyInit == ts = NoSeries /\ second = 1 /\ spikes = <<>>
LatencyNext == \/ Len(spikes) < MaxSpikes /\ \E l \in Latencies : AddSample(l)
               \/ ResetEvent \/ NextSecond

----------------------------------------------------------------------------
(* analyzeLatencyForEvent, and LATENCY HISTORY, which starts at idx.       *)

Used == SelectSeq(ts.samples, LAMBDA s : s.time # 0)
History == SelectSeq(SubSeq(ts.samples, ts.idx + 1, Len(ts.samples)) \o SubSeq(ts.samples, 1, ts.idx),
                     LAMBDA s : s.time # 0)

\* The averages are of integers, rounded down.
Analyze ==
  LET n == Len(Used)
      avg == FoldLeft(LAMBDA sum, s : sum + s.latency, 0, Used) \div n
      gap(s) == IF avg < s.latency THEN s.latency - avg ELSE avg - s.latency
      begin == FoldLeft(LAMBDA p, s : IF p = 0 \/ s.time < p THEN s.time ELSE p, 0, Used)
  IN IF n = 0 THEN [samples |-> 0, min |-> 0, max |-> 0, avg |-> 0, mad |-> 0, period |-> 0, high |-> ts.max]
     ELSE [samples |-> n,
           min |-> FoldLeft(LAMBDA x, s : IF s.latency < x THEN s.latency ELSE x, Used[1].latency, Used),
           max |-> FoldLeft(LAMBDA x, s : IF s.latency > x THEN s.latency ELSE x, Used[1].latency, Used),
           avg |-> avg,
           mad |-> FoldLeft(LAMBDA sum, s : sum + gap(s), 0, Used) \div n,
           period |-> IF second = begin THEN 1 ELSE second - begin,
           high |-> ts.max]

\* The worst spike of each of the last seconds that had any, the latest TsLen of them.
Seconds == {spikes[i].time : i \in DOMAIN spikes}
WorstOf(t) == Max({spikes[i].latency : i \in {j \in DOMAIN spikes : spikes[j].time = t}})
Recent == {t \in Seconds : Cardinality({u \in Seconds : u > t}) < TsLen}

\* The history is the worst spike of each of the last seconds that had any, in order;
\* the analysis is of these spikes; the all-time high is at least the first spike of
\* every second since the reset, whatever the ring has forgotten.
LatencySound ==
  /\ [i \in DOMAIN History |-> History[i].time] = SetToSortSeq(Recent, <)
  /\ \A i \in DOMAIN History : History[i].latency = WorstOf(History[i].time)
  /\ Recent # {} =>
       /\ Analyze.samples = Cardinality(Recent)
       /\ Analyze.min = Min({WorstOf(t) : t \in Recent})
       /\ Analyze.max = Max({WorstOf(t) : t \in Recent})
       /\ Analyze.avg \in Analyze.min .. Analyze.max
       /\ Analyze.mad <= Analyze.max - Analyze.min
       /\ Analyze.period = (IF second = Min(Recent) THEN 1 ELSE second - Min(Recent))
       /\ \A i \in DOMAIN spikes :
            (\A j \in 1 .. i - 1 : spikes[j].time # spikes[i].time) => spikes[i].latency <= Analyze.high
=============================================================================
