-------------------------------- MODULE Hll --------------------------------
(***************************************************************************)
(* HyperLogLog values (hyperloglog.c): registers that only grow, kept as   *)
(* run lengths until they no longer fit, and a cached estimate.  A hash is *)
(* a number of HashBits bits; the estimate, a function of how many         *)
(* registers hold each value, is that count.  Values that are no           *)
(* HyperLogLog, or a corrupted one, are refused before anything changes    *)
(* and are left out.                                                       *)
(***************************************************************************)
EXTENDS Integers, Sequences, FiniteSets, SequencesExt, FiniteSetsExt, TLC

CONSTANTS Registers, HashBits,
          ZeroMaxLen, XZeroMaxLen, \* HLL_SPARSE_ZERO_MAX_LEN, HLL_SPARSE_XZERO_MAX_LEN
          ValMaxLen, ValMaxValue,  \* HLL_SPARSE_VAL_MAX_LEN, HLL_SPARSE_VAL_MAX_VALUE
          SparseMaxBytes,          \* hll-sparse-max-bytes less the header
          Batches,                 \* the sequences of hashes PFADD is given
          OtherHashes              \* the hashes held by another key, in either encoding

VARIABLES hll,   \* the object, or NoHll
          hregs, \* history: the registers the commands mean
          hreply,\* history: whether every reply was right
          hsent  \* history: the object when its key was last signalled

hllvars == <<hll, hregs, hreply, hsent>>

NoHll == [encoding |-> "none"]
Index == 0 .. Registers - 1
Zeros == [i \in Index |-> 0]

RECURSIVE TrailingZeros(_, _)
TrailingZeros(h, n) == IF (h \div n) % 2 = 1 THEN 0 ELSE 1 + TrailingZeros(h, 2 * n)
RECURSIVE TwoTo(_)
TwoTo(n) == IF n = 0 THEN 1 ELSE 2 * TwoTo(n - 1)

\* hllPatLen: the low bits choose the register, the first bit set above them the
\* count; the highest bit is set so that there is one.
PatLen(hash) ==
  LET top == TwoTo(HashBits - 1)
      h   == IF hash >= top THEN hash ELSE hash + top
  IN  [index |-> hash % Registers, count |-> 1 + TrailingZeros(h, Registers)]

----------------------------------------------------------------------------
(* Sparse values: a sequence of run lengths.                               *)

Run(op, len, val) == [op |-> op, len |-> len, val |-> val]
ZeroRun(len) == Run(IF len > ZeroMaxLen THEN "xzero" ELSE "zero", len, 0)
Bytes(ops)   == FoldLeft(LAMBDA n, r : n + (IF r.op = "xzero" THEN 2 ELSE 1), 0, ops)
FirstOf(ops, i) == FoldLeft(LAMBDA n, r : n + r.len, 0, SubSeq(ops, 1, i - 1))
Span(ops)    == FirstOf(ops, Len(ops) + 1)

\* createHLLObject.
RECURSIVE AllZero(_)
AllZero(n) == IF n = 0 THEN <<>>
              ELSE LET len == IF n < XZeroMaxLen THEN n ELSE XZeroMaxLen
                   IN  <<Run("xzero", len, 0)>> \o AllZero(n - len)
NewHll == [encoding |-> "sparse", ops |-> AllZero(Registers), valid |-> FALSE, card |-> <<>>]

\* The run register i is in, and the registers of a value, read as hllMerge does.
RunOf(ops, i)    == CHOOSE j \in DOMAIN ops : FirstOf(ops, j) <= i /\ i < FirstOf(ops, j) + ops[j].len
RegistersOf(o) == IF o.encoding = "dense" THEN o.regs
                  ELSE [i \in Index |-> o.ops[RunOf(o.ops, i)].val]

\* hllSparseToDense: the header goes with the registers, the cached estimate too.
SparseToDense(o) ==
  IF o.encoding = "dense" THEN o
  ELSE [encoding |-> "dense", regs |-> RegistersOf(o), valid |-> o.valid, card |-> o.card]

\* hllDenseAdd.
DenseAdd(o, e) == IF e.count > o.regs[e.index] THEN [o EXCEPT !.regs[e.index] = e.count] ELSE o

\* The loop after "updated": adjacent runs of one value are joined, five steps from
\* the run before the changed one.
RECURSIVE MergeRuns(_, _, _)
MergeRuns(ops, p, scanlen) ==
  LET joins == /\ p < Len(ops) /\ ops[p].op = "val" /\ ops[p + 1].op = "val" /\ ops[p].val = ops[p + 1].val
               /\ ops[p].len + ops[p + 1].len <= ValMaxLen
  IN  CASE p > Len(ops) \/ scanlen = 0 -> ops
        [] p <= Len(ops) /\ scanlen > 0 /\ joins ->
             MergeRuns(SubSeq(ops, 1, p - 1) \o <<[ops[p] EXCEPT !.len = @ + ops[p + 1].len]>>
                         \o SubSeq(ops, p + 2, Len(ops)), p, scanlen - 1)
        [] OTHER -> MergeRuns(ops, p + 1, scanlen - 1)

\* The runs that take the place of run r, which starts at first, when its register
\* index gets count.
Split(r, first, e) ==
  LET before == e.index - first
      after  == first + r.len - 1 - e.index
      Rest(len) == IF len = 0 THEN <<>> ELSE <<IF r.op = "val" THEN Run("val", len, r.val) ELSE ZeroRun(len)>>
  IN  Rest(before) \o <<Run("val", 1, e.count)>> \o Rest(after)

\* hllSparseAdd.
SparseAdd(o, e) ==
  LET i   == RunOf(o.ops, e.index)
      r   == o.ops[i]
      seq == Split(r, FirstOf(o.ops, i), e)
      new == SubSeq(o.ops, 1, i - 1) \o seq \o SubSeq(o.ops, i + 1, Len(o.ops))
      promoted == DenseAdd(SparseToDense(o), e)
      single == r.len = 1 /\ r.op # "xzero"
  IN  CASE e.count > ValMaxValue -> promoted
        [] e.count <= ValMaxValue /\ r.op = "val" /\ r.val >= e.count -> o
        [] e.count <= ValMaxValue /\ r.val < e.count /\ ~single /\ Bytes(seq) > Bytes(<<r>>)
             /\ Bytes(new) > SparseMaxBytes -> promoted
        [] OTHER -> [o EXCEPT !.ops = MergeRuns(new, IF i > 1 THEN i - 1 ELSE 1, 5), !.valid = FALSE]

HllAdd(o, e) == IF o.encoding = "dense" THEN DenseAdd(o, e) ELSE SparseAdd(o, e)

----------------------------------------------------------------------------
(* Estimates.                                                              *)

\* hllDenseSum and hllRawSum, over registers; hllSparseSum, over runs.
DenseSum(regs) == [v \in 0 .. HashBits |-> Cardinality({i \in Index : regs[i] = v})]
SparseSum(ops) == [v \in 0 .. HashBits |-> FoldLeft(LAMBDA n, r : n + (IF r.val = v THEN r.len ELSE 0), 0, ops)]
HllCount(o)    == IF o.encoding = "dense" THEN DenseSum(o.regs) ELSE SparseSum(o.ops)

MergeMax(a, b) == [i \in Index |-> IF a[i] > b[i] THEN a[i] ELSE b[i]]
Meant(hashes, regs) ==
  FoldLeft(LAMBDA r, h : LET e == PatLen(h) IN MergeMax(r, [Zeros EXCEPT ![e.index] = e.count]), regs, hashes)

\* The other key: what PFADD of OtherHashes made of it.
OtherSparse == FoldLeft(LAMBDA o, h : HllAdd(o, PatLen(h)), NewHll, OtherHashes)
Others == {NoHll, OtherSparse, SparseToDense(OtherSparse)}

\* hllMerge of the keys named, a missing one skipped.
Merged(os) == FoldLeft(LAMBDA max, o : IF o = NoHll THEN max ELSE MergeMax(max, RegistersOf(o)), Zeros, os)

----------------------------------------------------------------------------
(* Commands.                                                               *)

Signalled(o) == hll' = o /\ hsent' = o

\* PFADD: the cache is invalidated if any element changed a register.
PFADD(hashes) ==
  LET old == IF hll = NoHll THEN NewHll ELSE hll
      new == FoldLeft(LAMBDA o, h : HllAdd(o, PatLen(h)), old, hashes)
  IN  /\ IF hll = NoHll \/ RegistersOf(new) # RegistersOf(old)
         THEN Signalled([new EXCEPT !.valid = FALSE]) ELSE UNCHANGED <<hll, hsent>>
      /\ hregs' = Meant(hashes, hregs)
      /\ UNCHANGED hreply

\* PFCOUNT of the key: the estimate is cached in the value, which is signalled.
Answer(regs, card) == hreply' = (hreply /\ card = DenseSum(regs))
PFCOUNT ==
  IF hll = NoHll THEN UNCHANGED hllvars
  ELSE LET card == IF hll.valid THEN hll.card ELSE HllCount(hll)
       IN  /\ IF hll.valid THEN UNCHANGED <<hll, hsent>>
              ELSE Signalled([hll EXCEPT !.valid = TRUE, !.card = card])
           /\ Answer(hregs, card) /\ UNCHANGED hregs

\* PFCOUNT of two keys works on a copy.
PFCOUNTAll == /\ \E o \in Others : Answer(MergeMax(hregs, Merged(<<o>>)), DenseSum(Merged(<<hll, o>>)))
              /\ UNCHANGED <<hll, hregs, hsent>>

\* PFMERGE makes the value dense.
PFMERGE(o) ==
  LET old == SparseToDense(IF hll = NoHll THEN NewHll ELSE hll)
      max == Merged(<<hll, o>>)
  IN  /\ Signalled([old EXCEPT !.regs = max, !.valid = FALSE])
      /\ hregs' = MergeMax(hregs, Merged(<<o>>))
      /\ UNCHANGED hreply

HllDEL == hll # NoHll /\ hll' = NoHll /\ hsent' = NoHll /\ hregs' = Zeros /\ UNCHANGED hreply

HllInit == hll = NoHll /\ hsent = NoHll /\ hregs = Zeros /\ hreply = TRUE
HllNext == \/ \E b \in Batches : PFADD(b)
           \/ PFCOUNT \/ PFCOUNTAll \/ HllDEL
           \/ \E o \in Others : PFMERGE(o)

----------------------------------------------------------------------------
\* In either encoding the registers are those of all that was added, the runs cover
\* each of them once and keep their limits, a cached estimate is that of the
\* registers it stands beside, WATCH was told of every change, and each PFCOUNT
\* answered right.
HllRepresents ==
  /\ hreply /\ hsent = hll
  /\ (hll = NoHll) => hregs = Zeros
  /\ (hll # NoHll) => /\ RegistersOf(hll) = hregs
                      /\ hll.valid => hll.card = DenseSum(hregs)
  /\ (hll.encoding = "sparse") =>
       /\ Span(hll.ops) = Registers
       /\ Bytes(hll.ops) <= SparseMaxBytes \/ \A i \in Index : hregs[i] = 0
       /\ \A i \in DOMAIN hll.ops : LET r == hll.ops[i]
                                    IN  CASE r.op = "zero"  -> r.len \in 1 .. ZeroMaxLen
                                          [] r.op = "xzero" -> r.len \in 1 .. XZeroMaxLen
                                          [] r.op = "val"   -> r.len \in 1 .. ValMaxLen /\ r.val \in 1 .. ValMaxValue
=============================================================================
