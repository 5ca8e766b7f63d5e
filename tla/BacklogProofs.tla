--------------------------- MODULE BacklogProofs ---------------------------
(***************************************************************************)
(* The properties of module Backlog, for every size of the buffer, every   *)
(* length of a write and any number of slaves.                             *)
(*                                                                         *)
(* The invariant that is inductive adds to RingHoldsHistory and            *)
(* StreamContiguous what relates the offsets of the master, of the buffer  *)
(* and of the slaves, attached or not, to the stream.                      *)
(***************************************************************************)
EXTENDS Backlog, SequenceTheorems, TLAPS

\* The buffer's offset and history, at every iteration of the copy.
OffsetsExact ==
  /\ feeding => exists
  /\ ~feeding => pending = 0
  /\ pending <= stream
  /\ online # {} => exists
  /\ exists => /\ off = mro - pending - histlen + 1
               /\ histlen <= stream - pending

\* The cached position of a slave, if PSYNC would accept it, misses exactly
\* the bytes that the offsets count.  That of an attached slave always does.
PositionsExact ==
  \A s \in Slaves :
    /\ got[s] <= stream /\ reploff[s] <= mro
    /\ s \notin online => buf[s] = <<>>
    /\ s \in online => reploff[s] # NoOffset /\ stream - got[s] = mro - reploff[s]
    /\ reploff[s] # NoOffset /\ exists /\ reploff[s] + 1 >= off
         => stream - got[s] = mro - reploff[s]

\* While a write is copied the slaves have not been given it.
GivenOnlyCopied ==
  \A s \in online : got[s] + Len(buf[s]) <= stream

IndInv ==
  /\ TypeOK /\ RingHoldsHistory /\ StreamContiguous
  /\ OffsetsExact /\ PositionsExact /\ GivenOnlyCopied

----------------------------------------------------------------------------
\* The remainder, as addReplyReplicationBacklog uses it.
LEMMA ModSmall ==
  ASSUME NEW x \in Nat, NEW n \in Nat \ {0}, x < 2 * n
  PROVE  x % n = IF x < n THEN x ELSE x - n
OBVIOUS

\* The reply to an accepted PSYNC, copied in two parts across the end of the
\* buffer, is the end of the stream, from the requested offset on.
LEMMA ReplyExact ==
  ASSUME TypeOK, RingHoldsHistory, OffsetsExact, ~feeding,
         NEW o \in Nat, PsyncAccepted(o)
  PROVE  /\ Reply(o) \in Seq(Nat)
         /\ Len(Reply(o)) = mro - o + 1
         /\ \A i \in 1 .. mro - o + 1 : Reply(o)[i] = stream - (mro - o + 1) + i
<1> DEFINE skip == o - off
           oldest == (idx + (size - histlen)) % size
           j == (oldest + skip) % size
           len == histlen - skip
<1>1. /\ exists /\ o >= off /\ o <= off + histlen
      /\ histlen <= size /\ histlen <= stream /\ off = mro - histlen + 1
      /\ pending = 0 /\ idx \in Nat /\ idx < size /\ size \in Nat \ {0} /\ histlen \in Nat
      /\ stream \in Nat /\ mro \in Nat /\ off \in Nat /\ ring \in [0 .. size - 1 -> Nat]
  BY DEF TypeOK, RingHoldsHistory, OffsetsExact, PsyncAccepted
<1>2. /\ skip \in 0 .. histlen /\ len \in Nat /\ len = mro - o + 1 /\ len <= size
  BY <1>1
<1>3. /\ oldest \in 0 .. size - 1
      /\ oldest = IF idx - histlen < 0 THEN idx - histlen + size ELSE idx - histlen
  <2> DEFINE x == idx + (size - histlen)
  <2>1. x \in Nat /\ x < 2 * size
    BY <1>1
  <2>2. x % size = IF x < size THEN x ELSE x - size
    <3> HIDE DEF x
    <3> QED BY <1>1, <2>1, ModSmall, Zenon
  <2>3. oldest = x % size
    OBVIOUS
  <2> HIDE DEF oldest
  <2> QED BY <1>1, <2>1, <2>2, <2>3
<1>4. /\ j \in 0 .. size - 1
      /\ j = IF oldest + skip < size THEN oldest + skip ELSE oldest + skip - size
  <2> DEFINE x == oldest + skip
  <2>1. x \in Nat /\ x < 2 * size
    <3> HIDE DEF oldest, skip
    <3> QED BY <1>1, <1>2, <1>3
  <2>2. x % size = IF x < size THEN x ELSE x - size
    <3> HIDE DEF x
    <3> QED BY <1>1, <2>1, ModSmall, Zenon
  <2>3. j = x % size
    OBVIOUS
  <2>4. x = oldest + skip
    OBVIOUS
  <2> HIDE DEF x, j
  <2>5. j \in 0 .. size - 1 /\ j = IF x < size THEN x ELSE x - size
    BY <1>1, <2>1, <2>2, <2>3
  <2> HIDE DEF oldest, skip
  <2> QED BY <1>1, <1>2, <1>3, <2>1, <2>4, <2>5
<1> DEFINE byte(i) == IF i <= size - j THEN ring[j + i - 1] ELSE ring[i - 1 - (size - j)]
<1>5. Reply(o) = [i \in 1 .. len |-> byte(i)]
  BY DEF Reply
<1>6. ASSUME NEW i \in 1 .. len
      PROVE  byte(i) \in Nat /\ byte(i) = stream - len + i
  <2>1. len - i \in 0 .. Smaller(histlen, size) - 1
    BY <1>1, <1>2, <1>6 DEF Smaller
  <2>2. ring[Slot(len - i)] = stream - (len - i)
    BY <1>1, <2>1 DEF RingHoldsHistory, LastCopied
  <2>3. Slot(len - i) = IF i <= size - j THEN j + i - 1 ELSE i - 1 - (size - j)
    <3>1. len = histlen - skip /\ skip \in Int /\ len \in Int
      BY <1>1, <1>2
    <3> HIDE DEF j, oldest, skip, len
    <3>2. CASE idx - histlen < 0
      BY <1>1, <1>2, <1>3, <1>4, <1>6, <3>1, <3>2 DEF Slot
    <3>3. CASE idx - histlen >= 0
      BY <1>1, <1>2, <1>3, <1>4, <1>6, <3>1, <3>3 DEF Slot
    <3> QED BY <1>1, <3>2, <3>3
  <2>4. byte(i) = ring[Slot(len - i)]
    BY <2>3
  <2>5. stream - (len - i) \in Nat /\ stream - (len - i) = stream - len + i
    BY <1>1, <1>2, <1>6
  <2> HIDE DEF byte, len
  <2> QED BY <2>2, <2>4, <2>5
<1> HIDE DEF byte, len, skip
<1>7. Reply(o) \in Seq(Nat) /\ Len(Reply(o)) = len
  BY <1>2, <1>5, <1>6
<1> QED BY <1>2, <1>5, <1>6, <1>7

\* A sequence of consecutive bytes, and the bytes after it up to m.
Consecutive(q, g) == \A i \in 1 .. Len(q) : q[i] = g + i

Extend(q, g, m) ==
  LET last == g + Len(q) IN q \o [i \in 1 .. m - last |-> last + i]

LEMMA Extended ==
  ASSUME NEW q \in Seq(Nat), NEW g \in Nat, NEW m \in Nat,
         g + Len(q) <= m, Consecutive(q, g)
  PROVE  /\ Extend(q, g, m) \in Seq(Nat) /\ g + Len(Extend(q, g, m)) = m
         /\ Consecutive(Extend(q, g, m), g)
<1> DEFINE last == g + Len(q)
           n == m - last
           new == [i \in 1 .. n |-> last + i]
           r == Extend(q, g, m)
<1>1. n \in Nat /\ last \in Nat
  OBVIOUS
<1>2. new \in Seq(Nat) /\ Len(new) = n /\ \A i \in 1 .. n : new[i] = last + i
  <2> HIDE DEF n, last
  <2> QED BY <1>1
<1>3. r = q \o new
  BY DEF Extend
<1> HIDE DEF new, r
<1>4. /\ r \in Seq(Nat) /\ Len(r) = Len(q) + n
      /\ \A i \in 1 .. Len(q) + n : r[i] = IF i <= Len(q) THEN q[i] ELSE new[i - Len(q)]
  <2> HIDE DEF n
  <2>1. q \in Seq(Nat) /\ new \in Seq(Nat) /\ Len(new) = n
    BY <1>2
  <2>2. q \o new \in Seq(Nat) /\ Len(q \o new) = Len(q) + Len(new)
    BY <2>1, ConcatProperties, Zenon
  <2>3. \A i \in 1 .. Len(q) + Len(new) :
             (q \o new)[i] = IF i <= Len(q) THEN q[i] ELSE new[i - Len(q)]
    BY <2>1, ConcatProperties, Zenon
  <2> QED BY <1>3, <2>1, <2>2, <2>3, Zenon
<1>5. Len(q) \in Nat
  OBVIOUS
<1>6. ASSUME NEW i \in 1 .. Len(r)
      PROVE  r[i] = g + i
  <2>1. CASE i <= Len(q)
    BY <1>4, <1>5, <2>1 DEF Consecutive
  <2>2. CASE i > Len(q)
    <3>1. i - Len(q) \in 1 .. n
      BY <1>1, <1>4, <1>5, <2>2
    <3>2. r[i] = new[i - Len(q)]
      <4> HIDE DEF n
      <4> QED BY <1>1, <1>4, <1>5, <2>2
    <3>3. new[i - Len(q)] = last + (i - Len(q))
      BY <1>2, <3>1
    <3> QED BY <1>5, <3>2, <3>3
  <2> QED BY <1>1, <1>4, <1>5, <2>1, <2>2
<1>7. r \in Seq(Nat) /\ g + Len(r) = m /\ Consecutive(r, g)
  BY <1>1, <1>4, <1>5, <1>6 DEF Consecutive
<1> QED BY <1>7 DEF r

----------------------------------------------------------------------------
\* The initial states satisfy the invariant.
LEMMA InitInv == Init => IndInv
<1> SUFFICES ASSUME Init PROVE IndInv
  OBVIOUS
<1> USE ConstantsAssumption
<1>1. size \in Nat \ {0} /\ ring \in [0 .. size - 1 -> Nat]
  BY DEF Init, Larger, Blank
<1>2. TypeOK
  <2>1. buf \in [Slaves -> Seq(Nat)] /\ got \in [Slaves -> Nat]
    BY DEF Init
  <2>2. reploff \in [Slaves -> Nat \cup {NoOffset}]
    BY DEF Init
  <2> QED BY <1>1, <2>1, <2>2 DEF Init, TypeOK
<1>3. RingHoldsHistory /\ StreamContiguous /\ OffsetsExact /\ GivenOnlyCopied
  BY DEF Init, RingHoldsHistory, StreamContiguous, OffsetsExact, GivenOnlyCopied
<1>4. PositionsExact
  <2> SUFFICES ASSUME NEW s \in Slaves
               PROVE  got[s] <= stream /\ reploff[s] <= mro /\ buf[s] = <<>>
    BY DEF PositionsExact, Init
  <2>1. got[s] = 0 /\ stream = 0 /\ mro = 0 /\ reploff[s] = -2
    BY DEF Init, NoOffset
  <2>2. buf[s] = <<>>
    BY DEF Init
  <2> QED BY <2>1, <2>2
<1> QED BY <1>2, <1>3, <1>4 DEF IndInv

\* A write that is not counted: there is no backlog, and no slave is attached.
LEMMA WriteUncountedInv ==
  ASSUME IndInv, NEW len \in Lengths, WriteUncounted(len)
  PROVE  IndInv'
<1> USE ConstantsAssumption DEF IndInv, WriteUncounted, bufferVars, feedVars, slaveVars
<1>1. len \in Nat
  OBVIOUS
<1>2. TypeOK'
  BY <1>1 DEF TypeOK
<1>3. RingHoldsHistory'
  BY DEF RingHoldsHistory
<1>4. StreamContiguous' /\ GivenOnlyCopied'
  BY DEF StreamContiguous, GivenOnlyCopied
<1>5. OffsetsExact' /\ PositionsExact'
  BY <1>1 DEF OffsetsExact, PositionsExact, TypeOK
<1> QED BY <1>2, <1>3, <1>4, <1>5

\* feedReplicationBacklog is entered: the stream and the offset advance together.
LEMMA WriteInv ==
  ASSUME IndInv, NEW len \in Lengths, Write(len)
  PROVE  IndInv'
<1> USE ConstantsAssumption DEF IndInv, Write, bufferVars, slaveVars
<1>1. len \in Nat
  OBVIOUS
<1>2. TypeOK'
  BY <1>1 DEF TypeOK
<1>3. RingHoldsHistory'
  BY <1>1 DEF RingHoldsHistory, OffsetsExact, LastCopied, Slot, TypeOK
<1>4. StreamContiguous' /\ GivenOnlyCopied'
  BY <1>1 DEF StreamContiguous, GivenOnlyCopied, TypeOK
<1>5. OffsetsExact'
  BY <1>1 DEF OffsetsExact, TypeOK
<1>6. PositionsExact'
  <2> SUFFICES ASSUME NEW s \in Slaves
               PROVE  /\ got[s] <= stream' /\ reploff[s] <= mro'
                      /\ s \notin online => buf[s] = <<>>
                      /\ s \in online => reploff[s] # NoOffset /\ stream' - got[s] = mro' - reploff[s]
                      /\ reploff[s] # NoOffset /\ reploff[s] + 1 >= off
                           => stream' - got[s] = mro' - reploff[s]
    BY DEF PositionsExact
  <2>1. got[s] \in Int /\ reploff[s] \in Int /\ stream \in Int /\ mro \in Int /\ off \in Int
    BY DEF TypeOK, NoOffset
  <2>2. s \notin online => buf[s] = <<>>
    BY DEF PositionsExact
  <2> QED BY <1>1, <2>1, <2>2 DEF PositionsExact
<1> QED BY <1>2, <1>3, <1>4, <1>5, <1>6

\* One iteration: the bytes overwritten are older than the buffer is long.
LEMMA FeedChunkInv ==
  ASSUME IndInv, FeedChunk
  PROVE  IndInv'
<1> USE DEF IndInv, FeedChunk, slaveVars
<1>1. /\ exists /\ size \in Nat \ {0} /\ idx \in Nat /\ idx < size
      /\ pending \in Nat \ {0} /\ pending <= stream /\ stream \in Nat /\ mro \in Nat
      /\ histlen \in Nat /\ off \in Nat /\ histlen <= stream - pending
      /\ ring \in [0 .. size - 1 -> Nat]
  BY DEF TypeOK, OffsetsExact
<1>2. ThisLen \in Nat \ {0} /\ ThisLen <= size - idx /\ ThisLen <= pending
  BY <1>1 DEF ThisLen, Smaller
<1>3. /\ idx' \in Nat /\ idx' < size /\ pending' \in Nat /\ histlen' \in Nat
      /\ pending' = pending - ThisLen /\ histlen' = histlen + ThisLen
      /\ idx' = IF idx + ThisLen = size THEN 0 ELSE idx + ThisLen
  BY <1>1, <1>2 DEF Rewind
<1>4. ring' \in [0 .. size - 1 -> Nat]
  BY <1>1, <1>2
<1>5. TypeOK'
  BY <1>3, <1>4 DEF TypeOK
<1>6. \A k \in 0 .. Smaller(histlen', size') - 1 : ring'[Slot(k)'] = LastCopied' - k
  <2> SUFFICES ASSUME NEW k \in 0 .. Smaller(histlen', size') - 1
               PROVE  ring'[Slot(k)'] = LastCopied' - k
    OBVIOUS
  <2>1. k \in Nat /\ k < histlen + ThisLen /\ k < size
    BY <1>1, <1>2, <1>3 DEF Smaller
  <2>2. LastCopied' = stream - pending + ThisLen
    BY <1>1, <1>2, <1>3 DEF LastCopied
  <2>3. Slot(k)' = IF idx + ThisLen - 1 - k >= 0 THEN idx + ThisLen - 1 - k
                   ELSE idx + ThisLen - 1 - k + size
    <3>1. size' = size /\ ThisLen \in Nat
      BY <1>2
    <3> HIDE DEF IndInv, FeedChunk
    <3>2. CASE idx + ThisLen = size
      BY <1>1, <1>3, <2>1, <3>1, <3>2 DEF Slot
    <3>3. CASE idx + ThisLen # size
      BY <1>1, <1>3, <2>1, <3>1, <3>3 DEF Slot
    <3> QED BY <3>2, <3>3
  <2>4. CASE k < ThisLen
    <3>1. Slot(k)' = idx + ThisLen - 1 - k /\ Slot(k)' \in idx .. idx + ThisLen - 1
          /\ Slot(k)' \in 0 .. size - 1
      BY <1>1, <1>2, <2>1, <2>3, <2>4
    <3>2. ring'[Slot(k)'] = stream - pending + 1 + (Slot(k)' - idx)
      BY <3>1
    <3> QED BY <1>1, <1>2, <2>1, <2>2, <3>1, <3>2
  <2>5. CASE k >= ThisLen
    <3>1. k - ThisLen \in 0 .. Smaller(histlen, size) - 1
      BY <1>1, <1>2, <2>1, <2>5 DEF Smaller
    <3>2. ring[Slot(k - ThisLen)] = stream - pending - (k - ThisLen)
      BY <1>1, <3>1 DEF RingHoldsHistory, LastCopied
    <3>3. Slot(k)' = Slot(k - ThisLen)
      BY <1>1, <1>2, <2>1, <2>3 DEF Slot
    <3>4. Slot(k)' \in 0 .. size - 1 /\ Slot(k)' \notin idx .. idx + ThisLen - 1
      BY <1>1, <1>2, <2>1, <2>3, <2>5
    <3>5. ring'[Slot(k)'] = ring[Slot(k - ThisLen)]
      BY <3>3, <3>4
    <3> QED BY <1>1, <1>2, <2>1, <2>2, <3>2, <3>5
  <2> QED BY <1>1, <1>2, <2>1, <2>4, <2>5
<1>7. RingHoldsHistory'
  BY <1>6 DEF RingHoldsHistory
<1>8. StreamContiguous' /\ GivenOnlyCopied' /\ PositionsExact'
  BY DEF StreamContiguous, GivenOnlyCopied, PositionsExact
<1>9. OffsetsExact'
  BY <1>1, <1>2, <1>3 DEF OffsetsExact
<1> QED BY <1>5, <1>7, <1>8, <1>9

\* The end of feedReplicationBacklog: the buffer's offset only grows, and an
\* attached slave is given exactly the bytes of the write.
LEMMA FeedEndInv ==
  ASSUME IndInv, FeedEnd
  PROVE  IndInv'
<1> USE DEF IndInv, FeedEnd
<1>1. /\ exists /\ pending = 0 /\ size \in Nat \ {0} /\ histlen \in Nat /\ off \in Nat
      /\ mro \in Nat /\ stream \in Nat /\ off = mro - histlen + 1 /\ histlen <= stream
  BY DEF TypeOK, OffsetsExact
<1>2. /\ HistlenCut \in Nat /\ HistlenCut <= histlen /\ HistlenCut <= size
      /\ HistlenCut = Smaller(histlen, size)
  BY <1>1 DEF HistlenCut, Smaller
<1>3. off' \in Nat /\ off' >= off /\ off' = mro - histlen' + 1 /\ histlen' = HistlenCut
  BY <1>1, <1>2
<1>4. ASSUME NEW s \in online
      PROVE  /\ buf'[s] \in Seq(Nat) /\ got[s] + Len(buf'[s]) = stream
             /\ Consecutive(buf'[s], got[s])
  <2>1. /\ s \in Slaves /\ got[s] \in Nat /\ buf[s] \in Seq(Nat) /\ Len(buf[s]) \in Nat
        /\ got[s] + Len(buf[s]) <= stream
    BY DEF TypeOK, GivenOnlyCopied
  <2>2. Consecutive(buf[s], got[s])
    BY DEF StreamContiguous, Consecutive
  <2>3. buf'[s] = buf[s] \o NewBytes(s)
    BY <2>1 DEF TypeOK
  <2> HIDE DEF IndInv, FeedEnd
  <2>4. buf'[s] = Extend(buf[s], got[s], stream)
    BY <2>3 DEF NewBytes, Extend
  <2> DEFINE e == Extend(buf[s], got[s], stream)
  <2>5. e \in Seq(Nat) /\ got[s] + Len(e) = stream /\ Consecutive(e, got[s])
    BY <1>1, <2>1, <2>2, Extended
  <2> HIDE DEF e
  <2>6. buf'[s] = e
    BY <2>4 DEF e
  <2> QED BY <2>5, <2>6
<1>5. buf' \in [Slaves -> Seq(Nat)]
  BY <1>4 DEF TypeOK
<1>6. TypeOK'
  BY <1>2, <1>3, <1>5 DEF TypeOK
<1>7. RingHoldsHistory'
  <2>1. Smaller(histlen', size') = Smaller(histlen, size)
    BY <1>1, <1>2, <1>3 DEF Smaller
  <2>2. \A k : Slot(k)' = Slot(k)
    BY DEF Slot
  <2>3. \A k \in 0 .. Smaller(histlen', size') - 1 : ring'[Slot(k)'] = LastCopied' - k
    BY <1>1, <2>1, <2>2 DEF RingHoldsHistory, LastCopied
  <2> QED BY <1>1, <1>2, <1>3, <2>3 DEF RingHoldsHistory
<1>8. StreamContiguous' /\ GivenOnlyCopied'
  <2>1. online' = online /\ got' = got /\ stream' = stream /\ stream \in Nat
    BY <1>1
  <2>2. StreamContiguous'
    BY <1>4, <2>1 DEF StreamContiguous, Consecutive
  <2>3. ASSUME NEW s \in online
        PROVE  got[s] + Len(buf'[s]) <= stream
    <3> HIDE DEF IndInv, FeedEnd
    <3>1. got[s] + Len(buf'[s]) = stream
      BY <1>4
    <3> QED BY <1>1, <3>1
  <2> QED BY <2>1, <2>2, <2>3 DEF GivenOnlyCopied
<1>9. OffsetsExact'
  BY <1>1, <1>2, <1>3 DEF OffsetsExact
<1>10. PositionsExact'
  <2> SUFFICES ASSUME NEW s \in Slaves
               PROVE  /\ got[s] <= stream /\ reploff[s] <= mro
                      /\ s \notin online => buf'[s] = <<>>
                      /\ s \in online => reploff[s] # NoOffset /\ stream - got[s] = mro - reploff[s]
                      /\ reploff[s] # NoOffset /\ exists /\ reploff[s] + 1 >= off'
                           => stream - got[s] = mro - reploff[s]
    BY DEF PositionsExact
  <2>1. s \notin online => buf'[s] = <<>>
    BY DEF PositionsExact
  <2>2. reploff[s] \in Int
    BY DEF TypeOK, NoOffset
  <2> QED BY <1>1, <1>3, <2>1, <2>2 DEF PositionsExact
<1> QED BY <1>6, <1>7, <1>8, <1>9, <1>10

\* A new, empty buffer: only a slave that misses nothing can continue.
LEMMA ResizeInv ==
  ASSUME IndInv, NEW n \in Sizes, Resize(n)
  PROVE  IndInv'
<1> USE ConstantsAssumption DEF IndInv, feedVars, slaveVars
<1>1. /\ ~feeding /\ pending = 0 /\ size' \in Nat \ {0} /\ mro \in Nat /\ stream \in Nat
      /\ ring' = Blank(size') /\ UNCHANGED <<stream, exists, mro, feeding, pending, online, reploff, got, buf>>
  BY DEF Resize, Larger, OffsetsExact, TypeOK
<1>2. exists => histlen' = 0 /\ idx' = 0 /\ off' = mro + 1
  BY DEF Resize
<1>3. ~exists => histlen' = histlen /\ idx' = idx /\ off' = off
  BY DEF Resize
<1>4. ring' \in [0 .. size' - 1 -> Nat]
  BY <1>1 DEF Blank
<1>5. histlen' \in Nat /\ idx' \in Nat /\ off' \in Nat /\ (exists => idx' < size')
  BY <1>1, <1>2, <1>3 DEF TypeOK
<1>6. TypeOK'
  BY <1>1, <1>4, <1>5 DEF TypeOK
<1>7. RingHoldsHistory'
  BY <1>1, <1>2 DEF RingHoldsHistory, Smaller
<1>8. StreamContiguous' /\ GivenOnlyCopied'
  BY <1>1 DEF StreamContiguous, GivenOnlyCopied
<1>9. OffsetsExact'
  BY <1>1, <1>2 DEF OffsetsExact
<1>10. PositionsExact'
  <2>1. exists => off' >= off
    BY <1>1, <1>2 DEF OffsetsExact, TypeOK
  <2> SUFFICES ASSUME NEW s \in Slaves
               PROVE  reploff[s] # NoOffset /\ exists /\ reploff[s] + 1 >= off'
                           => stream - got[s] = mro - reploff[s]
    BY <1>1 DEF PositionsExact
  <2>2. reploff[s] \in Int /\ off \in Int /\ off' \in Int
    BY <1>5 DEF TypeOK, NoOffset
  <2> QED BY <2>1, <2>2 DEF PositionsExact
<1> QED BY <1>6, <1>7, <1>8, <1>9, <1>10

\* freeReplicationBacklog
LEMMA FreeInv ==
  ASSUME IndInv, Free
  PROVE  IndInv'
<1> USE DEF IndInv, Free, feedVars, slaveVars
<1>1. TypeOK' /\ RingHoldsHistory' /\ StreamContiguous' /\ GivenOnlyCopied' /\ OffsetsExact'
  BY DEF TypeOK, RingHoldsHistory, StreamContiguous, GivenOnlyCopied, OffsetsExact
<1>2. PositionsExact'
  BY DEF PositionsExact
<1> QED BY <1>1, <1>2

\* An accepted PSYNC.
LEMMA ContinueInv ==
  ASSUME IndInv, NEW s \in Slaves, Continue(s)
  PROVE  IndInv'
<1> USE DEF IndInv
<1>1. /\ ~feeding /\ s \notin online /\ reploff[s] # NoOffset /\ PsyncAccepted(reploff[s] + 1)
      /\ online' = online \cup {s} /\ buf' = [buf EXCEPT ![s] = Reply(reploff[s] + 1)]
      /\ UNCHANGED <<stream, exists, ring, size, idx, histlen, off, mro, feeding, pending, reploff, got>>
  BY DEF Continue, bufferVars, feedVars
<1>2. /\ exists /\ reploff[s] \in Nat /\ reploff[s] + 1 >= off /\ reploff[s] + 1 \in Nat
      /\ got[s] \in Nat /\ stream \in Nat /\ mro \in Nat
  BY <1>1 DEF TypeOK, PsyncAccepted
<1>3. stream - got[s] = mro - reploff[s]
  BY <1>1, <1>2 DEF PositionsExact
<1> DEFINE r == Reply(reploff[s] + 1)
           o == reploff[s] + 1
<1>4. /\ r \in Seq(Nat) /\ Len(r) = mro - o + 1
      /\ \A i \in 1 .. mro - o + 1 : r[i] = stream - (mro - o + 1) + i
  <2> HIDE DEF IndInv
  <2>1. TypeOK /\ RingHoldsHistory /\ OffsetsExact
    BY DEF IndInv
  <2> QED BY <1>1, <1>2, <2>1, ReplyExact, Zenon
<1>5. mro - o + 1 = stream - got[s] /\ stream - (mro - o + 1) = got[s]
  BY <1>2, <1>3
<1> HIDE DEF r, o
<1>6. r \in Seq(Nat) /\ got[s] + Len(r) = stream /\ Consecutive(r, got[s])
  BY <1>2, <1>4, <1>5 DEF Consecutive
<1>7. buf' \in [Slaves -> Seq(Nat)] /\ buf'[s] = r /\ \A x \in Slaves \ {s} : buf'[x] = buf[x]
  BY <1>1, <1>6 DEF TypeOK, r
<1>8. TypeOK'
  BY <1>1, <1>7 DEF TypeOK
<1>9. RingHoldsHistory' /\ OffsetsExact'
  BY <1>1, <1>2 DEF RingHoldsHistory, OffsetsExact, LastCopied, Slot
<1>10. StreamContiguous' /\ GivenOnlyCopied'
  <2> SUFFICES ASSUME NEW x \in online'
               PROVE  Consecutive(buf'[x], got[x]) /\ got[x] + Len(buf'[x]) = stream
    <3>1. \A y \in Int : y = stream => y <= stream
      BY <1>2
    <3> QED BY <1>1, <1>2 DEF StreamContiguous, GivenOnlyCopied, Consecutive
  <2>1. CASE x = s
    BY <1>6, <1>7, <2>1
  <2>2. CASE x # s
    <3>1. x \in online /\ buf'[x] = buf[x]
      BY <1>1, <1>7, <2>2 DEF TypeOK
    <3> QED BY <1>1, <3>1 DEF StreamContiguous, Consecutive
  <2> QED BY <2>1, <2>2
<1>11. PositionsExact'
  <2>1. \A x \in Slaves : x \notin online' => buf'[x] = <<>>
    BY <1>1, <1>7 DEF PositionsExact
  <2> QED BY <1>1, <1>3, <2>1 DEF PositionsExact
<1> QED BY <1>8, <1>9, <1>10, <1>11

\* A full resynchronization: no position cached before the backlog was
\* created can be accepted afterwards.
LEMMA FullResyncInv ==
  ASSUME IndInv, NEW s \in Slaves, FullResync(s)
  PROVE  IndInv'
<1> USE DEF IndInv
<1>1. /\ ~feeding /\ s \notin online /\ online' = online \cup {s} /\ pending = 0
      /\ reploff' = [reploff EXCEPT ![s] = mro'] /\ got' = [got EXCEPT ![s] = stream]
      /\ buf' = [buf EXCEPT ![s] = <<>>]
      /\ UNCHANGED <<stream, feeding, pending, size>>
      /\ stream \in Nat /\ mro \in Nat /\ size \in Nat \ {0}
  BY DEF FullResync, feedVars, bufferVars, OffsetsExact, TypeOK
<1>2. CASE exists
  <2>1. UNCHANGED <<exists, ring, idx, histlen, off, mro>>
    BY <1>2 DEF FullResync, bufferVars
  <2>2. TypeOK'
    BY <1>1, <2>1 DEF TypeOK
  <2>3. RingHoldsHistory' /\ OffsetsExact'
    BY <1>1, <1>2, <2>1 DEF RingHoldsHistory, OffsetsExact, LastCopied, Slot
  <2>4. PositionsExact'
    BY <1>1, <1>2, <2>1 DEF PositionsExact, TypeOK, NoOffset
  <2>5. StreamContiguous' /\ GivenOnlyCopied'
    BY <1>1, <2>1 DEF StreamContiguous, GivenOnlyCopied, TypeOK
  <2> QED BY <2>2, <2>3, <2>4, <2>5
<1>3. CASE ~exists
  <2>1. /\ exists' /\ ring' = Blank(size) /\ histlen' = 0 /\ idx' = 0
        /\ mro' = mro + 1 /\ off' = mro + 2 /\ online = {}
    BY <1>1, <1>3 DEF FullResync, CreationOffset, OffsetsExact
  <2>2. TypeOK'
    BY <1>1, <2>1 DEF TypeOK, Blank
  <2>3. RingHoldsHistory' /\ OffsetsExact'
    BY <1>1, <2>1 DEF RingHoldsHistory, OffsetsExact, Smaller
  <2>4. PositionsExact'
    BY <1>1, <2>1 DEF PositionsExact, TypeOK, NoOffset
  <2>5. StreamContiguous' /\ GivenOnlyCopied'
    BY <1>1, <2>1 DEF StreamContiguous, GivenOnlyCopied, TypeOK
  <2> QED BY <2>2, <2>3, <2>4, <2>5
<1> QED BY <1>2, <1>3

\* The arithmetic of reading one byte.
LEMMA OneByte ==
  ASSUME NEW g \in Nat, NEW r \in Nat, NEW st \in Nat, NEW m \in Nat,
         st - g = m - r, g + 1 <= st
  PROVE  r + 1 <= m /\ st - (g + 1) = m - (r + 1)
OBVIOUS

LEMMA OneByteLeft ==
  ASSUME NEW g \in Nat, NEW st \in Nat, NEW n \in Nat \ {0}, NEW k,
         g + n = st, k = n - 1
  PROVE  g + 1 + k = st
OBVIOUS

\* A byte is read: the position and what is left to read advance together.
LEMMA ReadInv ==
  ASSUME IndInv, NEW s \in Slaves, Read(s)
  PROVE  IndInv'
<1> USE DEF IndInv
<1>1. /\ ~feeding /\ s \in online /\ buf[s] # <<>>
      /\ got' = [got EXCEPT ![s] = Head(buf[s])]
      /\ reploff' = [reploff EXCEPT ![s] = @ + 1]
      /\ buf' = [buf EXCEPT ![s] = Tail(@)]
      /\ UNCHANGED <<stream, exists, ring, size, idx, histlen, off, mro, feeding, pending, online>>
  BY DEF Read, bufferVars, feedVars
<1>2. /\ buf[s] \in Seq(Nat) /\ Len(buf[s]) \in Nat \ {0} /\ got[s] \in Nat /\ stream \in Nat
      /\ mro \in Nat /\ got[s] + Len(buf[s]) = stream
      /\ \A i \in 1 .. Len(buf[s]) : buf[s][i] = got[s] + i
      /\ reploff[s] \in Nat /\ stream - got[s] = mro - reploff[s]
  <2>1. /\ buf[s] \in Seq(Nat) /\ got[s] \in Nat /\ stream \in Nat /\ mro \in Nat
        /\ reploff[s] \in Nat \cup {NoOffset}
    BY <1>1 DEF TypeOK
  <2>2. Len(buf[s]) \in Nat \ {0}
    BY <1>1, <2>1
  <2>3. reploff[s] # NoOffset /\ stream - got[s] = mro - reploff[s]
    BY <1>1 DEF PositionsExact
  <2>4. /\ got[s] + Len(buf[s]) = stream
        /\ \A i \in 1 .. Len(buf[s]) : buf[s][i] = got[s] + i
    BY <1>1 DEF StreamContiguous
  <2> QED BY <2>1, <2>2, <2>3, <2>4
<1>3. Head(buf[s]) = got[s] + 1 /\ Tail(buf[s]) \in Seq(Nat) /\ Len(Tail(buf[s])) = Len(buf[s]) - 1
  BY <1>2, SMTT(30)
<1>4. Consecutive(Tail(buf[s]), got[s] + 1)
  <2> SUFFICES ASSUME NEW i \in 1 .. Len(Tail(buf[s]))
               PROVE  Tail(buf[s])[i] = got[s] + 1 + i
    BY DEF Consecutive
  <2>1. Tail(buf[s])[i] = buf[s][i + 1] /\ i + 1 \in 1 .. Len(buf[s])
    BY <1>2, <1>3
  <2> QED BY <1>2, <2>1
<1>5. /\ got'[s] = got[s] + 1 /\ reploff'[s] = reploff[s] + 1 /\ buf'[s] = Tail(buf[s])
      /\ \A x \in Slaves \ {s} : got'[x] = got[x] /\ reploff'[x] = reploff[x] /\ buf'[x] = buf[x]
  BY <1>1, <1>3 DEF TypeOK
<1>6. TypeOK'
  <2>1. got' \in [Slaves -> Nat] /\ reploff' \in [Slaves -> Nat \cup {NoOffset}]
    BY <1>1, <1>2, <1>3, SMTT(30) DEF TypeOK
  <2>2. buf' \in [Slaves -> Seq(Nat)]
    BY <1>1, <1>3 DEF TypeOK
  <2> QED BY <1>1, <2>1, <2>2 DEF TypeOK
<1>7. RingHoldsHistory' /\ OffsetsExact'
  BY <1>1 DEF RingHoldsHistory, OffsetsExact, LastCopied, Slot
<1>8. PositionsExact'
  <2>1. \A x \in Slaves : x \notin online => buf'[x] = <<>>
    BY <1>1, <1>5 DEF PositionsExact
  <2>2. ASSUME NEW x \in Slaves, x # s
        PROVE  /\ got'[x] <= stream /\ reploff'[x] <= mro
               /\ x \in online => reploff'[x] # NoOffset /\ stream - got'[x] = mro - reploff'[x]
               /\ reploff'[x] # NoOffset /\ exists /\ reploff'[x] + 1 >= off
                    => stream - got'[x] = mro - reploff'[x]
    BY <1>5, <2>2 DEF PositionsExact
  <2>3. /\ got'[s] <= stream /\ reploff'[s] <= mro /\ reploff'[s] # NoOffset
        /\ stream - got'[s] = mro - reploff'[s]
    <3>1. got[s] + 1 <= stream
      BY <1>2
    <3>2. reploff[s] + 1 <= mro /\ stream - (got[s] + 1) = mro - (reploff[s] + 1)
      <4> HIDE DEF IndInv
      <4>1. /\ got[s] \in Nat /\ reploff[s] \in Nat /\ stream \in Nat /\ mro \in Nat
            /\ stream - got[s] = mro - reploff[s]
        BY <1>2
      <4> QED BY <3>1, <4>1, OneByte
    <3>3. reploff[s] + 1 # NoOffset
      BY <1>2 DEF NoOffset
    <3> QED BY <1>5, <3>1, <3>2, <3>3, Zenon
  <2> QED BY <1>1, <2>1, <2>2, <2>3 DEF PositionsExact
<1>9. StreamContiguous' /\ GivenOnlyCopied'
  <2> SUFFICES ASSUME NEW x \in online
               PROVE  Consecutive(buf'[x], got'[x]) /\ got'[x] + Len(buf'[x]) = stream
    BY <1>1, <1>2 DEF StreamContiguous, GivenOnlyCopied, Consecutive
  <2>1. CASE x = s
    <3>1. Consecutive(buf'[x], got'[x])
      BY <1>4, <1>5, <2>1, Zenon
    <3>2. got[s] + 1 + Len(Tail(buf[s])) = stream
      <4> HIDE DEF IndInv
      <4>1. /\ got[s] \in Nat /\ stream \in Nat /\ Len(buf[s]) \in Nat \ {0}
            /\ got[s] + Len(buf[s]) = stream
        BY <1>2
      <4>2. Len(Tail(buf[s])) = Len(buf[s]) - 1
        BY <1>3
      <4> QED BY <4>1, <4>2, OneByteLeft
    <3> QED BY <1>5, <2>1, <3>1, <3>2, Zenon
  <2>2. CASE x # s
    <3>1. got'[x] = got[x] /\ buf'[x] = buf[x]
      BY <1>5, <2>2 DEF TypeOK
    <3> QED BY <1>1, <3>1 DEF StreamContiguous, Consecutive
  <2> QED BY <2>1, <2>2
<1> QED BY <1>6, <1>7, <1>8, <1>9

\* The link is lost: the slave keeps its position.
LEMMA DisconnectInv ==
  ASSUME IndInv, NEW s \in Slaves, Disconnect(s)
  PROVE  IndInv'
<1> USE DEF IndInv
<1>1. /\ online' = online \ {s} /\ buf' = [buf EXCEPT ![s] = <<>>]
      /\ UNCHANGED <<stream, exists, ring, size, idx, histlen, off, mro, feeding, pending, reploff, got>>
  BY DEF Disconnect, bufferVars, feedVars
<1>2. buf' \in [Slaves -> Seq(Nat)] /\ buf'[s] = <<>> /\ \A x \in Slaves \ {s} : buf'[x] = buf[x]
  BY <1>1 DEF TypeOK
<1>3. TypeOK'
  BY <1>1, <1>2 DEF TypeOK
<1>4. RingHoldsHistory' /\ OffsetsExact'
  BY <1>1 DEF RingHoldsHistory, OffsetsExact, LastCopied, Slot
<1>5. PositionsExact'
  BY <1>1, <1>2 DEF PositionsExact
<1>6. StreamContiguous' /\ GivenOnlyCopied'
  <2>1. \A x \in online' : x \in online /\ buf'[x] = buf[x]
    BY <1>1, <1>2 DEF TypeOK
  <2> QED BY <1>1, <2>1 DEF StreamContiguous, GivenOnlyCopied
<1> QED BY <1>3, <1>4, <1>5, <1>6

\* The cached master is discarded.
LEMMA ForgetInv ==
  ASSUME IndInv, NEW s \in Slaves, Forget(s)
  PROVE  IndInv'
<1> USE DEF IndInv
<1>1. /\ s \notin online /\ reploff' = [reploff EXCEPT ![s] = NoOffset]
      /\ UNCHANGED <<stream, exists, ring, size, idx, histlen, off, mro, feeding, pending, online, got, buf>>
  BY DEF Forget, bufferVars, feedVars
<1>2. TypeOK'
  BY <1>1 DEF TypeOK
<1>3. RingHoldsHistory' /\ OffsetsExact' /\ StreamContiguous' /\ GivenOnlyCopied'
  BY <1>1 DEF RingHoldsHistory, OffsetsExact, LastCopied, Slot, StreamContiguous, GivenOnlyCopied
<1>4. PositionsExact'
  <2>1. reploff'[s] = NoOffset /\ NoOffset <= mro /\ \A x \in Slaves \ {s} : reploff'[x] = reploff[x]
    BY <1>1 DEF TypeOK, NoOffset
  <2> QED BY <1>1, <2>1 DEF PositionsExact
<1> QED BY <1>2, <1>3, <1>4

----------------------------------------------------------------------------
\* The invariant holds throughout.
LEMMA Invariance == Spec => []IndInv
<1>1. IndInv /\ [Next]_vars => IndInv'
  <2> SUFFICES ASSUME IndInv, [Next]_vars PROVE IndInv'
    OBVIOUS
  <2>1. CASE \E len \in Lengths : WriteUncounted(len) \/ Write(len)
    BY <2>1, WriteUncountedInv, WriteInv
  <2>2. CASE FeedChunk \/ FeedEnd \/ Free
    BY <2>2, FeedChunkInv, FeedEndInv, FreeInv
  <2>3. CASE \E n \in Sizes : Resize(n)
    BY <2>3, ResizeInv
  <2>4. CASE \E s \in Slaves :
               Continue(s) \/ FullResync(s) \/ Read(s) \/ Disconnect(s) \/ Forget(s)
    BY <2>4, ContinueInv, FullResyncInv, ReadInv, DisconnectInv, ForgetInv
  <2>5. CASE UNCHANGED vars
    BY <2>5 DEF vars, bufferVars, feedVars, slaveVars, IndInv, TypeOK, RingHoldsHistory,
                StreamContiguous, OffsetsExact, PositionsExact, GivenOnlyCopied,
                LastCopied, Slot
  <2> QED BY <2>1, <2>2, <2>3, <2>4, <2>5 DEF Next
<1> QED BY InitInv, <1>1, PTL DEF Spec

\* Every variable keeps its type; in particular the write index never leaves
\* the buffer, whatever the length of a write.
THEOREM TypeCorrect == Spec => []TypeOK
<1>1. IndInv => TypeOK
  BY DEF IndInv
<1> QED BY <1>1, Invariance, PTL

\* The circular buffer holds the end of the stream, at every iteration of
\* feedReplicationBacklog and after any resize.
THEOREM RingCorrect == Spec => []RingHoldsHistory
<1>1. IndInv => RingHoldsHistory
  BY DEF IndInv
<1> QED BY <1>1, Invariance, PTL

\* Whatever offset PSYNC accepts, the slave reads the stream without a gap, a
\* repetition or a byte that was never written.
THEOREM PsyncCorrect == Spec => []StreamContiguous
<1>1. IndInv => StreamContiguous
  BY DEF IndInv
<1> QED BY <1>1, Invariance, PTL
=============================================================================
