------------------------------ MODULE Replies ------------------------------
(***************************************************************************)
(* What a client is to be sent (networking.c): a fixed buffer, then a list *)
(* of chunks, one of which may wait for a count that is not known yet;     *)
(* partial writes; limits on the memory of the list, one of them only when *)
(* it lasts; and closing now, after the last reply, or in the next cron.   *)
(*                                                                         *)
(* A byte is its number in the order the client has to receive them.       *)
(***************************************************************************)
EXTENDS Integers, Sequences, SequencesExt

CONSTANTS BufSize,    \* REDIS_REPLY_CHUNK_BYTES: the buffer, and a chunk that is added to
          Overhead,   \* zmalloc_size_sds beyond the length
          ItemSize,   \* sizeof(listNode) + sizeof(robj)
          ReplySizes, \* lengths of replies
          Limits,     \* [hard, soft, seconds]: client_obuf_limits of the class; 0 is none
          MaxBytes, MaxSeconds   \* bounds: bytes of replies; seconds

VARIABLES client,   \* the client: see NewReplies
          writable, \* whether the write handler is installed
          deferred, \* the node whose count is not known: its place in the list, or 0
          closing,  \* clients_to_close: whether the client is in it; "freed"
          unix,     \* server.unixtime
          sofar     \* history: bytes made and bytes received

replyvars == <<client, writable, deferred, closing, unix, sofar>>

\* A chunk is its bytes; Unknown stands for the count to come, whose byte is n.
Chunk(bytes) == [count |-> 0, bytes |-> bytes]
Unknown(n)   == [count |-> n, bytes |-> <<>>]

\* online: no slave, or one that has its snapshot; closes: CLOSE_AFTER_REPLY.
NewReplies == [buf |-> <<>>, sentlen |-> 0, list |-> <<>>, bytes |-> 0, soft_since |-> 0,
               online |-> TRUE, closes |-> FALSE]

Flat(ss) == FoldLeft(LAMBDA acc, s : acc \o s, <<>>, ss)
Size(chunk) == IF chunk.count # 0 THEN 0 ELSE Len(chunk.bytes) + Overhead
Next(n) == [i \in 1 .. n |-> sofar.made + i]
Full(chunk, n) == chunk.count # 0 \/ Len(chunk.bytes) + n > BufSize

----------------------------------------------------------------------------
(* addReply and its like.                                                  *)

\* prepareClientToWrite.
Prepared == writable' = (writable \/ (client.buf = <<>> /\ client.list = <<>> /\ client.online))

\* _addReplyToBuffer, or _addReplyStringToList.
Fits(n) == client.list = <<>> /\ n <= BufSize - Len(client.buf)
Added(n) ==
  IF client.closes THEN client
  ELSE IF Fits(n) THEN [client EXCEPT !.buf = @ \o Next(n)]
  ELSE IF client.list = <<>> \/ Full(Last(client.list), n)
         THEN [client EXCEPT !.list = Append(@, Chunk(Next(n))), !.bytes = @ + Size(Chunk(Next(n)))]
  ELSE [client EXCEPT !.list[Len(client.list)].bytes = @ \o Next(n), !.bytes = @ + n]

\* checkClientOutputBufferLimits, in asyncCloseClientOnOutputBufferLimitReached.
Checked(x) ==
  LET used == x.bytes + ItemSize * Len(x.list)
      soft == Limits.soft # 0 /\ used >= Limits.soft
      hard == Limits.hard # 0 /\ used >= Limits.hard
      lasts == soft /\ x.soft_since # 0 /\ unix - x.soft_since > Limits.seconds
  IN IF x.bytes = 0 \/ closing # "no" THEN /\ client' = x /\ UNCHANGED closing
     ELSE /\ client' = [x EXCEPT !.soft_since = IF ~soft THEN 0 ELSE IF @ = 0 THEN unix ELSE @]
          /\ closing' = IF hard \/ lasts THEN "asap" ELSE closing

Alive == closing # "freed"
MakeReply(n) ==
  /\ Alive /\ sofar.made + n <= MaxBytes
  /\ Prepared
  /\ IF Fits(n) \/ client.closes THEN client' = Added(n) /\ UNCHANGED closing ELSE Checked(Added(n))
  /\ sofar' = IF client.closes THEN sofar ELSE [sofar EXCEPT !.made = @ + n]
  /\ UNCHANGED <<deferred, unix>>

\* addDeferredMultiBulkLength. Nothing is sent before the command ends.
AddDeferred ==
  /\ Alive /\ ~client.closes /\ deferred = 0 /\ sofar.made < MaxBytes
  /\ Prepared
  /\ client' = [client EXCEPT !.list = Append(@, Unknown(sofar.made + 1))] /\ deferred' = Len(client'.list)
  /\ sofar' = [sofar EXCEPT !.made = @ + 1]
  /\ UNCHANGED <<closing, unix>>

\* setDeferredMultiBulkLength: the next chunk is glued to the count.
SetDeferred ==
  /\ Alive /\ deferred # 0
  /\ LET node == <<client.list[deferred].count>>
         glued == deferred < Len(client.list)
         next == IF glued THEN client.list[deferred + 1].bytes ELSE <<>>
         x == [client EXCEPT !.list = SubSeq(@, 1, deferred - 1) \o <<Chunk(node \o next)>>
                                 \o SubSeq(@, deferred + (IF glued THEN 2 ELSE 1), Len(@)),
                        !.bytes = @ + Len(node) + (IF glued THEN 0 ELSE Overhead)]
     IN Checked(x)
  /\ deferred' = 0 /\ UNCHANGED <<writable, unix, sofar>>

\* A protocol error, QUIT, CLIENT KILL of itself: with a last reply.
CloseAfterReply(n) ==
  /\ Alive /\ ~client.closes /\ deferred = 0 /\ sofar.made + n <= MaxBytes
  /\ Prepared
  /\ IF Fits(n) THEN client' = [Added(n) EXCEPT !.closes = TRUE] /\ UNCHANGED closing
     ELSE Checked([Added(n) EXCEPT !.closes = TRUE])
  /\ sofar' = [sofar EXCEPT !.made = @ + n]
  /\ UNCHANGED <<deferred, unix>>

\* A client becomes a slave with nothing to be sent; its snapshot has been sent.
BecomeSlave == /\ Alive /\ client.online /\ sofar.made = 0 /\ ~writable
               /\ client' = [client EXCEPT !.online = FALSE] /\ UNCHANGED <<writable, deferred, closing, unix, sofar>>
Online == /\ Alive /\ ~client.online /\ deferred = 0
          /\ client' = [client EXCEPT !.online = TRUE] /\ writable' = TRUE
          /\ UNCHANGED <<deferred, closing, unix, sofar>>

----------------------------------------------------------------------------
(* sendReplyToClient: the kernel takes some of it, in any pieces.          *)

\* One byte of the buffer, or of the first chunk.
SentByte(x) ==
  IF x.buf # <<>>
    THEN IF x.sentlen + 1 = Len(x.buf) THEN [x EXCEPT !.buf = <<>>, !.sentlen = 0] ELSE [x EXCEPT !.sentlen = @ + 1]
    ELSE IF x.sentlen + 1 = Len(x.list[1].bytes)
           THEN [x EXCEPT !.list = Tail(@), !.sentlen = 0, !.bytes = @ - Size(x.list[1])]
           ELSE [x EXCEPT !.sentlen = @ + 1]

\* What is still to be sent, a count that is not known standing for itself.
Pending ==
  LET BytesOf(chunk) == IF chunk.count # 0 THEN <<chunk.count>> ELSE chunk.bytes
      all == client.buf \o Flat([i \in DOMAIN client.list |-> BytesOf(client.list[i])])
  IN SubSeq(all, client.sentlen + 1, Len(all))

SendReply ==
  /\ Alive /\ writable /\ deferred = 0
  /\ \E n \in 0 .. Len(Pending) :
       /\ client' = FoldLeft(LAMBDA x, i : SentByte(x), client, [i \in 1 .. n |-> i])
       /\ writable' = (n < Len(Pending))
       /\ closing' = IF n = Len(Pending) /\ client.closes THEN "freed" ELSE closing
       /\ sofar' = [sofar EXCEPT !.received = @ \o SubSeq(Pending, 1, n)]
  /\ UNCHANGED <<deferred, unix>>

\* freeClientsInAsyncFreeQueue, in serverCron.
FreeAsync == /\ closing = "asap" /\ deferred = 0 /\ closing' = "freed"
             /\ UNCHANGED <<client, writable, deferred, unix, sofar>>
Second == Alive /\ unix < MaxSeconds /\ unix' = unix + 1 /\ UNCHANGED <<client, writable, deferred, closing, sofar>>

RepliesInit == /\ client = NewReplies /\ writable = FALSE /\ deferred = 0 /\ closing = "no" /\ unix = 1
               /\ sofar = [made |-> 0, received |-> <<>>] 
RepliesNext == \/ \E n \in ReplySizes : MakeReply(n) \/ CloseAfterReply(n)
               \/ AddDeferred \/ SetDeferred \/ SendReply \/ FreeAsync \/ Second \/ BecomeSlave \/ Online

----------------------------------------------------------------------------
\* The client receives every byte once, in order, and none after its last reply,
\* through the buffer, the chunks and a count that is filled in later; the memory that
\* is counted is that of the chunks; what is pending has a handler that will send it.
RepliesSound ==
  /\ Alive => sofar.received \o Pending = [i \in 1 .. sofar.made |-> i]
  /\ closing = "freed" => IsPrefix(sofar.received, [i \in 1 .. sofar.made |-> i])
  /\ client.bytes = FoldLeft(LAMBDA sum, chunk : sum + Size(chunk), 0, client.list)
  /\ Alive /\ client.online /\ (Pending # <<>> \/ client.closes) => writable
=============================================================================
