----------------------------- MODULE EventLoop -----------------------------
(***************************************************************************)
(* The file events of the event loop (ae.c over ae_epoll.c): a table of    *)
(* what is wanted of each descriptor, the kernel's copy of it, and the     *)
(* batch of events that is being dispatched. A handler may close any       *)
(* client, its own or one whose event is still to come in the batch; the   *)
(* kernel gives the lowest free number to what is opened next; and a       *)
(* handler that takes long runs the loop inside the loop                   *)
(* (processEventsWhileBlocked), which overwrites the batch.                *)
(*                                                                         *)
(* What the table keeps of a descriptor nothing is wanted of is never read *)
(* and is left out.                                                        *)
(***************************************************************************)
EXTENDS Integers, Sequences, FiniteSets, SequencesExt

CONSTANTS MaxFd,       \* descriptors are 0 .. MaxFd; 0 is the listening socket
          SetSizes,    \* the values of setsize
          MaxBatch     \* bound: events of one poll

VARIABLES el,      \* [mask, proc, data, maxfd, setsize]: eventLoop->events by descriptor
          kernel,  \* descriptor -> what epoll watches, {} if it is not watched
          open,    \* descriptor -> the socket that has it, 0 if none
          fired,   \* eventLoop->fired
          frames,  \* the aeProcessEvents that run, innermost first: see Frame
          torn,    \* history: the table moved while aeProcessEvents pointed into it
          misled   \* history: a handler was called for a socket that is closed

fvars == <<el, kernel, open, fired, torn, misled>>
eventvars == <<fvars, frames>>

Fds == 0 .. MaxFd
MaxOfSet(S) == IF S = {} THEN -1 ELSE CHOOSE x \in S : \A y \in S : y <= x

\* at: "read" and "write", the two looks at event j of n; mask: the event's; rfired: its
\* read handler ran; busy: the descriptor whose handler runs the frame above.
Frame(n) == [n |-> n, j |-> 1, at |-> "read", mask |-> {}, rfired |-> FALSE, busy |-> -1]
Top == Head(frames)
SetTop(f) == frames' = <<f>> \o Tail(frames)
Running == {f.busy : f \in ToSet(frames)} \ {-1}   \* the descriptors of handlers on the stack

----------------------------------------------------------------------------
(* The table. World is what a handler changes.                             *)

World == [el |-> el, kernel |-> kernel, open |-> open]
Becomes(w) == el' = w.el /\ kernel' = w.kernel /\ open' = w.open

\* aeCreateFileEvent: epoll_ctl adds or modifies by what the table says, and refuses
\* to add what is there and to modify what is not.
CreateFileEvent(w, fd, mask, proc, data) ==
  IF fd >= w.el.setsize \/ ((w.el.mask[fd] = {}) # (w.kernel[fd] = {})) THEN w
  ELSE [w EXCEPT !.kernel[fd] = w.el.mask[fd] \cup mask,
                 !.el.mask[fd] = @ \cup mask,
                 !.el.proc[fd] = [r |-> IF "R" \in mask THEN proc ELSE @.r, w |-> IF "W" \in mask THEN proc ELSE @.w],
                 !.el.data[fd] = data,
                 !.el.maxfd = IF fd > @ THEN fd ELSE @]

\* aeDeleteFileEvent.
DeleteFileEvent(w, fd, mask) ==
  IF fd >= w.el.setsize \/ w.el.mask[fd] = {} THEN w
  ELSE LET left == w.el.mask[fd] \ mask
       IN [w EXCEPT !.kernel[fd] = IF @ = {} THEN {} ELSE left,
                    !.el.mask[fd] = left,
                    !.el.proc[fd] = [r |-> IF "R" \in left THEN @.r ELSE "none", w |-> IF "W" \in left THEN @.w ELSE "none"],
                    !.el.data[fd] = IF left = {} THEN 0 ELSE @,
                    !.el.maxfd = IF fd = @ /\ left = {} THEN MaxOfSet({f \in 0 .. fd - 1 : w.el.mask[f] # {}}) ELSE @]

\* freeClient; close takes the descriptor out of epoll.
CloseFd(w, fd) ==
  LET d == DeleteFileEvent(DeleteFileEvent(w, fd, {"R"}), fd, {"W"})
  IN [d EXCEPT !.open[fd] = 0, !.kernel[fd] = {}]

\* accept, or socket and connect: the lowest free descriptor; one beyond the table is
\* closed again.
OpenFd(w, mask, proc) ==
  LET free == {f \in Fds : w.open[f] = 0}
      fd   == CHOOSE f \in free : \A g \in free : f <= g
      new  == {n \in 1 .. MaxFd + 2 : \A f \in Fds : n \notin {w.open[f], w.el.data[f]}}
      n    == CHOOSE n \in new : \A k \in new : n <= k
      o    == [w EXCEPT !.open[fd] = n]
      c    == CreateFileEvent(o, fd, mask, proc, n)
  IN IF free = {} \/ new = {} THEN w
     ELSE IF c = o THEN CloseFd(o, fd) ELSE c

\* aeResizeSetSize.
Resize(w, size) == IF w.el.maxfd >= size THEN w ELSE [w EXCEPT !.el.setsize = size]

Clients == {fd \in Fds \ {0} : open[fd] # 0}

\* What a handler may do, once; a nested one only to its own descriptor, unless that
\* is of a handler below it (README, section 6).
Effects(w, fd, proc) ==
  {w}
  \cup (IF proc = "accept" THEN {OpenFd(w, {"R"}, "query")} ELSE {})
  \cup (IF proc # "accept" /\ fd \notin Running
        THEN {CloseFd(w, fd), DeleteFileEvent(w, fd, {"W"}), CreateFileEvent(w, fd, {"W"}, "reply", w.el.data[fd])}
        ELSE {})
  \cup (IF Len(frames) = 1 /\ proc # "accept"
        THEN {CloseFd(w, f) : f \in Clients}
             \cup {CreateFileEvent(w, f, {"W"}, "reply", w.open[f]) : f \in Clients}
             \cup {OpenFd(w, {"R", "W"}, "connect")}
             \cup {Resize(w, n) : n \in SetSizes}
        ELSE {})

----------------------------------------------------------------------------
(* aeProcessEvents.                                                        *)

\* aeApiPoll: some of what is watched is ready, an error or a hangup counting as
\* writable, in any order; the rest of fired is left as it was.
Poll(batch) ==
  fired' = IF Len(batch) >= Len(fired) THEN batch ELSE batch \o SubSeq(fired, Len(batch) + 1, Len(fired))
Batches(w) ==
  LET ready == UNION {{[fd |-> fd, mask |-> m] : m \in (SUBSET (w.kernel[fd] \cup {"W"})) \ {{}}} :
                        fd \in {f \in Fds : w.kernel[f] # {}}}
  IN {b \in SeqOf(ready, MaxBatch) : \A i, j \in DOMAIN b : i # j => b[i].fd # b[j].fd}

\* beforeSleep may do all that a handler may; what it does is left to the handlers.
Process == /\ frames = <<>>
           /\ \E b \in Batches(World) : Poll(b) /\ frames' = <<Frame(Len(b))>>
           /\ UNCHANGED <<el, kernel, open, torn, misled>>

Event == fired[Top.j]

\* A handler is called with what the table says of its descriptor.
CallHandler(kind, fd, proc, next) ==
  /\ misled' = (misled \/ el.data[fd] # open[fd])
  /\ \/ \E w \in Effects(World, fd, proc) :
          /\ Becomes(w) /\ SetTop(next)
          \* The table moved under "fe", which is looked at once more.
          /\ torn' = (torn \/ (w.el.setsize # el.setsize /\ kind = "R"))
          /\ UNCHANGED fired
     \* A handler that takes long: its descriptor is not read meanwhile.
     \/ /\ Len(frames) = 1 /\ proc = "query"
        /\ LET w == DeleteFileEvent(World, fd, {"R"})
           IN \E b \in Batches(w) :
                /\ Becomes(w) /\ Poll(b)
                /\ frames' = <<Frame(Len(b)), [next EXCEPT !.busy = fd]>>
        /\ UNCHANGED torn

ReadLook ==
  /\ frames # <<>> /\ Top.j <= Top.n /\ Top.at = "read"
  /\ LET fd == Event.fd
         fires == "R" \in el.mask[fd] \cap Event.mask
         next == [Top EXCEPT !.at = "write", !.mask = Event.mask, !.rfired = fires]
     IN IF fires THEN CallHandler("R", fd, el.proc[fd].r, next)
        ELSE SetTop(next) /\ UNCHANGED fvars

\* The same handler is not called twice for one event: the two handlers are compared as
\* the table has them now, after the read handler. (No handler but that of a nested
\* loop, which puts it back, deletes "R" and keeps "W", so that the one read is
\* always of a descriptor that is watched.)
WriteLook ==
  /\ frames # <<>> /\ Top.j <= Top.n /\ Top.at = "write"
  /\ LET fd == Event.fd
         next == [Top EXCEPT !.j = @ + 1, !.at = "read", !.busy = -1]
     IN IF "W" \in el.mask[fd] \cap Top.mask /\ (~Top.rfired \/ el.proc[fd].w # el.proc[fd].r)
        THEN CallHandler("W", fd, el.proc[fd].w, next)
        ELSE SetTop(next) /\ UNCHANGED fvars

\* The inner loop ends; the handler below puts its descriptor back and returns.
Return ==
  /\ Len(frames) = 2 /\ Top.j > Top.n
  /\ LET fd == frames[2].busy
     IN Becomes(CreateFileEvent(World, fd, {"R"}, "query", open[fd]))
  /\ frames' = <<[frames[2] EXCEPT !.busy = -1]>>
  /\ UNCHANGED <<fired, torn, misled>>

----------------------------------------------------------------------------
(* aeMain: dispatching ends, and the loop polls again; what is left in     *)
(* fired is not looked at any more.                                        *)

EndOfBatch == /\ Len(frames) = 1 /\ Top.j > Top.n
              /\ frames' = <<>> /\ fired' = <<>>
              /\ UNCHANGED <<el, kernel, open, torn, misled>>

EventInit ==
  /\ el = [mask |-> [f \in Fds |-> IF f = 0 THEN {"R"} ELSE {}],
           proc |-> [f \in Fds |-> [r |-> IF f = 0 THEN "accept" ELSE "none", w |-> "none"]],
           data |-> [f \in Fds |-> IF f = 0 THEN 1 ELSE 0], maxfd |-> 0,
           setsize |-> CHOOSE n \in SetSizes : \A k \in SetSizes : n <= k]
  /\ kernel = [f \in Fds |-> IF f = 0 THEN {"R"} ELSE {}]
  /\ open = [f \in Fds |-> IF f = 0 THEN 1 ELSE 0]
  /\ fired = <<>> /\ frames = <<>> /\ torn = FALSE /\ misled = FALSE

EventNext == ~torn /\ (Process \/ ReadLook \/ WriteLook \/ Return \/ EndOfBatch)

----------------------------------------------------------------------------
\* The kernel watches what the table says, and only sockets that are open; maxfd is
\* the greatest descriptor in use and inside the table; a handler is called for the
\* socket that has the descriptor now, never for one that was closed, however stale
\* the event.
LoopSound ==
  /\ kernel = el.mask
  /\ \A f \in Fds : el.mask[f] # {} => open[f] # 0 /\ el.data[f] = open[f]
  /\ el.maxfd = MaxOfSet({f \in Fds : el.mask[f] # {}}) /\ el.maxfd < el.setsize
  /\ ~misled
=============================================================================
