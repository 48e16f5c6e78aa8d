----------------------------- MODULE BidiReactor ----------------------------
(***************************************************************************)
(* What RecognizeAudioReactor and EmbeddingReactor have in common: one      *)
(* bidirectional stream, its two atomics _is_cancelled and _is_writing, its *)
(* write queue, and gRPC's side of the call.                                *)
(*                                                                          *)
(*   "reader"   the gRPC thread that runs OnReadDone; there is one read     *)
(*              outstanding at a time, so there is one such thread;         *)
(*   Callbacks  the gRPC threads that run OnWriteDone;                      *)
(*   "cancel"   the gRPC thread that runs OnCancel;                         *)
(*   "stop"     the thread of a Stop RPC, inside Stop; it holds the mutex   *)
(*              of the registry as long as it is not idle;                  *)
(*   Tasks      the thread pool's tasks of this stream.                     *)
(*                                                                          *)
(* gRPC is modelled by its contract, as in QueryReactor: one write in       *)
(* flight, none after Finish, Finish once, OnDone when every operation has  *)
(* ended and every reaction has returned.  The first breach, or the first   *)
(* use of the deleted reactor, sets misuse and ends the behaviour.          *)
(***************************************************************************)
EXTENDS Naturals, Sequences, FiniteSets

CONSTANTS
    Callbacks,  \* gRPC threads that may be inside OnWriteDone at one time
    Tasks,      \* pool tasks the stream may queue, one for each request
    MaxReqs     \* bound: requests the client sends

ASSUME ThreadsAssumption ==
    /\ {"reader", "cancel", "stop"} \cap (Callbacks \cup Tasks) = {}
    /\ Callbacks \cap Tasks = {}
ASSUME TasksAssumption == IsFiniteSet(Tasks) /\ Cardinality(Tasks) >= MaxReqs
ASSUME MaxReqsAssumption == MaxReqs \in Nat \ {0}

Thread == {"reader", "cancel", "stop"} \cup Callbacks \cup Tasks

\* A response: the number of the request it answers (0: none in particular)
\* and the audio it is the transcript of, as the numbers of the chunks it was
\* taken from.
Resp == [req : 0..MaxReqs, audio : Seq(1..MaxReqs)]

VARIABLES
    kind,       \* which reactor this is
    pc,         \* where each thread is
    ret,        \* where _send and _flush return to in each thread
    resp,       \* each thread's local response
    cancelled,  \* _is_cancelled
    writing,    \* _is_writing
    queue,      \* _w_queue
    request,    \* _req: "param", "chunk" or "neither"
    hasId,      \* the client's requests carry a session or task id
    nread,      \* requests read so far
    reading,    \* a read was started and its OnReadDone was not called
    inflight,   \* a write was started and its OnWriteDone was not called
    wire,       \* responses handed to gRPC, in order
    finish,     \* the status Finish was called with
    onCancel,   \* the OnCancel reaction: "no", "pending" or "delivered"
    registered, \* the registry maps the id to this reactor
    freed,      \* the reactor was deleted
    failed,     \* history: a write failed
    pipelined,  \* history: an embedding stream read a request before the
                \* answers to all earlier ones were on the wire
    misuse      \* the first breach of the gRPC contract or of memory

threadVars == <<pc, ret, resp>>
flagVars   == <<cancelled, writing, queue>>
reqVars    == <<request, hasId, nread>>
grpcVars   == <<reading, inflight, wire, finish, onCancel>>
lifeVars   == <<registered, freed>>
histVars   == <<failed, pipelined, misuse>>
streamVars == <<kind, threadVars, flagVars, reqVars, grpcVars, lifeVars,
                histVars>>

NoResp == [req |-> 0, audio |-> <<>>]

\* The constructor: the first read is started.
StreamInit ==
    /\ kind \in {"embedding", "recognition"}
    /\ pc = [t \in Thread |-> IF t \in Tasks THEN "unused" ELSE "idle"]
    /\ ret = [t \in Thread |-> "idle"]
    /\ resp = [t \in Thread |-> NoResp]
    /\ cancelled = FALSE /\ writing = FALSE /\ queue = <<>>
    /\ request = "neither" /\ hasId \in BOOLEAN /\ nread = 0
    /\ reading = TRUE /\ inflight = FALSE /\ wire = <<>>
    /\ finish = "none" /\ onCancel = "no"
    /\ registered = FALSE /\ freed = FALSE
    /\ failed = FALSE /\ pipelined = FALSE /\ misuse = "none"

Goto(t, l) == pc' = [pc EXCEPT ![t] = l]

\* Thread t calls _send with r; l follows.
CallSend(t, r, l) ==
    /\ resp' = [resp EXCEPT ![t] = r]
    /\ ret' = [ret EXCEPT ![t] = l]
    /\ Goto(t, "send")

\* _send or _flush of thread t returns, and its local response is gone.
Return(t) ==
    /\ resp' = [resp EXCEPT ![t] = NoResp]
    /\ Goto(t, ret[t])

\* Finish(status): gRPC accepts it once.
Finish(status) ==
    /\ finish' = status
    /\ misuse' = IF finish = "none" THEN misuse ELSE "double_finish"
    /\ UNCHANGED <<reading, inflight, wire, onCancel, failed, pipelined>>

-----------------------------------------------------------------------------
(* _send and _flush.                                                        *)

SendIfNotCancelled(t) ==
    /\ pc[t] = "send"
    /\ IF cancelled THEN Return(t) ELSE Goto(t, "enqueue") /\ UNCHANGED resp
    /\ UNCHANGED <<kind, ret, flagVars, reqVars, grpcVars, lifeVars,
                   histVars>>

Enqueue(t) ==
    /\ pc[t] = "enqueue"
    /\ queue' = Append(queue, resp[t])
    /\ resp' = [resp EXCEPT ![t] = NoResp]
    /\ Goto(t, "flush")
    /\ UNCHANGED <<kind, ret, cancelled, writing, reqVars, grpcVars,
                   lifeVars, histVars>>

FlushIfNotWriting(t) ==
    /\ pc[t] = "flush"
    /\ IF writing THEN Return(t)
                  ELSE Goto(t, "flush_cancelled") /\ UNCHANGED resp
    /\ UNCHANGED <<kind, ret, flagVars, reqVars, grpcVars, lifeVars,
                   histVars>>

FlushIfNotCancelled(t) ==
    /\ pc[t] = "flush_cancelled"
    /\ IF cancelled THEN Return(t)
                    ELSE Goto(t, "flush_dequeue") /\ UNCHANGED resp
    /\ UNCHANGED <<kind, ret, flagVars, reqVars, grpcVars, lifeVars,
                   histVars>>

\* As FlushDequeue, with the test of _is_writing repeated after the dequeue
\* and the response dropped when it fails.
FlushDequeueThenTest(t) ==
    /\ pc[t] = "flush_dequeue"
    /\ IF queue = <<>>
         THEN Return(t) /\ UNCHANGED queue
         ELSE /\ queue' = Tail(queue)
              /\ IF writing
                   THEN Return(t)
                   ELSE /\ resp' = [resp EXCEPT ![t] = Head(queue)]
                        /\ Goto(t, "flush_store")
    /\ UNCHANGED <<kind, ret, cancelled, writing, reqVars, grpcVars, lifeVars,
                   histVars>>

\* As FlushDequeue, with the response left in the queue.
FlushPeek(t) ==
    /\ pc[t] = "flush_dequeue"
    /\ IF queue = <<>>
         THEN Return(t)
         ELSE /\ resp' = [resp EXCEPT ![t] = Head(queue)]
              /\ Goto(t, "flush_store")
    /\ UNCHANGED <<kind, ret, flagVars, reqVars, grpcVars, lifeVars, histVars>>

FlushDequeue(t) ==
    /\ pc[t] = "flush_dequeue"
    /\ IF queue = <<>>
         THEN Return(t) /\ UNCHANGED queue
         ELSE /\ resp' = [resp EXCEPT ![t] = Head(queue)]
              /\ queue' = Tail(queue)
              /\ Goto(t, "flush_store")
    /\ UNCHANGED <<kind, ret, cancelled, writing, reqVars, grpcVars, lifeVars,
                   histVars>>

FlushStore(t) ==
    /\ pc[t] = "flush_store"
    /\ writing' = TRUE
    /\ Goto(t, "flush_start")
    /\ UNCHANGED <<kind, ret, resp, cancelled, queue, reqVars, grpcVars,
                   lifeVars, histVars>>

\* StartWrite(&resp).
WriteMisuse == IF finish # "none" THEN "write_after_finish"
               ELSE IF inflight THEN "double_write" ELSE "none"

FlushStart(t) ==
    /\ pc[t] = "flush_start"
    /\ misuse' = WriteMisuse
    /\ inflight' = TRUE
    /\ wire' = IF WriteMisuse = "none" THEN Append(wire, resp[t]) ELSE wire
    /\ Return(t)
    /\ UNCHANGED <<kind, ret, flagVars, reqVars, reading, finish,
                   onCancel, lifeVars, failed, pipelined>>

SendAndFlush(t) ==
    \/ SendIfNotCancelled(t)
    \/ Enqueue(t)
    \/ FlushIfNotWriting(t)
    \/ FlushIfNotCancelled(t)
    \/ FlushDequeue(t)
    \/ FlushStore(t)
    \/ FlushStart(t)

-----------------------------------------------------------------------------
(* Reads.                                                                   *)

\* The outstanding read ends with a request: OnReadDone(true), from label l.
ReadRequest(k, l) ==
    /\ reading /\ pc["reader"] = "idle" /\ nread < MaxReqs
    /\ reading' = FALSE
    /\ request' = k /\ nread' = nread + 1
    /\ pipelined' = (pipelined \/ (kind = "embedding" /\ Len(wire) < nread))
    /\ Goto("reader", l)
    /\ UNCHANGED <<kind, ret, resp, flagVars, hasId, inflight, wire, finish,
                   onCancel, lifeVars, failed, misuse>>

\* The stream is broken or over: an outstanding read cannot stay so.
Broken == onCancel # "no" \/ finish # "none"

\* As ReadEnd, with the next read started all the same.
ReadEndGoesOn ==
    /\ reading /\ pc["reader"] = "idle"
    /\ finish' = "OK"
    /\ misuse' = IF finish = "none" THEN misuse ELSE "double_finish"
    /\ UNCHANGED <<kind, threadVars, flagVars, reqVars, reading, inflight,
                   wire, onCancel, lifeVars, failed, pipelined>>

\* The outstanding read ends without one (the client closed its side, or the
\* stream is broken): OnReadDone(false) calls Finish and starts no read.
ReadEnd ==
    /\ reading /\ pc["reader"] = "idle"
    /\ reading' = FALSE
    /\ finish' = "OK"
    /\ misuse' = IF finish = "none" THEN misuse ELSE "double_finish"
    /\ UNCHANGED <<kind, threadVars, flagVars, reqVars, inflight, wire,
                   onCancel, lifeVars, failed, pipelined>>

\* _ensure_registered, called by OnReadDone for the first request with an id;
\* the registry's mutex is waited for.
EnsureRegistered ==
    /\ pc["reader"] = "register"
    /\ hasId /\ ~registered => pc["stop"] = "idle"
    /\ registered' = (registered \/ hasId)
    /\ Goto("reader", "process")
    /\ UNCHANGED <<kind, ret, resp, flagVars, reqVars, grpcVars, freed,
                   histVars>>

\* StartRead(&_req): what was in _req is gone.
StartRead ==
    /\ pc["reader"] = "start_read"
    /\ reading' = TRUE
    /\ request' = "neither"
    /\ Goto("reader", "idle")
    /\ UNCHANGED <<kind, ret, resp, flagVars, hasId, nread, inflight, wire, finish,
                   onCancel, lifeVars, histVars>>

-----------------------------------------------------------------------------
(* Writes, OnCancel, Stop and OnDone.                                       *)

\* The write in flight ends and thread c enters OnWriteDone(ok).  A write
\* fails only when the stream is broken.
CompleteWrite(c, ok) ==
    /\ inflight /\ pc[c] = "idle"
    /\ ok \/ onCancel # "no"
    /\ inflight' = FALSE
    /\ failed' = (failed \/ ~ok)
    /\ Goto(c, IF ok THEN "written" ELSE "write_failed")
    /\ UNCHANGED <<kind, ret, resp, flagVars, reqVars, reading, wire, finish,
                   onCancel, lifeVars, pipelined, misuse>>

\* _is_writing.store(false); the label of a successful write differs between
\* the two reactors.
ClearWriting(c, l) ==
    /\ pc[c] \in {"written", "write_failed"}
    /\ writing' = FALSE
    /\ Goto(c, IF pc[c] = "written" THEN l ELSE "wd_cancel")
    /\ UNCHANGED <<kind, ret, resp, cancelled, queue, reqVars, grpcVars,
                   lifeVars, histVars>>

\* One step of a loop of try_dequeue by thread t at label l; m follows it.
Drain(t, l, m) ==
    /\ pc[t] = l
    /\ IF queue = <<>> THEN Goto(t, m) /\ UNCHANGED queue
                       ELSE queue' = Tail(queue) /\ UNCHANGED pc
    /\ UNCHANGED <<kind, ret, resp, cancelled, writing, reqVars, grpcVars,
                   lifeVars, histVars>>

SetCancelled(t, l, m) ==
    /\ pc[t] = l
    /\ cancelled' = TRUE
    /\ Goto(t, m)
    /\ UNCHANGED <<kind, ret, resp, writing, queue, reqVars, grpcVars,
                   lifeVars, histVars>>

\* The failed write: cancelled, drained, finished.
WriteFailedFinish(c) ==
    /\ pc[c] = "wd_finish"
    /\ Finish("ABORTED")
    /\ Goto(c, "idle")
    /\ UNCHANGED <<kind, ret, resp, flagVars, reqVars, lifeVars>>

WriteFailed(c) ==
    \/ SetCancelled(c, "wd_cancel", "wd_drain")
    \/ Drain(c, "wd_drain", "wd_finish")
    \/ WriteFailedFinish(c)

\* The client goes away or cancels; OnCancel is due.
Disconnect ==
    /\ onCancel = "no" /\ ~freed
    /\ onCancel' = "pending"
    /\ UNCHANGED <<kind, threadVars, flagVars, reqVars, reading, inflight,
                   wire, finish, lifeVars, histVars>>

OnCancelBegin ==
    /\ onCancel = "pending"
    /\ onCancel' = "delivered"
    /\ Goto("cancel", "cancel")
    /\ UNCHANGED <<kind, ret, resp, flagVars, reqVars, reading, inflight,
                   wire, finish, lifeVars, histVars>>

\* Stop and OnCancel clear _is_writing although the write goes on.
Unwrite(t) ==
    /\ pc[t] = "unwrite"
    /\ writing' = FALSE
    /\ Goto(t, "drain")
    /\ UNCHANGED <<kind, ret, resp, cancelled, queue, reqVars, grpcVars,
                   lifeVars, histVars>>

OnCancel ==
    \/ OnCancelBegin
    \/ SetCancelled("cancel", "cancel", "unwrite")
    \/ Unwrite("cancel")
    \/ Drain("cancel", "drain", "idle")

\* gRPC calls OnDone once Finish was called and nothing is outstanding; it
\* deletes the reactor, and the destructor unregisters under the mutex.
OnDone ==
    /\ finish # "none" /\ ~reading /\ ~inflight /\ onCancel # "pending"
    /\ \A t \in {"reader", "cancel"} \cup Callbacks : pc[t] = "idle"
    /\ registered => pc["stop"] = "idle"
    /\ ~freed /\ freed' = TRUE /\ registered' = FALSE
    /\ UNCHANGED <<kind, threadVars, flagVars, reqVars, grpcVars, histVars>>

Running == misuse = "none"

\* What gRPC does by itself on either stream, and what its peer may do.
Service ==
    \/ \E c \in Callbacks, ok \in BOOLEAN : CompleteWrite(c, ok)
    \/ Broken /\ ReadEnd
    \/ OnCancel \/ OnDone

ClientAct(l) ==
    \/ \E k \in {"param", "chunk", "neither"} : ReadRequest(k, l)
    \/ ~Broken /\ ReadEnd
    \/ Disconnect

\* Where each kind of thread can be.
Flushing == {"flush", "flush_cancelled", "flush_dequeue", "flush_store",
             "flush_start"}
Sending == {"send", "enqueue"} \cup Flushing
ReaderLabel == {"idle", "read_ok", "register", "process", "start_read"}
               \cup Sending
CallbackLabel == {"idle", "written", "write_failed", "wd_test", "wd_cancel",
                  "wd_drain", "wd_finish", "wd_drain_ok", "wd_finish_ok"}
                 \cup Flushing
CancelLabel == {"idle", "cancel", "unwrite", "drain", "try_cancel"}
TaskLabel == {"unused", "queued", "test_processing", "set_processing",
              "loop_cancelled", "loop_processing", "pop", "full", "segments",
              "clear", "ended"} \cup Sending
\* Where _send and _flush return to.
ReturnLabel == {"idle", "start_read", "loop_cancelled", "clear"}
Label == ReaderLabel \cup CallbackLabel \cup CancelLabel \cup TaskLabel

StreamType ==
    /\ kind \in {"embedding", "recognition"}
    /\ pc \in [Thread -> Label]
    /\ ret \in [Thread -> ReturnLabel]
    /\ resp \in [Thread -> Resp]
    /\ cancelled \in BOOLEAN /\ writing \in BOOLEAN /\ queue \in Seq(Resp)
    /\ request \in {"param", "chunk", "neither"}
    /\ hasId \in BOOLEAN /\ nread \in 0..MaxReqs
    /\ reading \in BOOLEAN /\ inflight \in BOOLEAN /\ wire \in Seq(Resp)
    /\ finish \in {"none", "OK", "ABORTED"}
    /\ onCancel \in {"no", "pending", "delivered"}
    /\ registered \in BOOLEAN /\ freed \in BOOLEAN
    /\ failed \in BOOLEAN /\ pipelined \in BOOLEAN
    /\ misuse \in {"none", "write_after_finish", "double_write",
                   "double_finish", "use_after_free"}
=============================================================================
