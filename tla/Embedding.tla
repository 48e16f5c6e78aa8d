------------------------------ MODULE Embedding ------------------------------
(***************************************************************************)
(* The Embedding stream (EmbeddingReactor, StopEmbedding): the client sends *)
(* a parameter, then chunks of a file; each request is processed inside     *)
(* OnReadDone and answered by one response, a vector index for a chunk.     *)
(***************************************************************************)
EXTENDS BidiReactor

CONSTANT
    MaxStops    \* bound: StopEmbedding calls for this task id

ASSUME MaxStopsAssumption == MaxStops \in Nat

VARIABLE
    stops       \* StopEmbedding calls that found the reactor

EmbeddingInit == stops = 0

-----------------------------------------------------------------------------
(* OnReadDone, after a successful read.                                     *)

\* A cancelled call is finished here and not read from again.
ReadTestCancelled ==
    /\ pc["reader"] = "read_ok"
    /\ IF cancelled THEN Finish("OK") /\ Goto("reader", "idle")
                    ELSE Goto("reader", "register")
                         /\ UNCHANGED <<grpcVars, histVars>>
    /\ UNCHANGED <<kind, ret, resp, flagVars, reqVars, lifeVars, stops>>

\* As ProcessRequest, with a chunk that cannot be indexed left unanswered.
ProcessSilentOnFailure ==
    /\ pc["reader"] = "process"
    /\ \/ /\ cancelled \/ request = "chunk"
          /\ Goto("reader", "start_read")
          /\ UNCHANGED <<ret, resp>>
       \/ /\ ~cancelled
          /\ CallSend("reader", [NoResp EXCEPT !.req = nread], "start_read")
    /\ UNCHANGED <<kind, flagVars, reqVars, grpcVars, lifeVars, histVars, stops>>

\* _process: whatever the request is (a parameter, kept and acknowledged; a
\* chunk, answered with its index or with the error of build_index or
\* serialize; neither), it gets one response.
ProcessRequest ==
    /\ pc["reader"] = "process"
    /\ \/ /\ cancelled
          /\ Goto("reader", "start_read")
          /\ UNCHANGED <<ret, resp>>
       \/ /\ ~cancelled
          /\ CallSend("reader", [NoResp EXCEPT !.req = nread], "start_read")
    /\ UNCHANGED <<kind, flagVars, reqVars, grpcVars, lifeVars, histVars, stops>>

EmbeddingOnReadDone ==
    \/ ReadTestCancelled
    \/ ProcessRequest
    \/ /\ EnsureRegistered \/ SendAndFlush("reader") \/ StartRead
       /\ UNCHANGED stops

-----------------------------------------------------------------------------
(* OnWriteDone.                                                             *)

\* A successful write of a cancelled call: drained and finished.
WrittenTestCancelled(c) ==
    /\ pc[c] = "wd_test"
    /\ Goto(c, IF cancelled THEN "wd_drain_ok" ELSE "flush")
    /\ UNCHANGED <<kind, ret, resp, flagVars, reqVars, grpcVars, lifeVars,
                   histVars>>

WrittenFinish(c) ==
    /\ pc[c] = "wd_finish_ok"
    /\ Finish("OK")
    /\ Goto(c, "idle")
    /\ UNCHANGED <<kind, ret, resp, flagVars, reqVars, lifeVars>>

EmbeddingOnWriteDone(c) ==
    /\ \/ ClearWriting(c, "wd_test")
       \/ WrittenTestCancelled(c)
       \/ Drain(c, "wd_drain_ok", "wd_finish_ok")
       \/ WrittenFinish(c)
       \/ WriteFailed(c)
       \/ SendAndFlush(c)
    /\ UNCHANGED stops

-----------------------------------------------------------------------------
(* StopEmbedding.                                                           *)

\* stop_embedding finds the reactor and calls Stop with the mutex held.
StopEmbedding ==
    /\ registered /\ pc["stop"] = "idle" /\ stops < MaxStops
    /\ Goto("stop", "cancel")
    /\ stops' = stops + 1
    /\ UNCHANGED <<kind, ret, resp, flagVars, reqVars, grpcVars, lifeVars,
                   histVars>>

\* As TryCancel, with the call not cancelled.
TryCancelForgotten ==
    /\ pc["stop"] = "try_cancel"
    /\ Goto("stop", "idle")
    /\ UNCHANGED <<kind, ret, resp, flagVars, reqVars, grpcVars, lifeVars,
                   histVars>>

\* _ctx->TryCancel(): without effect on a call that has ended.
TryCancel ==
    /\ pc["stop"] = "try_cancel"
    /\ \/ onCancel' = IF onCancel = "no" THEN "pending" ELSE onCancel
       \/ finish # "none" /\ UNCHANGED onCancel
    /\ Goto("stop", "idle")
    /\ UNCHANGED <<kind, ret, resp, flagVars, reqVars, reading, inflight,
                   wire, finish, lifeVars, histVars>>

Stop ==
    /\ \/ SetCancelled("stop", "cancel", "unwrite")
       \/ Unwrite("stop")
       \/ Drain("stop", "drain", "try_cancel")
       \/ TryCancel
    /\ UNCHANGED stops

-----------------------------------------------------------------------------
Embedding == kind = "embedding" /\ Running

\* The steps the server takes by itself.
EmbeddingServer ==
    \/ EmbeddingOnReadDone
    \/ \E c \in Callbacks : EmbeddingOnWriteDone(c)
    \/ Stop
    \/ Service /\ UNCHANGED stops

EmbeddingNext ==
    /\ Embedding
    /\ \/ EmbeddingServer
       \/ StopEmbedding
       \/ ClientAct("read_ok") /\ UNCHANGED stops

-----------------------------------------------------------------------------
(* Properties.                                                              *)

EmbeddingType == stops \in 0..MaxStops

Overtaken(s) == \E i, j \in 1..Len(s) : i < j /\ s[i].req >= s[j].req

\* A client that waits for each answer before it sends the next request gets
\* them in order and once each.  One that does not wait may see an answer
\* overtake another: two threads in _flush dequeue in one order and call
\* StartWrite in the other.
LockstepClientIsOrdered ==
    kind = "embedding" /\ ~pipelined => ~Overtaken(wire)

\* A stream that was not cancelled has an answer for every request it has
\* processed, on the wire, in the queue or in the hands of a thread about to
\* write it: the racing threads in _flush lose none.
EveryRequestIsAnswered ==
    kind = "embedding" /\ Running /\ ~cancelled
      /\ pc["reader"] \in {"idle", "start_read"} =>
        \A n \in 1..nread :
            \/ \E i \in 1..Len(wire) : wire[i].req = n
            \/ \E i \in 1..Len(queue) : queue[i].req = n
            \/ \E t \in Thread : /\ pc[t] \in {"flush_store", "flush_start"}
                                 /\ resp[t].req = n
=============================================================================
