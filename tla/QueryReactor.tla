---------------------------- MODULE QueryReactor ----------------------------
(***************************************************************************)
(* One streaming Query RPC of the core server, from the moment the          *)
(* constructor of QueryReactor has returned to the deletion of the reactor. *)
(*                                                                          *)
(* Four kinds of thread work on the reactor, with two atomics and a queue   *)
(* and no lock between them:                                                *)
(*   "task"     the pool thread that runs _process or _processRemote;       *)
(*   Callbacks  the gRPC threads that run OnWriteDone;                      *)
(*   "done"     the gRPC thread that runs OnDone;                           *)
(*   the thread of StopAnswer, which calls Stop under the mutex of          *)
(*   query_reactor_mgr (stopPc), and the one of OnCancel.                   *)
(* Every load, store, enqueue and dequeue of shared state is a step.        *)
(*                                                                          *)
(* gRPC is modelled by its contract as the code uses it: one write in       *)
(* flight at a time, none once Finish was called, Finish once, OnDone when  *)
(* every other reaction has returned.  A call outside that contract, or a   *)
(* use of the deleted reactor, sets misuse and ends the behaviour: the      *)
(* process aborts, or nothing more can be said of it.                       *)
(***************************************************************************)
EXTENDS Naturals, Sequences

CONSTANTS
    Callbacks,  \* gRPC threads that may be inside OnWriteDone at one time
    MaxPieces,  \* bound: pieces the model or the remote API produces
    MaxStops    \* bound: StopAnswer calls for this session

ASSUME CallbacksAssumption == {"task", "done"} \cap Callbacks = {}
ASSUME BoundsAssumption == MaxPieces \in Nat /\ MaxStops \in Nat

Thread == {"task", "done"} \cup Callbacks

NoMsg     == 0   \* _prev_msg_id before the first _set_msg_id
ClientMsg == 1   \* the id the request carries
AnswerMsg == 2   \* the uuid generated for the answer

\* A QueryResp: a piece of text (0 is the empty string), is_finished,
\* error_code and msg_id.
Resp == [piece : 0..MaxPieces, fin : BOOLEAN,
         ec : {"OK", "LLM_FAIL", "CALLER_NOT_EXIST", "SQLITE_EXEC_FAIL"},
         msg : {ClientMsg, AnswerMsg}]

\* A row of the table message, without session and time.
Row == [id : {ClientMsg, AnswerMsg}, role : {"user", "assistant"},
        prev : {NoMsg, ClientMsg, AnswerMsg}, content : Seq(1..MaxPieces)]

VARIABLES
    pc,          \* where each thread is
    ret,         \* where _send returns to in the task
    resp,        \* each thread's local response
    cancelled,   \* _is_cancelled
    writing,     \* _is_writing
    queue,       \* _w_queue
    answer,      \* _answer
    prev_msg_id, \* _prev_msg_id
    curr_msg_id, \* _curr_msg_id
    pipeline,    \* _pipeline, after route
    left,        \* pieces still to be produced
    ec,          \* the result of loop_query
    rows,        \* messages of this query stored in the database
    bound,       \* the RPC handler has returned the reactor to gRPC
    inflight,    \* a write was started and its OnWriteDone was not called
    wire,        \* responses handed to gRPC, in order
    finish,      \* which Finish was called
    onCancel,    \* the OnCancel reaction: "no", "pending" or "delivered"
    registered,  \* query_reactor_mgr maps the session to this reactor
    freed,       \* the reactor was deleted
    stopPc,      \* the StopAnswer thread; not "idle": it holds the mutex
    stops,       \* StopAnswer calls so far
    stopped,     \* history: some Stop returned
    lateWriters, \* history: threads that started a write after that
    failed,      \* history: a write failed
    misuse       \* the first breach of the gRPC contract or of memory

threadVars == <<pc, ret, resp>>
flagVars   == <<cancelled, writing, queue>>
msgVars    == <<answer, prev_msg_id, curr_msg_id, rows>>
genVars    == <<pipeline, left, ec>>
grpcVars   == <<bound, inflight, wire, finish, onCancel>>
lifeVars   == <<registered, freed, stopPc, stops>>
histVars   == <<stopped, lateWriters, failed, misuse>>
vars == <<threadVars, flagVars, msgVars, genVars, grpcVars, lifeVars, histVars>>

-----------------------------------------------------------------------------
(* The constructor: parameters copied, msg_id set, the prompt routed, the   *)
(* reactor registered and the task queued.  gRPC is not yet told of it.     *)
Init ==
    /\ pc = [t \in Thread |-> IF t = "task" THEN "insert" ELSE "idle"]
    /\ ret = "end"
    /\ resp = [t \in Thread |-> [piece |-> 0, fin |-> FALSE, ec |-> "OK",
                                 msg |-> ClientMsg]]
    /\ cancelled = FALSE /\ writing = FALSE /\ queue = <<>>
    /\ answer = <<>> /\ rows = {}
    /\ prev_msg_id = NoMsg /\ curr_msg_id = ClientMsg
    /\ pipeline \in {"local", "remote"} /\ left = MaxPieces /\ ec = "OK"
    /\ bound = FALSE /\ inflight = FALSE /\ wire = <<>>
    /\ finish = "none" /\ onCancel = "no"
    /\ registered = TRUE /\ freed = FALSE /\ stopPc = "idle" /\ stops = 0
    /\ stopped = FALSE /\ lateWriters = {} /\ failed = FALSE
    /\ misuse = "none"

\* Control of thread t moves to label l.
Goto(t, l) == pc' = [pc EXCEPT ![t] = l]

\* The label that follows a _send or a _flush of thread t.
Return(t) == IF t = "task" THEN ret
             ELSE IF t = "done" THEN "leaked" ELSE "idle"

\* Thread t calls _send(text p, is_finished f, error code e); l follows.
CallSend(t, p, f, e, l) ==
    /\ resp' = [resp EXCEPT ![t] =
                  [piece |-> p, fin |-> f, ec |-> e, msg |-> curr_msg_id]]
    /\ ret' = IF t = "task" THEN l ELSE ret
    /\ Goto(t, "send")

\* Finish(status): gRPC accepts it once.
Finish(status) ==
    /\ finish' = status
    /\ misuse' = IF finish = "none" THEN misuse ELSE "double_finish"
    /\ UNCHANGED <<bound, inflight, wire, onCancel>>

-----------------------------------------------------------------------------
(* _send and _flush, run by the task, by OnWriteDone and by OnDone.         *)

SendIfNotCancelled(t) ==
    /\ pc[t] = "send"
    /\ Goto(t, IF cancelled THEN Return(t) ELSE "enqueue")
    /\ UNCHANGED <<ret, resp, flagVars, msgVars, genVars, grpcVars, lifeVars,
                   histVars>>

\* As Enqueue, with the _flush forgotten.
EnqueueOnly(t) ==
    /\ pc[t] = "enqueue"
    /\ queue' = Append(queue, resp[t])
    /\ Goto(t, Return(t))
    /\ UNCHANGED <<ret, resp, cancelled, writing, msgVars, genVars, grpcVars,
                   lifeVars, histVars>>

Enqueue(t) ==
    /\ pc[t] = "enqueue"
    /\ queue' = Append(queue, resp[t])
    /\ Goto(t, "flush")
    /\ UNCHANGED <<ret, resp, cancelled, writing, msgVars, genVars, grpcVars,
                   lifeVars, histVars>>

FlushIfNotWriting(t) ==
    /\ pc[t] = "flush"
    /\ Goto(t, IF writing THEN Return(t) ELSE "flush_cancelled")
    /\ UNCHANGED <<ret, resp, flagVars, msgVars, genVars, grpcVars, lifeVars,
                   histVars>>

\* As FlushIfNotCancelled, with the test dropped.
FlushAnyway(t) ==
    /\ pc[t] = "flush_cancelled"
    /\ Goto(t, "flush_dequeue")
    /\ UNCHANGED <<ret, resp, flagVars, msgVars, genVars, grpcVars, lifeVars,
                   histVars>>

FlushIfNotCancelled(t) ==
    /\ pc[t] = "flush_cancelled"
    /\ Goto(t, IF cancelled THEN Return(t) ELSE "flush_dequeue")
    /\ UNCHANGED <<ret, resp, flagVars, msgVars, genVars, grpcVars, lifeVars,
                   histVars>>

FlushDequeue(t) ==
    /\ pc[t] = "flush_dequeue"
    /\ IF queue = <<>>
         THEN Goto(t, Return(t)) /\ UNCHANGED <<resp, queue>>
         ELSE /\ resp' = [resp EXCEPT ![t] = Head(queue)]
              /\ queue' = Tail(queue)
              /\ Goto(t, "flush_store")
    /\ UNCHANGED <<ret, cancelled, writing, msgVars, genVars, grpcVars,
                   lifeVars, histVars>>

FlushStore(t) ==
    /\ pc[t] = "flush_store"
    /\ writing' = TRUE
    /\ Goto(t, "flush_start")
    /\ UNCHANGED <<ret, resp, cancelled, queue, msgVars, genVars, grpcVars,
                   lifeVars, histVars>>

\* StartWrite(&resp).  Before gRPC knows the reactor it only keeps the
\* pointer, which outlives the local resp it points to.
WriteMisuse == IF ~bound THEN "dangling_write"
               ELSE IF finish # "none" THEN "write_after_finish"
               ELSE IF inflight THEN "double_write" ELSE "none"

FlushStart(t) ==
    /\ pc[t] = "flush_start"
    /\ misuse' = WriteMisuse
    /\ inflight' = TRUE
    /\ wire' = IF WriteMisuse = "none" THEN Append(wire, resp[t]) ELSE wire
    /\ lateWriters' = IF stopped THEN lateWriters \cup {t} ELSE lateWriters
    /\ Goto(t, Return(t))
    /\ UNCHANGED <<ret, resp, flagVars, msgVars, genVars, bound, finish,
                   onCancel, lifeVars, stopped, failed>>

SendAndFlush(t) ==
    \/ SendIfNotCancelled(t)
    \/ Enqueue(t)
    \/ FlushIfNotWriting(t)
    \/ FlushIfNotCancelled(t)
    \/ FlushDequeue(t)
    \/ FlushStore(t)
    \/ FlushStart(t)

-----------------------------------------------------------------------------
(* The task: _process and _processRemote differ in the source of pieces.    *)

UserRow == [id |-> curr_msg_id, role |-> "user", prev |-> prev_msg_id,
            content |-> <<>>]

\* As RecordQuery, with _prev_msg_id not advanced.
RecordQueryKeepsPrev ==
    /\ pc["task"] = "insert"
    /\ rows' = rows \cup {UserRow}
    /\ curr_msg_id' = AnswerMsg
    /\ Goto("task", "start")
    /\ UNCHANGED <<ret, resp, flagVars, answer, prev_msg_id, genVars, grpcVars,
                   lifeVars, histVars>>

\* The insert of the user's message succeeds, and _set_msg_id follows it
\* before anything is sent.
RecordQuery ==
    /\ pc["task"] = "insert"
    /\ rows' = rows \cup {UserRow}
    /\ prev_msg_id' = curr_msg_id
    /\ curr_msg_id' = AnswerMsg
    /\ Goto("task", "start")
    /\ UNCHANGED <<ret, resp, flagVars, answer, genVars, grpcVars, lifeVars,
                   histVars>>

\* The insert fails: an error is sent and the task returns without Finish.
RecordQueryFails ==
    /\ pc["task"] = "insert"
    /\ CallSend("task", 0, TRUE, "SQLITE_EXEC_FAIL", "end")
    /\ UNCHANGED <<flagVars, msgVars, genVars, grpcVars, lifeVars, histVars>>

\* llm_mgr::loop_query up to the generation loop: no context, prefill
\* failure; no tokens (or no such model) is reported as OK.
LocalStart ==
    /\ pc["task"] = "start"
    /\ \/ Goto("task", "loop") /\ UNCHANGED ec
       \/ Goto("task", "after") /\ ec' \in {"OK", "LLM_FAIL"}
    /\ UNCHANGED <<ret, resp, flagVars, msgVars, pipeline, left, grpcVars,
                   lifeVars, histVars>>

\* caller_mgr::loop_query: an unknown caller is refused; every later failure
\* of the HTTP stream is only logged.
RemoteStart ==
    /\ pc["task"] = "start"
    /\ \/ Goto("task", "loop") /\ UNCHANGED ec
       \/ Goto("task", "after") /\ ec' = "CALLER_NOT_EXIST"
    /\ UNCHANGED <<ret, resp, flagVars, msgVars, pipeline, left, grpcVars,
                   lifeVars, histVars>>

\* The argument of the callback, in the task's local response.
Output(p) == [piece |-> p, fin |-> FALSE, ec |-> "OK", msg |-> curr_msg_id]

\* As Produce, without the end of the text.
ProduceMore ==
    /\ pc["task"] = "loop"
    /\ left' = left - 1
    /\ resp' = [resp EXCEPT !["task"] = Output(MaxPieces + 1 - left)]
    /\ Goto("task", "callback")
    /\ UNCHANGED <<ret, flagVars, msgVars, pipeline, ec, grpcVars, lifeVars,
                   histVars>>

\* The next piece.  It may be the empty string, any number of times: a token
\* without text, a delta without content.
Produce ==
    /\ pc["task"] = "loop"
    /\ \/ /\ resp' = [resp EXCEPT !["task"] = Output(0)]
          /\ UNCHANGED left
       \/ /\ left > 0 /\ left' = left - 1
          /\ resp' = [resp EXCEPT !["task"] = Output(MaxPieces + 1 - left)]
    /\ Goto("task", "callback")
    /\ UNCHANGED <<ret, flagVars, msgVars, pipeline, ec, grpcVars, lifeVars,
                   histVars>>

\* End of generation, a sampling or decoding error, the end of the stream.
EndOfPieces ==
    /\ pc["task"] = "loop"
    /\ Goto("task", "after")
    /\ UNCHANGED <<ret, resp, flagVars, msgVars, genVars, grpcVars, lifeVars,
                   histVars>>

\* As Callback, with the piece sent and not kept.
CallbackForgetsAnswer ==
    /\ pc["task"] = "callback"
    /\ \/ /\ cancelled
          /\ CallSend("task", resp["task"].piece, TRUE, "OK", "finish_stopped")
       \/ /\ ~cancelled /\ resp["task"].piece = 0
          /\ Goto("task", "loop")
          /\ UNCHANGED <<ret, resp>>
       \/ /\ ~cancelled /\ resp["task"].piece # 0
          /\ CallSend("task", resp["task"].piece, FALSE, "OK", "loop")
    /\ UNCHANGED <<flagVars, msgVars, genVars, grpcVars, lifeVars, histVars>>

\* As Callback, with the tests of the empty piece and of _is_cancelled swapped.
CallbackTestsEmptyFirst ==
    /\ pc["task"] = "callback"
    /\ \/ /\ resp["task"].piece = 0
          /\ Goto("task", "loop")
          /\ UNCHANGED <<ret, resp, answer>>
       \/ /\ cancelled /\ resp["task"].piece # 0
          /\ CallSend("task", resp["task"].piece, TRUE, "OK", "finish_stopped")
          /\ UNCHANGED answer
       \/ /\ ~cancelled /\ resp["task"].piece # 0
          /\ answer' = Append(answer, resp["task"].piece)
          /\ CallSend("task", resp["task"].piece, FALSE, "OK", "loop")
    /\ UNCHANGED <<flagVars, prev_msg_id, curr_msg_id, rows, genVars,
                   grpcVars, lifeVars, histVars>>

\* The callback of loop_query; watch_dog::watch never objects.
Callback ==
    /\ pc["task"] = "callback"
    /\ \/ /\ cancelled
          /\ CallSend("task", resp["task"].piece, TRUE, "OK", "finish_stopped")
          /\ UNCHANGED answer
       \/ /\ ~cancelled /\ resp["task"].piece = 0
          /\ Goto("task", "loop")
          /\ UNCHANGED <<ret, resp, answer>>
       \/ /\ ~cancelled /\ resp["task"].piece # 0
          /\ answer' = Append(answer, resp["task"].piece)
          /\ CallSend("task", resp["task"].piece, FALSE, "OK", "loop")
    /\ UNCHANGED <<flagVars, prev_msg_id, curr_msg_id, rows, genVars,
                   grpcVars, lifeVars, histVars>>

\* As FinishStopped, with the stop forgotten: the loop goes on.
FinishAndGoOn ==
    /\ pc["task"] = "finish_stopped"
    /\ Finish("stopped")
    /\ Goto("task", "loop")
    /\ UNCHANGED <<ret, resp, flagVars, msgVars, genVars, lifeVars, stopped,
                   lateWriters, failed>>

FinishStopped ==
    /\ pc["task"] = "finish_stopped"
    /\ Finish("stopped")
    /\ Goto("task", "after")
    /\ UNCHANGED <<ret, resp, flagVars, msgVars, genVars, lifeVars, stopped,
                   lateWriters, failed>>

\* As AfterLoop, with the Finish that should follow the final words missing.
AfterLoopWithoutFinish ==
    /\ pc["task"] = "after"
    /\ IF cancelled
         THEN Goto("task", "end") /\ UNCHANGED <<ret, resp>>
         ELSE CallSend("task", 0, TRUE, ec, "end")
    /\ UNCHANGED <<flagVars, msgVars, genVars, grpcVars, lifeVars, histVars>>

AfterLoop ==
    /\ pc["task"] = "after"
    /\ IF cancelled
         THEN Goto("task", "end") /\ UNCHANGED <<ret, resp>>
         ELSE CallSend("task", 0, TRUE, ec, "finish_completed")
    /\ UNCHANGED <<flagVars, msgVars, genVars, grpcVars, lifeVars, histVars>>

FinishCompleted ==
    /\ pc["task"] = "finish_completed"
    /\ Finish("completed")
    /\ Goto("task", "end")
    /\ UNCHANGED <<ret, resp, flagVars, msgVars, genVars, lifeVars, stopped,
                   lateWriters, failed>>

\* The steps of the task that use the reactor.
TaskOnReactor ==
    \/ RecordQuery \/ RecordQueryFails
    \/ Callback \/ FinishStopped \/ AfterLoop \/ FinishCompleted
    \/ SendAndFlush("task")

Process ==
    /\ pipeline = "local"
    /\ \/ ~freed /\ (TaskOnReactor \/ LocalStart)
       \/ Produce \/ EndOfPieces

ProcessRemote ==
    /\ pipeline = "remote"
    /\ \/ ~freed /\ (TaskOnReactor \/ RemoteStart)
       \/ Produce \/ EndOfPieces

\* The task goes on with a reactor that OnDone has deleted.
UseAfterFree ==
    /\ freed /\ pc["task"] \notin {"loop", "end"}
    /\ misuse' = "use_after_free"
    /\ UNCHANGED <<threadVars, flagVars, msgVars, genVars, grpcVars, lifeVars,
                   stopped, lateWriters, failed>>

-----------------------------------------------------------------------------
(* Reactions.                                                               *)

\* The handler returns the reactor: gRPC binds it to the call.
Bind ==
    /\ ~bound /\ bound' = TRUE
    /\ UNCHANGED <<threadVars, flagVars, msgVars, genVars, inflight, wire,
                   finish, onCancel, lifeVars, histVars>>

\* The client goes away or cancels; OnCancel is due.
Disconnect ==
    /\ bound /\ onCancel = "no" /\ pc["done"] = "idle"
    /\ onCancel' = "pending"
    /\ UNCHANGED <<threadVars, flagVars, msgVars, genVars, bound, inflight,
                   wire, finish, lifeVars, histVars>>

OnCancel ==
    /\ onCancel = "pending"
    /\ onCancel' = "delivered"
    /\ cancelled' = TRUE
    /\ UNCHANGED <<threadVars, writing, queue, msgVars, genVars, bound,
                   inflight, wire, finish, lifeVars, histVars>>

\* The write in flight ends and thread c enters OnWriteDone(ok).  A write
\* fails only when the stream is broken.
CompleteWrite(c, ok) ==
    /\ bound /\ inflight /\ pc[c] = "idle"
    /\ ok \/ onCancel # "no"
    /\ inflight' = FALSE
    /\ failed' = (failed \/ ~ok)
    /\ Goto(c, IF ok THEN "written" ELSE "write_failed")
    /\ UNCHANGED <<ret, resp, flagVars, msgVars, genVars, bound, wire, finish,
                   onCancel, lifeVars, stopped, lateWriters, misuse>>

ClearWriting(c) ==
    /\ pc[c] \in {"written", "write_failed"}
    /\ writing' = FALSE
    /\ Goto(c, IF pc[c] = "written" THEN "flush" ELSE "wd_cancel")
    /\ UNCHANGED <<ret, resp, cancelled, queue, msgVars, genVars, grpcVars,
                   lifeVars, histVars>>

WriteFailedCancel(c) ==
    /\ pc[c] = "wd_cancel"
    /\ cancelled' = TRUE
    /\ Goto(c, "wd_finish")
    /\ UNCHANGED <<ret, resp, writing, queue, msgVars, genVars, grpcVars,
                   lifeVars, histVars>>

WriteFailedFinish(c) ==
    /\ pc[c] = "wd_finish"
    /\ Finish("aborted")
    /\ Goto(c, "idle")
    /\ UNCHANGED <<ret, resp, flagVars, msgVars, genVars, lifeVars, stopped,
                   lateWriters, failed>>

OnWriteDone(c) ==
    \/ ClearWriting(c) \/ WriteFailedCancel(c) \/ WriteFailedFinish(c)
    \/ SendAndFlush(c)

\* gRPC calls OnDone once Finish was called and nothing is outstanding.
DoneReady ==
    /\ bound /\ finish # "none" /\ ~inflight /\ onCancel # "pending"
    /\ pc["done"] = "idle" /\ \A c \in Callbacks : pc[c] = "idle"

AnswerRow == [id |-> curr_msg_id, role |-> "assistant", prev |-> prev_msg_id,
              content |-> answer]

OnDoneStores ==
    /\ DoneReady
    /\ rows' = rows \cup {AnswerRow}
    /\ Goto("done", "delete")
    /\ UNCHANGED <<ret, resp, flagVars, answer, prev_msg_id, curr_msg_id,
                   genVars, grpcVars, lifeVars, histVars>>

\* The insert of the answer fails: an error is sent on the finished call and
\* the reactor is kept for ever.
OnDoneFails ==
    /\ DoneReady
    /\ CallSend("done", 0, TRUE, "SQLITE_EXEC_FAIL", "leaked")
    /\ UNCHANGED <<flagVars, msgVars, genVars, grpcVars, lifeVars, histVars>>

\* As Delete, with unregister_query not waiting for the mutex.
DeleteWithoutLock ==
    /\ pc["done"] = "delete"
    /\ registered' = FALSE /\ freed' = TRUE
    /\ Goto("done", "gone")
    /\ UNCHANGED <<ret, resp, flagVars, msgVars, genVars, grpcVars, stopPc,
                   stops, histVars>>

\* delete this: the destructor unregisters under the mutex before the
\* members go.
Delete ==
    /\ pc["done"] = "delete" /\ stopPc = "idle"
    /\ registered' = FALSE /\ freed' = TRUE
    /\ Goto("done", "gone")
    /\ UNCHANGED <<ret, resp, flagVars, msgVars, genVars, grpcVars, stopPc,
                   stops, histVars>>

OnDone == OnDoneStores \/ OnDoneFails \/ Delete \/ SendAndFlush("done")

-----------------------------------------------------------------------------
(* query_reactor_mgr and Stop.                                              *)

\* A second Query of the session registers over this one, or the destructor
\* of an earlier one erases the session's entry.
SameSessionQuery ==
    /\ registered /\ stopPc = "idle"
    /\ registered' = FALSE
    /\ UNCHANGED <<threadVars, flagVars, msgVars, genVars, grpcVars, freed,
                   stopPc, stops, histVars>>

\* stop_query finds the reactor and calls Stop with the mutex held.
StopBegin ==
    /\ registered /\ stopPc = "idle" /\ stops < MaxStops
    /\ stopPc' = "cancel" /\ stops' = stops + 1
    /\ UNCHANGED <<threadVars, flagVars, msgVars, genVars, grpcVars,
                   registered, freed, histVars>>

StopCancel ==
    /\ stopPc = "cancel" /\ stopPc' = "unwrite"
    /\ cancelled' = TRUE
    /\ UNCHANGED <<threadVars, writing, queue, msgVars, genVars, grpcVars,
                   registered, freed, stops, histVars>>

StopUnwrite ==
    /\ stopPc = "unwrite" /\ stopPc' = "drain"
    /\ writing' = FALSE
    /\ UNCHANGED <<threadVars, cancelled, queue, msgVars, genVars, grpcVars,
                   registered, freed, stops, histVars>>

StopDrain ==
    /\ stopPc = "drain"
    /\ IF queue = <<>>
         THEN stopPc' = "idle" /\ stopped' = TRUE /\ UNCHANGED queue
         ELSE queue' = Tail(queue) /\ UNCHANGED <<stopPc, stopped>>
    /\ UNCHANGED <<threadVars, cancelled, writing, msgVars, genVars, grpcVars,
                   registered, freed, stops, lateWriters, failed, misuse>>

Stop == StopCancel \/ StopUnwrite \/ StopDrain

-----------------------------------------------------------------------------
Running == misuse = "none"

Task == Running /\ (Process \/ ProcessRemote \/ UseAfterFree)

Next ==
    \/ Task
    \/ /\ Running
       /\ \/ Bind \/ Disconnect \/ OnCancel
          \/ \E c \in Callbacks :
                OnWriteDone(c) \/ \E ok \in BOOLEAN : CompleteWrite(c, ok)
          \/ OnDone
          \/ SameSessionQuery \/ StopBegin \/ Stop

\* Threads of the pool and of gRPC are scheduled; a bound call's write ends
\* and its reactions are delivered.  Nothing obliges a client to stop or go.
Fairness ==
    /\ WF_vars(Task)
    /\ WF_vars(Running /\ Bind)
    /\ WF_vars(Running /\ OnCancel)
    /\ WF_vars(Running /\ OnDone)
    /\ WF_vars(Running /\ Stop)
    /\ \A c \in Callbacks : WF_vars(Running /\ OnWriteDone(c))
    /\ WF_vars(Running /\ \E c \in Callbacks, ok \in BOOLEAN :
                  CompleteWrite(c, ok))

Spec == Init /\ [][Next]_vars
FairSpec == Spec /\ Fairness

-----------------------------------------------------------------------------
(* Properties.                                                              *)

Label == {"idle", "insert", "start", "loop", "callback", "finish_stopped",
          "after", "finish_completed", "end", "send", "enqueue", "flush",
          "flush_cancelled", "flush_dequeue", "flush_store", "flush_start",
          "written", "write_failed", "wd_cancel", "wd_finish", "delete",
          "leaked", "gone"}

ThreadType ==
    /\ pc \in [Thread -> Label]
    /\ ret \in {"end", "loop", "finish_stopped", "finish_completed"}
    /\ resp \in [Thread -> Resp]

FlagType == cancelled \in BOOLEAN /\ writing \in BOOLEAN /\ queue \in Seq(Resp)

MsgType ==
    /\ answer \in Seq(1..MaxPieces)
    /\ prev_msg_id \in {NoMsg, ClientMsg, AnswerMsg}
    /\ curr_msg_id \in {ClientMsg, AnswerMsg}
    /\ rows \subseteq Row

GenType ==
    /\ pipeline \in {"local", "remote"}
    /\ left \in 0..MaxPieces
    /\ ec \in {"OK", "LLM_FAIL", "CALLER_NOT_EXIST"}

GrpcType ==
    /\ bound \in BOOLEAN /\ inflight \in BOOLEAN /\ wire \in Seq(Resp)
    /\ finish \in {"none", "stopped", "completed", "aborted"}
    /\ onCancel \in {"no", "pending", "delivered"}

LifeType ==
    /\ registered \in BOOLEAN /\ freed \in BOOLEAN
    /\ stopPc \in {"idle", "cancel", "unwrite", "drain"}
    /\ stops \in 0..MaxStops

HistType ==
    /\ stopped \in BOOLEAN /\ lateWriters \subseteq Thread
    /\ failed \in BOOLEAN
    /\ misuse \in {"none", "dangling_write", "write_after_finish",
                   "double_write", "double_finish", "use_after_free"}

\* Every variable has its type.
TypeOK == /\ ThreadType /\ FlagType /\ MsgType /\ GenType /\ GrpcType
          /\ LifeType /\ HistType

\* Stop never works on a deleted reactor: stop_query holds the mutex that the
\* destructor needs before it may free anything.
StopHoldsLiveReactor == stopPc # "idle" => ~freed

\* A thread at one of these labels looks at the queue, has a response in hand
\* whose OnWriteDone will, or is about to cancel the call.
Flushing == {"flush", "flush_cancelled", "flush_dequeue", "flush_store",
             "flush_start", "written", "write_failed", "wd_cancel"}

\* The unlocked test of _is_writing loses no wake-up: while a response is
\* queued on a call that was not cancelled, a write is in flight or a thread
\* is on its way to the queue.
NoStrandedResponse ==
    Running /\ queue # <<>> /\ ~cancelled =>
        inflight \/ \E t \in Thread : pc[t] \in Flushing

\* After Stop has returned a thread starts at most one more write: the one
\* whose test of _is_cancelled came before Stop.
AtMostOneLateWrite ==
    \A t \in lateWriters :
        pc[t] \notin {"flush_dequeue", "flush_store", "flush_start"}

\* A task that has ended has finished the call, unless the call was cancelled
\* or the question could not be stored.
UnfinishedOnlyIfCancelledOrUnstored ==
    pc["task"] = "end" /\ finish = "none" =>
        cancelled \/ ~ \E r \in rows : r.role = "user"

\* Without a failed write the reactor is finished, and hence deleted, under a
\* running task only in one place: the cancelled callback has called Finish
\* and the task has still to test _is_cancelled.
FinishedUnderTaskOnlyAfterStop ==
    finish # "none" /\ ~failed =>
        \/ pc["task"] = "end"
        \/ pc["task"] = "after" /\ cancelled

\* Finish is called twice only when a write has failed.
DoubleFinishNeedsFailedWrite == misuse = "double_finish" => failed

\* The stored answer has every piece that was streamed, under the message id
\* the client was given with it.
StoredAnswerCoversStream ==
    \A r \in rows : r.role = "assistant" =>
        \A i \in 1..Len(wire) : wire[i].piece # 0 =>
            /\ wire[i].msg = r.id
            /\ \E j \in 1..Len(r.content) : r.content[j] = wire[i].piece

\* A stored answer names the stored question as its predecessor.
AnswerFollowsQuestion ==
    \A q, a \in rows : q.role = "user" /\ a.role = "assistant" =>
        a.prev = q.id /\ a.id # q.id

\* Once cancelled, by OnCancel, Stop or a failed write, the task ends, however
\* long the model would go on and even if all it produces is empty.
CancelEndsTask == cancelled ~> (pc["task"] = "end" \/ ~Running)

\* A query whose question was stored is finished, unless it is cancelled,
\* provided the model or the remote stream comes to an end.
StoredQueryFinishes ==
    ~[]<>(pc["task"] = "callback") =>
        ((rows # {}) ~> (finish # "none" \/ cancelled \/ ~Running))

\* "send final words" (the end of _process): a call that ends with OK and was
\* not cancelled has handed its is_finished response to gRPC by then; after
\* Finish it is too late.
FinalWordsBeforeFinish ==
    finish = "completed" /\ ~cancelled => \E i \in 1..Len(wire) : wire[i].fin

=============================================================================
