-------------------------- MODULE BidiStreamsProofs --------------------------
(***************************************************************************)
(* Proofs about the embedding stream and the recognition stream, for any    *)
(* number of requests, gRPC threads, pool tasks and Stop RPCs and any size  *)
(* of the audio buffer.                                                     *)
(***************************************************************************)
EXTENDS BidiStreams, FiniteSetTheorems, SequenceTheorems, TLAPS

\* The types, in the groups in which steps change or leave the variables.
ThreadType == /\ pc \in [Thread -> Label] /\ ret \in [Thread -> ReturnLabel]
              /\ resp \in [Thread -> Resp]
FlagType == cancelled \in BOOLEAN /\ writing \in BOOLEAN /\ queue \in Seq(Resp)
ReqType == /\ request \in {"param", "chunk", "neither"} /\ hasId \in BOOLEAN
           /\ nread \in 0..MaxReqs
GrpcType == /\ reading \in BOOLEAN /\ inflight \in BOOLEAN /\ wire \in Seq(Resp)
            /\ finish \in {"none", "OK", "ABORTED"}
            /\ onCancel \in {"no", "pending", "delivered"}
LifeType == registered \in BOOLEAN /\ freed \in BOOLEAN
HistType == /\ failed \in BOOLEAN /\ pipelined \in BOOLEAN
            /\ misuse \in {"none", "write_after_finish", "double_write", "double_finish",
                           "use_after_free"}
BaseType ==
    /\ kind \in {"embedding", "recognition"}
    /\ ThreadType /\ FlagType /\ ReqType /\ GrpcType /\ LifeType /\ HistType
    /\ EmbeddingType /\ RecognitionType

\* Threads stay on their own code, that of the stream's kind, and _send and
\* _flush return there.
PlaceOf(t) ==
    /\ t = "reader" => /\ pc[t] \in ReaderLabel /\ ret[t] \in {"idle", "start_read"}
                       /\ kind = "recognition" => pc[t] # "read_ok"
    /\ t \in Callbacks =>
          /\ pc[t] \in CallbackLabel /\ ret[t] = "idle"
          /\ kind = "recognition" => pc[t] \notin {"wd_test", "wd_drain_ok", "wd_finish_ok"}
    /\ t \in {"cancel", "stop"} => pc[t] \in CancelLabel
    /\ t \in Tasks => /\ pc[t] \in TaskLabel
                      /\ pc[t] \in Sending => ret[t] \in {"loop_cancelled", "clear"}
                      /\ kind = "embedding" => pc[t] = "unused"
PlaceInv == \A t \in Thread : PlaceOf(t)

\* A request was read and has not been processed.
Unprocessed == pc["reader"] \in {"read_ok", "register", "process"}

\* There is a task for every chunk: no more tasks were queued than requests
\* processed.
UsedTasks == {t \in Tasks : pc[t] # "unused"}
CountInv == /\ nread = 0 => ~Unprocessed
            /\ Cardinality(UsedTasks) <= IF Unprocessed THEN nread - 1 ELSE nread

\* Whoever drains the queue, or finishes a stream for another reason than the
\* end of the reads, comes after the cause.
Cause == IF kind = "embedding" THEN cancelled ELSE failed
Draining == {"unwrite", "drain", "try_cancel", "wd_drain", "wd_finish", "wd_drain_ok", "wd_finish_ok"}
FinishInv ==
    /\ \A t \in Thread : pc[t] \in Draining => cancelled
    /\ \A c \in Callbacks : pc[c] \in {"write_failed", "wd_cancel", "wd_drain", "wd_finish"} => failed
    /\ finish # "none" /\ ~Cause => ~reading /\ pc["reader"] = "idle"
    /\ DoubleFinishHasCause

\* Threads that have a response of their own.
Holding == {"send", "enqueue", "flush_store", "flush_start"}
HoldInv == \A t \in Thread : pc[t] \notin Holding => resp[t] = NoResp

\* A request is answered, or its answer is on its way.
Answered(n) ==
    \/ \E i \in 1..Len(wire) : wire[i].req = n
    \/ \E i \in 1..Len(queue) : queue[i].req = n
    \/ \E t \in Thread : pc[t] \in Holding /\ resp[t].req = n
AnswerInv ==
    kind = "embedding" /\ Running /\ ~cancelled =>
        \A n \in 1..nread : (n = nread /\ Unprocessed) \/ Answered(n)

\* With a client that waits, one answer at most is on its way, to the last
\* request.
LockstepInv ==
    kind = "embedding" /\ ~pipelined =>
        /\ nread - 1 <= Len(wire) /\ Len(wire) <= nread
        /\ \A i \in 1..Len(wire) : wire[i].req = i
        /\ Unprocessed => Len(wire) = nread - 1
        /\ Unprocessed \/ Len(wire) = nread =>
              queue = <<>> /\ \A t \in Thread : pc[t] \notin Holding
        /\ \A t \in Thread : pc[t] \in Holding => queue = <<>> /\ resp[t].req = nread
        /\ \A t, u \in Thread : pc[t] \in Holding /\ pc[u] \in Holding => t = u
        /\ Len(queue) <= 1 /\ \A i \in 1..Len(queue) : queue[i].req = nread

\* Tasks that have set _is_processing.
Active == {"loop_cancelled", "loop_processing", "pop", "full", "segments", "clear"} \cup Sending
TaskInv ==
    /\ \A t \in Tasks : ret[t] = "clear" => refused
    /\ \A t \in Tasks : hand[t] # <<>> => pc[t] \in {"full", "segments"}
    /\ ~overlap =>
          /\ \A t, u \in Tasks : pc[t] \in Active /\ pc[u] \in Active => t = u
          /\ \A t \in Tasks : pc[t] \in Active => processing

\* Requests processed.  The chunks in the buffer and with the tasks are among
\* them: the next one is not there yet.
Processed == IF Unprocessed THEN nread - 1 ELSE nread

\* What is not lost of a task's audio is in the context until the task has
\* read its segments.
ContextInv ==
    /\ \A x \in Range(buffer) : x <= Processed
    /\ \A t \in Tasks : \A x \in Range(hand[t]) :
          /\ x <= Processed
          /\ pc[t] = "segments" /\ x \in audio => x \in Range(context)

Inv == /\ BaseType /\ PlaceInv /\ CountInv /\ FinishInv /\ HoldInv
       /\ AnswerInv /\ LockstepInv /\ TaskInv /\ ContextInv
       /\ AudioWaitsOnlyIfMissed /\ AudioIsKept

-----------------------------------------------------------------------------
(* The steps, and the frames of those that threads share.                   *)

\* The steps that both streams have.
Common ==
    \/ \E t \in {"reader"} \cup Callbacks \cup Tasks : SendAndFlush(t)
    \/ \E k \in {"param", "chunk", "neither"} :
          ReadRequest(k, IF kind = "embedding" THEN "read_ok" ELSE "register")
    \/ ReadEnd \/ EnsureRegistered \/ StartRead
    \/ \E c \in Callbacks, ok \in BOOLEAN : CompleteWrite(c, ok)
    \/ \E c \in Callbacks : ClearWriting(c, IF kind = "embedding" THEN "wd_test" ELSE "flush")
    \/ \E c \in Callbacks : WriteFailed(c)
    \/ OnCancel \/ OnDone \/ Disconnect

\* Those that only the embedding stream has.
EmbeddingOwn ==
    \/ ReadTestCancelled \/ ProcessRequest
    \/ /\ \E c \in Callbacks : \/ WrittenTestCancelled(c)
                               \/ Drain(c, "wd_drain_ok", "wd_finish_ok")
                               \/ WrittenFinish(c)
       /\ UNCHANGED stops
    \/ StopEmbedding \/ Stop

\* Those that only the recognition stream has.
TaskOwn(t) ==
    \/ TaskTestCancelled(t) \/ TaskTestProcessing(t) \/ TaskSetProcessing(t)
    \/ TaskLoopCancelled(t) \/ TaskLoopProcessing(t) \/ TaskPop(t)
    \/ TaskTranslateFails(t) \/ TaskFull(t) \/ TaskSegments(t) \/ TaskClear(t)
    \/ TaskUsesFreed(t)

\* Which steps there are.
LEMMA StepCases ==
    ASSUME [Next]_vars
    PROVE  \/ UNCHANGED vars
           \/ Running /\ Common /\ UNCHANGED <<stops, recognitionVars>>
           \/ Running /\ kind = "embedding" /\ EmbeddingOwn /\ UNCHANGED recognitionVars
           \/ Running /\ kind = "recognition" /\ ProcessAudio /\ UNCHANGED stops
           \/ Running /\ kind = "recognition" /\ (\E t \in Tasks : TaskOwn(t)) /\ UNCHANGED stops
           \/ Running /\ kind = "recognition" /\ OtherStreamFull /\ UNCHANGED stops
<1>1. CASE EmbeddingNext /\ UNCHANGED recognitionVars
  <2>0. Embedding
    BY <1>1 DEF EmbeddingNext
  <2>1. CASE EmbeddingOnReadDone
    BY <1>1, <2>0, <2>1 DEF EmbeddingOnReadDone, Common, EmbeddingOwn, Embedding
  <2>2. ASSUME NEW c \in Callbacks, EmbeddingOnWriteDone(c)
        PROVE  (Common /\ UNCHANGED stops) \/ EmbeddingOwn
    BY <2>0, <2>2 DEF EmbeddingOnWriteDone, Common, EmbeddingOwn, Embedding
  <2>3. CASE (Service \/ ClientAct("read_ok")) /\ UNCHANGED stops
    BY <1>1, <2>0, <2>3 DEF Service, ClientAct, Common, Embedding
  <2> QED BY <1>1, <2>0, <2>1, <2>2, <2>3 DEF EmbeddingNext, EmbeddingServer, EmbeddingOwn, Embedding
<1>2. CASE RecognitionNext /\ UNCHANGED stops
  <2>0. Recognition
    BY <1>2 DEF RecognitionNext
  <2>1. CASE RecognitionOnReadDone
    BY <1>2, <2>0, <2>1 DEF RecognitionOnReadDone, Common, Recognition
  <2>2. ASSUME NEW c \in Callbacks, RecognitionOnWriteDone(c)
        PROVE  Common /\ UNCHANGED recognitionVars
    BY <2>0, <2>2 DEF RecognitionOnWriteDone, Common, Recognition
  <2>3. CASE (Service \/ ClientAct("register")) /\ UNCHANGED recognitionVars
    BY <1>2, <2>0, <2>3 DEF Service, ClientAct, Common, Recognition
  <2>4. ASSUME NEW t \in Tasks, Task(t)
        PROVE  TaskOwn(t) \/ (Common /\ UNCHANGED recognitionVars)
    BY <2>4 DEF Task, TaskOwn, Common
  <2> QED BY <1>2, <2>0, <2>1, <2>2, <2>3, <2>4 DEF RecognitionNext, RecognitionServer, Recognition
<1> QED BY <1>1, <1>2 DEF Next

\* The names of the threads.
LEMMA Names ==
    /\ {"reader", "cancel", "stop"} \subseteq Thread /\ Callbacks \subseteq Thread
    /\ Tasks \subseteq Thread
    /\ \A c \in Callbacks : c \notin Tasks /\ c \notin {"reader", "cancel", "stop"}
    /\ \A t \in Tasks : t \notin {"reader", "cancel", "stop"}
    /\ \A t \in Thread : t \in {"reader", "cancel", "stop"} \/ t \in Callbacks \/ t \in Tasks
  BY ThreadsAssumption DEF Thread

\* The split type invariant is the model's.
LEMMA BaseIsType == BaseType => TypeOK
  BY DEF BaseType, TypeOK, StreamType, ThreadType, FlagType, ReqType, GrpcType, LifeType, HistType

\* Control moves, with whatever else the step does to the thread's response.
LEMMA GotoType ==
    ASSUME pc \in [Thread -> Label], NEW t, NEW l \in Label, Goto(t, l)
    PROVE  pc' \in [Thread -> Label]
  BY DEF Goto

\* What a control move does to one thread and to the others.
LEMMA GotoFacts ==
    ASSUME pc \in [Thread -> Label], NEW t \in Thread, NEW l, Goto(t, l)
    PROVE  pc'[t] = l /\ \A u \in Thread : u # t => pc'[u] = pc[u]
  BY DEF Goto

\* An empty response is one.
LEMMA NoRespType == NoResp \in Resp /\ NoResp.req = 0 /\ NoResp.audio = <<>>
  BY MaxReqsAssumption DEF NoResp, Resp

\* _send and _flush move one thread along their labels or back to its code;
\* a queue loses its head or gets the thread's response, the wire gets it.
LEMMA SendFacts ==
    ASSUME ThreadType, FlagType, NEW t \in Thread, SendAndFlush(t)
    PROVE  /\ UNCHANGED <<kind, ret, cancelled, reqVars, reading, finish, onCancel, lifeVars,
                          failed, pipelined>>
           /\ pc[t] \in Sending
           /\ \E l \in Flushing \cup {"enqueue", ret[t]} :
                 Goto(t, l) /\ (l = "enqueue" /\ l # ret[t] => pc[t] = "send")
           /\ \A u \in Thread : u # t => resp'[u] = resp[u]
           /\ ~FlushStart(t) => UNCHANGED <<inflight, wire, misuse>>
<1>1. \A u \in Thread : u # t => resp'[u] = resp[u]
  BY DEF SendAndFlush, SendIfNotCancelled, Enqueue, FlushIfNotWriting, FlushIfNotCancelled,
     FlushDequeue, FlushStore, FlushStart, Return, ThreadType
<1>2. CASE SendIfNotCancelled(t) \/ Enqueue(t)
  BY <1>1, <1>2 DEF SendIfNotCancelled, Enqueue, Return, flagVars, grpcVars, histVars, Sending,
     Flushing
<1>3. CASE FlushIfNotWriting(t) \/ FlushIfNotCancelled(t)
  BY <1>1, <1>3 DEF FlushIfNotWriting, FlushIfNotCancelled, Return, flagVars, grpcVars, histVars,
     Sending, Flushing
<1>4. CASE FlushDequeue(t) \/ FlushStore(t)
  BY <1>1, <1>4 DEF FlushDequeue, FlushStore, Return, grpcVars, histVars, Sending, Flushing
<1>5. CASE FlushStart(t)
  BY <1>1, <1>5 DEF FlushStart, Return, flagVars, Sending, Flushing
<1> QED BY <1>2, <1>3, <1>4, <1>5 DEF SendAndFlush

\* The types across a step of _send or _flush.
LEMMA SendType ==
    ASSUME BaseType, NEW t \in Thread, SendAndFlush(t), UNCHANGED <<stops, recognitionVars>>
    PROVE  BaseType'
<1> USE DEF BaseType
<1>0. ret[t] \in Label /\ Flushing \cup {"enqueue"} \subseteq Label
  BY DEF ThreadType, ReturnLabel, Label, ReaderLabel, TaskLabel, Sending
<1>1. pc' \in [Thread -> Label] /\ UNCHANGED ret
  BY <1>0, SendFacts, GotoType DEF ThreadType
<1>2. resp' \in [Thread -> Resp] /\ queue' \in Seq(Resp) /\ writing' \in BOOLEAN
  <2>1. CASE SendIfNotCancelled(t) \/ FlushIfNotWriting(t) \/ FlushIfNotCancelled(t)
    BY <2>1, NoRespType DEF SendIfNotCancelled, FlushIfNotWriting, FlushIfNotCancelled, Return,
       flagVars, ThreadType, FlagType
  <2>2. CASE Enqueue(t)
    BY <2>2, NoRespType DEF Enqueue, ThreadType, FlagType
  <2>3. CASE FlushDequeue(t)
    <3>0. queue \in Seq(Resp) /\ resp \in [Thread -> Resp] /\ writing \in BOOLEAN
      BY DEF ThreadType, FlagType
    <3>1. CASE queue = <<>>
      <4>1. UNCHANGED <<queue, writing>> /\ resp' = [resp EXCEPT ![t] = NoResp]
        BY <2>3, <3>1 DEF FlushDequeue, Return
      <4> QED BY <3>0, <4>1, NoRespType
    <3>2. CASE queue # <<>>
      <4>1. /\ resp' = [resp EXCEPT ![t] = Head(queue)] /\ queue' = Tail(queue)
            /\ UNCHANGED writing
        BY <2>3, <3>2 DEF FlushDequeue
      <4>2. Head(queue) \in Resp /\ Tail(queue) \in Seq(Resp)
        BY <3>0, <3>2
      <4> QED BY <3>0, <4>1, <4>2
    <3> QED BY <3>1, <3>2
  <2>4. CASE FlushStore(t)
    BY <2>4 DEF FlushStore, ThreadType, FlagType
  <2>5. CASE FlushStart(t)
    BY <2>5, NoRespType DEF FlushStart, Return, flagVars, ThreadType, FlagType
  <2> QED BY <2>1, <2>2, <2>3, <2>4, <2>5 DEF SendAndFlush
<1>3. inflight' \in BOOLEAN /\ wire' \in Seq(Resp)
      /\ misuse' \in {"none", "write_after_finish", "double_write", "double_finish",
                      "use_after_free"}
  <2>1. CASE FlushStart(t)
    BY <2>1 DEF FlushStart, WriteMisuse, ThreadType, GrpcType
  <2>2. CASE ~FlushStart(t)
    BY <2>2, SendFacts DEF GrpcType, HistType
  <2> QED BY <2>1, <2>2
<1>4. UNCHANGED <<kind, cancelled, reqVars, reading, finish, onCancel, lifeVars, failed, pipelined>>
  BY SendFacts
<1> QED BY <1>1, <1>2, <1>3, <1>4 DEF ThreadType, FlagType, ReqType, GrpcType, LifeType, HistType,
     EmbeddingType, RecognitionType, reqVars, lifeVars, recognitionVars

\* Finish is called.
LEMMA FinishType ==
    ASSUME GrpcType, HistType, NEW s \in {"OK", "ABORTED"}, Finish(s)
    PROVE  GrpcType' /\ HistType'
  BY DEF Finish, GrpcType, HistType

\* Groups of variables that a step leaves alone keep their types.
LEMMA Frames ==
    ASSUME BaseType
    PROVE  /\ UNCHANGED kind => kind' \in {"embedding", "recognition"}
           /\ UNCHANGED <<ret, resp>> /\ pc' \in [Thread -> Label] => ThreadType'
           /\ UNCHANGED threadVars => ThreadType'
           /\ UNCHANGED flagVars => FlagType'
           /\ UNCHANGED reqVars => ReqType'
           /\ UNCHANGED grpcVars => GrpcType'
           /\ UNCHANGED lifeVars => LifeType'
           /\ UNCHANGED histVars => HistType'
           /\ UNCHANGED stops => EmbeddingType'
           /\ UNCHANGED recognitionVars => RecognitionType'
<1> USE DEF BaseType
<1>1. UNCHANGED <<ret, resp>> /\ pc' \in [Thread -> Label] => ThreadType'
  BY DEF ThreadType
<1>2. UNCHANGED threadVars => ThreadType'
  BY DEF ThreadType, threadVars
<1>3. UNCHANGED flagVars => FlagType'
  BY DEF FlagType, flagVars
<1>4. UNCHANGED reqVars => ReqType'
  BY DEF ReqType, reqVars
<1>5. UNCHANGED grpcVars => GrpcType'
  BY DEF GrpcType, grpcVars
<1>6. (UNCHANGED lifeVars => LifeType') /\ (UNCHANGED histVars => HistType')
  BY DEF LifeType, lifeVars, HistType, histVars
<1>7. (UNCHANGED stops => EmbeddingType') /\ (UNCHANGED recognitionVars => RecognitionType')
  BY DEF EmbeddingType, RecognitionType, recognitionVars
<1> QED BY <1>1, <1>2, <1>3, <1>4, <1>5, <1>6, <1>7

\* Setting _is_cancelled, clearing _is_writing, one step of a drain.
LEMMA CancelStepsType ==
    ASSUME BaseType, UNCHANGED <<stops, recognitionVars>>, NEW t, NEW l, NEW m \in Label,
           SetCancelled(t, l, m) \/ Drain(t, l, m) \/ Unwrite(t)
    PROVE  BaseType'
<1>0. pc \in [Thread -> Label] /\ FlagType
  BY DEF BaseType, ThreadType
<1>1. pc' \in [Thread -> Label]
  <2>1. "drain" \in Label
    BY DEF Label, CancelLabel
  <2> QED BY <1>0, <2>1, GotoType DEF SetCancelled, Drain, Unwrite
<1>2. CASE SetCancelled(t, l, m)
  <2>1. FlagType'
    BY <1>0, <1>2 DEF SetCancelled, FlagType
  <2> QED BY <1>1, <1>2, <2>1, Frames DEF SetCancelled, BaseType
<1>3. CASE Drain(t, l, m)
  <2>1. queue' = queue \/ (queue # <<>> /\ queue' = Tail(queue))
    BY <1>3 DEF Drain
  <2>2. queue' \in Seq(Resp)
    BY <1>0, <2>1 DEF FlagType
  <2>3. FlagType'
    BY <1>0, <1>3, <2>2 DEF Drain, FlagType
  <2> QED BY <1>1, <1>3, <2>3, Frames DEF Drain, BaseType
<1>4. CASE Unwrite(t)
  <2>1. FlagType'
    BY <1>0, <1>4 DEF Unwrite, FlagType
  <2> QED BY <1>1, <1>4, <2>1, Frames DEF Unwrite, BaseType
<1> QED BY <1>2, <1>3, <1>4

\* The types across the other steps that both streams have.
LEMMA CommonType ==
    ASSUME BaseType, Common, UNCHANGED <<stops, recognitionVars>>
    PROVE  BaseType'
<1>0. pc \in [Thread -> Label] /\ FlagType /\ ReqType /\ GrpcType /\ LifeType /\ HistType
  BY DEF BaseType, ThreadType
<1>l. /\ {"idle", "register", "process", "read_ok", "start_read", "flush", "send"} \subseteq Label
      /\ {"written", "write_failed", "wd_test", "wd_cancel", "wd_drain", "wd_finish"} \subseteq Label
      /\ {"cancel", "unwrite", "drain"} \subseteq Label
  BY DEF Label, ReaderLabel, CallbackLabel, CancelLabel, Sending, Flushing
<1>1. ASSUME NEW k \in {"param", "chunk", "neither"}, NEW l \in Label, ReadRequest(k, l)
      PROVE  BaseType'
  <2>1. pc' \in [Thread -> Label] /\ UNCHANGED <<kind, ret, resp, flagVars, lifeVars>>
    BY <1>0, <1>1, GotoType DEF ReadRequest
  <2>2. ReqType'
    BY <1>0, <1>1, MaxReqsAssumption DEF ReadRequest, ReqType
  <2>3. GrpcType' /\ HistType'
    BY <1>0, <1>1 DEF ReadRequest, GrpcType, HistType
  <2> QED BY <2>1, <2>2, <2>3, Frames DEF BaseType
<1>2. CASE ReadEnd
  <2>1. GrpcType' /\ HistType'
    BY <1>0, <1>2 DEF ReadEnd, GrpcType, HistType
  <2> QED BY <1>2, <2>1, Frames DEF ReadEnd, BaseType
<1>3. CASE EnsureRegistered
  <2>1. pc' \in [Thread -> Label]
    BY <1>0, <1>3, <1>l, GotoType DEF EnsureRegistered
  <2>2. LifeType'
    BY <1>0, <1>3 DEF EnsureRegistered, LifeType, ReqType
  <2> QED BY <1>3, <2>1, <2>2, Frames DEF EnsureRegistered, BaseType
<1>3a. CASE StartRead
  <2>1. pc' \in [Thread -> Label]
    BY <1>0, <1>3a, <1>l, GotoType DEF StartRead
  <2>2. GrpcType' /\ ReqType'
    BY <1>0, <1>3a DEF StartRead, GrpcType, ReqType
  <2> QED BY <1>3a, <2>1, <2>2, Frames DEF StartRead, BaseType
<1>4. ASSUME NEW c \in Callbacks, NEW ok \in BOOLEAN, CompleteWrite(c, ok)
      PROVE  BaseType'
  <2>1. pc' \in [Thread -> Label]
    BY <1>0, <1>4, <1>l, GotoType DEF CompleteWrite
  <2>2. GrpcType' /\ HistType'
    BY <1>0, <1>4 DEF CompleteWrite, GrpcType, HistType
  <2> QED BY <1>4, <2>1, <2>2, Frames DEF CompleteWrite, BaseType
<1>5. ASSUME NEW c \in Callbacks, NEW l \in Label, ClearWriting(c, l)
      PROVE  BaseType'
  <2>1. pc' \in [Thread -> Label] /\ FlagType'
    BY <1>0, <1>5, <1>l, GotoType DEF ClearWriting, FlagType
  <2> QED BY <1>5, <2>1, Frames DEF ClearWriting, BaseType
<1>7. ASSUME NEW c \in Callbacks, WriteFailedFinish(c)
      PROVE  BaseType'
  <2>1. pc' \in [Thread -> Label] /\ GrpcType' /\ HistType'
    BY <1>0, <1>7, <1>l, GotoType, FinishType DEF WriteFailedFinish
  <2> QED BY <1>7, <2>1, Frames DEF WriteFailedFinish, BaseType
<1>9. CASE OnCancelBegin
  <2>1. pc' \in [Thread -> Label] /\ GrpcType'
    BY <1>0, <1>9, <1>l, GotoType DEF OnCancelBegin, GrpcType
  <2> QED BY <1>9, <2>1, Frames DEF OnCancelBegin, BaseType
<1>10. CASE Disconnect
  <2>1. GrpcType'
    BY <1>0, <1>10 DEF Disconnect, GrpcType
  <2> QED BY <1>10, <2>1, Frames DEF Disconnect, BaseType
<1>10a. CASE OnDone
  <2>1. LifeType'
    BY <1>10a DEF OnDone, LifeType
  <2> QED BY <1>10a, <2>1, Frames DEF OnDone, BaseType
<1>11. ASSUME NEW c \in Callbacks, WriteFailed(c)
       PROVE  BaseType'
  BY <1>l, <1>7, <1>11, CancelStepsType DEF WriteFailed
<1>12. CASE OnCancel
  BY <1>l, <1>9, <1>12, CancelStepsType DEF OnCancel
<1>13. ASSUME NEW t \in {"reader"} \cup Callbacks \cup Tasks, SendAndFlush(t)
       PROVE  BaseType'
  BY <1>13, SendType DEF Thread
<1> QED BY <1>l, <1>1, <1>2, <1>3, <1>3a, <1>4, <1>5, <1>10, <1>10a, <1>11, <1>12, <1>13 DEF Common

\* A response is handed to _send.
LEMMA CallSendType ==
    ASSUME ThreadType, NEW t \in Thread, NEW r \in Resp, NEW l \in ReturnLabel,
           CallSend(t, r, l)
    PROVE  /\ ThreadType'
           /\ pc'[t] = "send" /\ ret'[t] = l /\ resp'[t] = r
           /\ \A u \in Thread : u # t => pc'[u] = pc[u] /\ ret'[u] = ret[u] /\ resp'[u] = resp[u]
<1>1. "send" \in Label
  BY DEF Label, ReaderLabel, Sending
<1> QED BY <1>1 DEF CallSend, Goto, ThreadType

\* The types across the steps that only the embedding stream has.
LEMMA EmbeddingOwnType ==
    ASSUME BaseType, EmbeddingOwn, UNCHANGED recognitionVars
    PROVE  BaseType'
<1>0. /\ pc \in [Thread -> Label] /\ ThreadType /\ FlagType /\ ReqType /\ GrpcType /\ LifeType
      /\ HistType /\ EmbeddingType
  BY DEF BaseType, ThreadType
<1>l. /\ {"idle", "register", "start_read", "flush", "send", "wd_drain_ok", "wd_finish_ok",
       "cancel", "unwrite", "drain", "try_cancel"} \subseteq Label
      /\ "start_read" \in ReturnLabel
  BY DEF Label, ReaderLabel, CallbackLabel, CancelLabel, Sending, Flushing, ReturnLabel
<1>1. CASE ReadTestCancelled
  <2>1. pc' \in [Thread -> Label]
    BY <1>0, <1>l, <1>1, GotoType DEF ReadTestCancelled
  <2>2. GrpcType' /\ HistType'
    BY <1>0, <1>1, FinishType, Frames DEF ReadTestCancelled
  <2> QED BY <1>1, <2>1, <2>2, Frames DEF ReadTestCancelled, BaseType
<1>2. CASE ProcessRequest
  <2>1. [NoResp EXCEPT !.req = nread] \in Resp
    BY <1>0, NoRespType DEF ReqType, NoResp, Resp
  <2>2. ThreadType'
    BY <1>0, <1>l, <1>2, <2>1, CallSendType, GotoType, Names, Frames DEF ProcessRequest
  <2> QED BY <1>2, <2>2, Frames DEF ProcessRequest, BaseType
<1>3. ASSUME NEW c \in Callbacks, WrittenTestCancelled(c), UNCHANGED stops
      PROVE  BaseType'
  <2>1. pc' \in [Thread -> Label]
    BY <1>0, <1>l, <1>3, GotoType DEF WrittenTestCancelled
  <2> QED BY <1>3, <2>1, Frames DEF WrittenTestCancelled, BaseType
<1>4. ASSUME NEW c \in Callbacks, WrittenFinish(c), UNCHANGED stops
      PROVE  BaseType'
  <2>1. pc' \in [Thread -> Label] /\ GrpcType' /\ HistType'
    BY <1>0, <1>l, <1>4, GotoType, FinishType DEF WrittenFinish
  <2> QED BY <1>4, <2>1, Frames DEF WrittenFinish, BaseType
<1>5. CASE StopEmbedding
  <2>1. pc' \in [Thread -> Label]
    BY <1>0, <1>l, <1>5, GotoType DEF StopEmbedding
  <2>2. EmbeddingType'
    BY <1>0, <1>5, MaxStopsAssumption DEF StopEmbedding, EmbeddingType
  <2> QED BY <1>5, <2>1, <2>2, Frames DEF StopEmbedding, BaseType
<1>6. CASE TryCancel /\ UNCHANGED stops
  <2>1. pc' \in [Thread -> Label] /\ GrpcType'
    BY <1>0, <1>l, <1>6, GotoType DEF TryCancel, GrpcType
  <2> QED BY <1>6, <2>1, Frames DEF TryCancel, BaseType
<1>7. CASE Stop
  BY <1>6, <1>7, <1>l, CancelStepsType DEF Stop
<1> QED BY <1>l, <1>1, <1>2, <1>3, <1>4, <1>5, <1>7, CancelStepsType DEF EmbeddingOwn

\* A sequence cut in two.
LEMMA SplitSeq ==
    ASSUME NEW S, NEW s \in Seq(S), NEW n \in 0..Len(s)
    PROVE  /\ SubSeq(s, 1, n) \in Seq(S) /\ Len(SubSeq(s, 1, n)) = n
           /\ \A i \in 1..n : SubSeq(s, 1, n)[i] = s[i]
           /\ SubSeq(s, n + 1, Len(s)) \in Seq(S) /\ Len(SubSeq(s, n + 1, Len(s))) = Len(s) - n
           /\ \A i \in 1..(Len(s) - n) : SubSeq(s, n + 1, Len(s))[i] = s[n + i]
<1>0. Len(s) \in Nat /\ n \in Nat /\ n <= Len(s) /\ 1 \in Int /\ n \in Int /\ n + 1 \in Int
      /\ Len(s) \in Int
  OBVIOUS
<1>1. \A i \in 1..Len(s) : s[i] \in S
  BY ElementOfSeq
<1>2. \A i \in 1..n : s[i] \in S
  BY <1>0, <1>1
<1>3. \A i \in (n + 1)..Len(s) : s[i] \in S
  BY <1>0, <1>1
<1>4. /\ SubSeq(s, 1, n) \in Seq(S) /\ Len(SubSeq(s, 1, n)) = IF 1 <= n THEN n - 1 + 1 ELSE 0
      /\ \A i \in 1..(n - 1 + 1) : SubSeq(s, 1, n)[i] = s[1 + i - 1]
  BY ONLY <1>0, <1>2, SubSeqProperties
<1>5. /\ SubSeq(s, n + 1, Len(s)) \in Seq(S)
      /\ Len(SubSeq(s, n + 1, Len(s))) = IF n + 1 <= Len(s) THEN Len(s) - (n + 1) + 1 ELSE 0
      /\ \A i \in 1..(Len(s) - (n + 1) + 1) : SubSeq(s, n + 1, Len(s))[i] = s[n + 1 + i - 1]
  BY ONLY <1>0, <1>3, SubSeqProperties
<1>6. \A i \in 1..n : SubSeq(s, 1, n)[i] = s[i]
  <2>1. n - 1 + 1 = n /\ \A i \in 1..n : 1 + i - 1 = i
    BY <1>0
  <2> QED BY <1>4, <2>1
<1>7. \A i \in 1..(Len(s) - n) : SubSeq(s, n + 1, Len(s))[i] = s[n + i]
  <2>1. Len(s) - (n + 1) + 1 = Len(s) - n /\ \A i \in 1..(Len(s) - n) : n + 1 + i - 1 = n + i
    BY <1>0
  <2> QED BY <1>5, <2>1
<1>8. Len(SubSeq(s, 1, n)) = n /\ Len(SubSeq(s, n + 1, Len(s))) = Len(s) - n
  BY <1>0, <1>4, <1>5
<1> QED BY <1>4, <1>5, <1>6, <1>7, <1>8

\* What audio_buffer::push and pop_until leave has its type.
LEMMA BufferType ==
    ASSUME RecognitionType, NEW n \in 1..MaxReqs
    PROVE  /\ Pushed(n) \in Seq(1..MaxReqs)
           /\ Popped \in 0..Len(buffer)
           /\ SubSeq(buffer, 1, Popped) \in Seq(1..MaxReqs)
           /\ SubSeq(buffer, Popped + 1, Len(buffer)) \in Seq(1..MaxReqs)
<1>0. buffer \in Seq(1..MaxReqs) /\ Len(buffer) \in Nat
  BY DEF RecognitionType
<1>1. Pushed(n) \in Seq(1..MaxReqs)
  <2>1. Append(buffer, n) \in Seq(1..MaxReqs) /\ Append(buffer, n) # <<>>
    BY <1>0
  <2>2. Tail(Append(buffer, n)) \in Seq(1..MaxReqs)
    BY <2>1
  <2> QED BY <2>1, <2>2 DEF Pushed
<1>2. Popped \in 0..Len(buffer)
  BY <1>0, AudioAssumption DEF Popped
<1> QED BY <1>0, <1>1, <1>2, SplitSeq

\* There is a task left for the chunk that is being processed.
LEMMA TaskLeft ==
    ASSUME BaseType, CountInv, Unprocessed
    PROVE  UnusedTask \in Tasks /\ pc[UnusedTask] = "unused" /\ nread \in 1..MaxReqs
<1>1. nread \in 1..MaxReqs
  BY MaxReqsAssumption DEF CountInv, BaseType, ReqType
<1>2. IsFiniteSet(UsedTasks) /\ Cardinality(UsedTasks) \in Nat /\ Cardinality(Tasks) \in Nat
  BY TasksAssumption, FS_Subset, FS_CardinalityType DEF UsedTasks
<1>3. UsedTasks # Tasks
  BY <1>1, <1>2, TasksAssumption, MaxReqsAssumption DEF CountInv
<1>4. \E t \in Tasks : pc[t] = "unused"
  BY <1>3 DEF UsedTasks
<1> QED BY <1>1, <1>4 DEF UnusedTask

\* The types across _process of a recognition stream.
LEMMA ProcessAudioType ==
    ASSUME BaseType, CountInv, ProcessAudio, UNCHANGED stops
    PROVE  BaseType'
<1>0. /\ pc \in [Thread -> Label] /\ ThreadType /\ ReqType /\ RecognitionType
      /\ Unprocessed /\ nread \in 1..MaxReqs
  <2>1. Unprocessed
    BY DEF ProcessAudio, Unprocessed
  <2> QED BY <2>1, TaskLeft DEF BaseType, ThreadType
<1>l. {"start_read", "queued"} \subseteq Label /\ "start_read" \in ReturnLabel
  BY DEF Label, ReaderLabel, TaskLabel, ReturnLabel
<1>1. ThreadType'
  <2>1. [NoResp EXCEPT !.req = nread] \in Resp
    BY <1>0, NoRespType DEF ReqType, NoResp, Resp
  <2>2. CASE pc' = [pc EXCEPT !["reader"] = "start_read", ![UnusedTask] = "queued"]
             /\ UNCHANGED <<ret, resp>>
    BY <1>0, <1>l, <2>2, Frames
  <2> QED BY <1>0, <1>l, <2>1, <2>2, CallSendType, GotoType, Names, Frames DEF ProcessAudio
<1>2. buffer' \in Seq(1..MaxReqs) /\ audio' \subseteq 1..MaxReqs
  BY <1>0, BufferType DEF ProcessAudio, RecognitionType
<1>3. RecognitionType'
  BY <1>0, <1>2 DEF ProcessAudio, RecognitionType
<1> QED BY <1>1, <1>3, Frames DEF ProcessAudio, BaseType

\* What another full leaves has the type of the context.
LEMMA RemainsType ==
    ASSUME RecognitionType, NEW rest \in Remains
    PROVE  rest \in Seq(1..MaxReqs)
<1>0. context \in Seq(1..MaxReqs) /\ Len(context) \in Nat
  BY DEF RecognitionType
<1>1. PICK n \in 0..Len(context) : rest = SubSeq(context, 1, n)
  BY <1>0 DEF Remains
<1> QED BY <1>0, <1>1, SplitSeq

\* After full the context holds the segments of all the audio it was given.
LEMMA FullHolds ==
    ASSUME RecognitionType, NEW t \in Tasks, TaskFull(t)
    PROVE  context' \in Seq(1..MaxReqs) /\ Range(hand[t]) \subseteq Range(context')
<1>1. PICK rest \in Remains : context' = rest \o hand[t]
  BY DEF TaskFull
<1>2. PICK h : h = hand[t]
  OBVIOUS
<1>3. rest \in Seq(1..MaxReqs) /\ h \in Seq(1..MaxReqs)
  BY <1>2, RemainsType DEF RecognitionType
<1>4. context' \in Seq(1..MaxReqs) /\ Len(context') = Len(rest) + Len(h)
      /\ \A i \in 1..Len(h) : context'[Len(rest) + i] = h[i]
  BY <1>1, <1>2, <1>3
<1>5. ASSUME NEW i \in 1..Len(h)
      PROVE  Len(rest) + i \in 1..Len(context')
  BY <1>3, <1>4
<1>6. \A q \in Seq(1..MaxReqs) : DOMAIN q = 1..Len(q)
  OBVIOUS
<1> QED BY <1>2, <1>3, <1>4, <1>5, <1>6 DEF Range

\* The types across full of another stream, which changes nothing else.
LEMMA OtherStreamType ==
    ASSUME BaseType, OtherStreamFull, UNCHANGED stops
    PROVE  BaseType' /\ UNCHANGED streamVars /\ audio' \subseteq audio
<1>1. /\ context' \in Seq(1..MaxReqs) /\ audio' \subseteq audio
      /\ UNCHANGED <<streamVars, processing, buffer, hand, overlap, missed, refused>>
  BY RemainsType DEF OtherStreamFull, BaseType
<1>2. RecognitionType'
  BY <1>1 DEF BaseType, RecognitionType
<1> QED BY <1>1, <1>2, Frames DEF BaseType, streamVars

\* The types across the steps of a task.
LEMMA TaskOwnType ==
    ASSUME BaseType, NEW t \in Tasks, TaskOwn(t), UNCHANGED stops
    PROVE  BaseType'
<1>0. /\ pc \in [Thread -> Label] /\ ThreadType /\ RecognitionType /\ t \in Thread
  BY Names DEF BaseType, ThreadType
<1>l. TaskLabel \subseteq Label /\ {"clear", "loop_cancelled"} \subseteq ReturnLabel
  BY DEF Label, ReturnLabel
<1>1. CASE TaskTestCancelled(t) \/ TaskLoopCancelled(t) \/ TaskLoopProcessing(t)
  <2>1. pc' \in [Thread -> Label]
    BY <1>0, <1>l, <1>1, GotoType DEF TaskTestCancelled, TaskLoopCancelled, TaskLoopProcessing,
       TaskLabel
  <2> QED BY <1>1, <2>1, Frames DEF TaskTestCancelled, TaskLoopCancelled, TaskLoopProcessing,
       baseButThreads, BaseType
<1>2. CASE TaskTestProcessing(t) \/ TaskSetProcessing(t)
  <2>1. pc' \in [Thread -> Label]
    BY <1>0, <1>l, <1>2, GotoType DEF TaskTestProcessing, TaskSetProcessing, TaskLabel
  <2>2. /\ processing' \in BOOLEAN /\ overlap' \in BOOLEAN /\ missed' \in BOOLEAN
        /\ UNCHANGED <<buffer, hand, context, audio, refused>>
    BY <1>0, <1>2 DEF TaskTestProcessing, TaskSetProcessing, RecognitionType
  <2>3. RecognitionType'
    BY <1>0, <2>2 DEF RecognitionType
  <2> QED BY <1>2, <2>1, <2>3, Frames DEF TaskTestProcessing, TaskSetProcessing, baseButThreads,
       BaseType
<1>3. CASE TaskPop(t)
  <2>1. pc' \in [Thread -> Label]
    BY <1>0, <1>l, <1>3, GotoType DEF TaskPop, TaskLabel
  <2>2. RecognitionType'
    <3>0. 1 \in 1..MaxReqs
      BY MaxReqsAssumption
    <3>1. /\ SubSeq(buffer, 1, Popped) \in Seq(1..MaxReqs)
          /\ SubSeq(buffer, Popped + 1, Len(buffer)) \in Seq(1..MaxReqs)
      BY <1>0, <3>0, BufferType
    <3>2. /\ hand' = [hand EXCEPT ![t] = SubSeq(buffer, 1, Popped)]
          /\ buffer' = SubSeq(buffer, Popped + 1, Len(buffer))
          /\ UNCHANGED <<processing, context, audio, overlap, missed, refused>>
      BY <1>3 DEF TaskPop
    <3> QED BY <1>0, <3>1, <3>2 DEF RecognitionType
  <2> QED BY <1>3, <2>1, <2>2, Frames DEF TaskPop, baseButThreads, BaseType
<1>4. CASE TaskFull(t) \/ TaskClear(t)
  <2>1. pc' \in [Thread -> Label]
    BY <1>0, <1>l, <1>4, GotoType DEF TaskFull, TaskClear, TaskLabel
  <2>2. RecognitionType'
    <3>1. context' \in Seq(1..MaxReqs)
      <4>1. CASE TaskFull(t)
        BY <1>0, <4>1, FullHolds
      <4>2. CASE TaskClear(t)
        BY <1>0, <4>2 DEF TaskClear, RecognitionType
      <4> QED BY <1>4, <4>1, <4>2
    <3>2. /\ processing' \in {processing, FALSE} /\ audio' \subseteq audio
          /\ UNCHANGED <<buffer, hand, overlap, missed, refused>>
      BY <1>4 DEF TaskFull, TaskClear
    <3> QED BY <1>0, <3>1, <3>2 DEF RecognitionType
  <2> QED BY <1>4, <2>1, <2>2, Frames DEF TaskFull, TaskClear, baseButThreads, BaseType
<1>5. CASE TaskTranslateFails(t) \/ TaskSegments(t)
  <2>1. [NoResp EXCEPT !.audio = context] \in Resp
    <3>1. context \in Seq(1..MaxReqs)
      BY <1>0 DEF RecognitionType
    <3>2. 0 \in 0..MaxReqs /\ [NoResp EXCEPT !.audio = context] = [req |-> 0, audio |-> context]
      BY MaxReqsAssumption DEF NoResp
    <3> QED BY ONLY <3>1, <3>2 DEF Resp
  <2>2. ThreadType'
    BY <1>0, <1>l, <1>5, <2>1, NoRespType, CallSendType DEF TaskTranslateFails, TaskSegments,
       TaskLabel
  <2>3. RecognitionType'
    <3>1. /\ hand' = [hand EXCEPT ![t] = <<>>] /\ (refused' = TRUE \/ UNCHANGED refused)
          /\ audio' \subseteq audio
          /\ UNCHANGED <<processing, buffer, context, overlap, missed>>
      BY <1>5 DEF TaskTranslateFails, TaskSegments
    <3>2. hand' \in [Tasks -> Seq(1..MaxReqs)]
      BY <1>0, <3>1 DEF RecognitionType
    <3> QED BY <1>0, <3>1, <3>2 DEF RecognitionType
  <2> QED BY <1>5, <2>2, <2>3, Frames DEF TaskTranslateFails, TaskSegments, baseButThreads,
       BaseType
<1>6. CASE TaskUsesFreed(t)
  <2>1. HistType'
    BY <1>6 DEF TaskUsesFreed, BaseType, HistType
  <2> QED BY <1>6, <2>1, Frames DEF TaskUsesFreed, BaseType
<1> QED BY <1>1, <1>2, <1>3, <1>4, <1>5, <1>6 DEF TaskOwn

-----------------------------------------------------------------------------
(* Where the threads are, and how many tasks there are.                     *)

\* One thread moves, on its own code.
LEMMA OneMoves ==
    ASSUME PlaceInv, UNCHANGED kind, NEW t \in Thread, PlaceOf(t)',
           \A u \in Thread : u # t => pc'[u] = pc[u] /\ ret'[u] = ret[u],
           t \in Tasks => pc[t] # "unused" /\ pc'[t] # "unused"
    PROVE  /\ PlaceInv' /\ UsedTasks' = UsedTasks
           /\ t # "reader" => (Unprocessed' <=> Unprocessed)
<1>1. ASSUME NEW u \in Thread
      PROVE  PlaceOf(u)'
  <2>1. CASE u = t
    BY <2>1
  <2>2. CASE u # t
    <3>1. PlaceOf(u)
      BY DEF PlaceInv
    <3> QED BY <2>2, <3>1 DEF PlaceOf
  <2> QED BY <2>1, <2>2
<1>2. UsedTasks' = UsedTasks
  BY Names DEF UsedTasks
<1>3. t # "reader" => (Unprocessed' <=> Unprocessed)
  BY Names DEF Unprocessed
<1> QED BY <1>1, <1>2, <1>3 DEF PlaceInv

\* No request is read and none becomes unprocessed: the count still holds.
LEMMA CountKept ==
    ASSUME BaseType, CountInv, UsedTasks' = UsedTasks, UNCHANGED nread, Unprocessed' => Unprocessed
    PROVE  CountInv'
<1>1. nread \in Nat /\ Cardinality(UsedTasks) \in Nat
  BY TasksAssumption, FS_Subset, FS_CardinalityType, MaxReqsAssumption
     DEF UsedTasks, BaseType, ReqType
<1> QED BY <1>1 DEF CountInv

\* A thread other than the reader moves.
LEMMA OtherMoves ==
    ASSUME BaseType, PlaceInv, CountInv, UNCHANGED <<kind, ret, nread>>,
           NEW t \in Thread \ {"reader"}, NEW l, Goto(t, l), PlaceOf(t)',
           t \in Tasks => pc[t] # "unused" /\ l # "unused"
    PROVE  PlaceInv' /\ CountInv'
<1>1. pc'[t] = l /\ \A u \in Thread : u # t => pc'[u] = pc[u]
  BY GotoFacts DEF BaseType, ThreadType
<1>2. PlaceInv' /\ UsedTasks' = UsedTasks /\ (Unprocessed' <=> Unprocessed)
  BY <1>1, OneMoves
<1> QED BY <1>2, CountKept

\* No thread moves.
LEMMA NoneMoves ==
    ASSUME BaseType, PlaceInv, CountInv, UNCHANGED <<kind, pc, ret, nread>>
    PROVE  PlaceInv' /\ CountInv'
  BY DEF PlaceInv, PlaceOf, CountInv, UsedTasks, Unprocessed

\* A step of _send or _flush keeps the thread on its code.
LEMMA SendPlace ==
    ASSUME BaseType, PlaceInv, CountInv, NEW t \in Thread, SendAndFlush(t)
    PROVE  PlaceInv' /\ CountInv'
<1>0. ThreadType /\ FlagType /\ PlaceOf(t)
  BY DEF BaseType, PlaceInv
<1>1. /\ UNCHANGED <<kind, ret, nread>> /\ pc[t] \in Sending
      /\ \E l \in Flushing \cup {"enqueue", ret[t]} :
            Goto(t, l) /\ (l = "enqueue" /\ l # ret[t] => pc[t] = "send")
  BY <1>0, SendFacts DEF reqVars
<1>2. PICK l \in Flushing \cup {"enqueue", ret[t]} :
          Goto(t, l) /\ (l = "enqueue" /\ l # ret[t] => pc[t] = "send")
  BY <1>1
<1>3. pc'[t] = l /\ \A u \in Thread : u # t => pc'[u] = pc[u]
  BY <1>0, <1>2, GotoFacts DEF ThreadType
<1>4. PlaceOf(t)' /\ (t \in Tasks => pc[t] # "unused" /\ l # "unused")
  BY <1>0, <1>1, <1>2, <1>3, Names DEF PlaceOf, Sending, Flushing, ReaderLabel, CallbackLabel,
     CancelLabel, TaskLabel
<1>5. CASE t = "reader"
  <2>1. Unprocessed' => Unprocessed
    BY <1>0, <1>2, <1>3, <1>5 DEF PlaceOf, Unprocessed, Flushing
  <2> QED BY <1>1, <1>3, <1>4, <2>1, OneMoves, CountKept
<1> QED BY <1>1, <1>2, <1>4, <1>5, OtherMoves

\* So do the other steps that both streams have; a read adds a request.
LEMMA CommonPlace ==
    ASSUME BaseType, PlaceInv, CountInv, Common
    PROVE  PlaceInv' /\ CountInv'
<1>0. ThreadType /\ pc \in [Thread -> Label]
  BY DEF BaseType, ThreadType
<1> USE Names
<1>1. ASSUME NEW k, NEW l, l = IF kind = "embedding" THEN "read_ok" ELSE "register",
             ReadRequest(k, l)
      PROVE  PlaceInv' /\ CountInv'
  <2>1. /\ UNCHANGED <<kind, ret>> /\ pc["reader"] = "idle" /\ nread' = nread + 1
        /\ pc'["reader"] = l /\ \A u \in Thread : u # "reader" => pc'[u] = pc[u]
    BY <1>0, <1>1, GotoFacts DEF ReadRequest
  <2>2. PlaceOf("reader")'
    BY <1>1, <2>1 DEF PlaceOf, PlaceInv, ReaderLabel, BaseType
  <2>3. PlaceInv' /\ UsedTasks' = UsedTasks
    BY <2>1, <2>2, OneMoves
  <2>4. nread \in Nat /\ Cardinality(UsedTasks) \in Nat
    BY TasksAssumption, FS_Subset, FS_CardinalityType, MaxReqsAssumption
       DEF UsedTasks, BaseType, ReqType
  <2>5. ~Unprocessed /\ Unprocessed'
    BY <1>1, <2>1 DEF Unprocessed
  <2>6. CountInv'
    BY <2>1, <2>3, <2>4, <2>5 DEF CountInv
  <2> QED BY <2>3, <2>6
<1>2. CASE ReadEnd \/ Disconnect \/ OnDone
  BY <1>2, NoneMoves DEF ReadEnd, Disconnect, OnDone, threadVars, reqVars
<1>3. CASE EnsureRegistered \/ StartRead
  <2>1. /\ UNCHANGED <<kind, ret, nread>> /\ pc'["reader"] \in {"process", "idle"}
        /\ (pc'["reader"] = "process" => pc["reader"] = "register")
        /\ \A u \in Thread : u # "reader" => pc'[u] = pc[u]
    BY <1>0, <1>3, GotoFacts DEF EnsureRegistered, StartRead, reqVars
  <2>2. PlaceOf("reader")' /\ (Unprocessed' => Unprocessed)
    BY <2>1 DEF PlaceOf, PlaceInv, ReaderLabel, Unprocessed
  <2> QED BY <2>1, <2>2, OneMoves, CountKept
<1>4. ASSUME NEW c \in Callbacks, NEW ok \in BOOLEAN, CompleteWrite(c, ok)
      PROVE  PlaceInv' /\ CountInv'
  <2>1. PICK l \in {"written", "write_failed"} : Goto(c, l)
    BY <1>4 DEF CompleteWrite
  <2>2. UNCHANGED <<kind, ret, nread>>
    BY <1>4 DEF CompleteWrite, reqVars
  <2>3. PlaceOf(c)'
    BY <1>0, <2>1, <2>2, GotoFacts DEF PlaceOf, PlaceInv, CallbackLabel
  <2> QED BY <2>1, <2>2, <2>3, OtherMoves
<1>5. ASSUME NEW c \in Callbacks, NEW l, l = IF kind = "embedding" THEN "wd_test" ELSE "flush",
             ClearWriting(c, l)
      PROVE  PlaceInv' /\ CountInv'
  <2>1. PICK m \in {l, "wd_cancel"} : Goto(c, m)
    BY <1>5 DEF ClearWriting
  <2>2. UNCHANGED <<kind, ret, nread>>
    BY <1>5 DEF ClearWriting, reqVars
  <2>3. PlaceOf(c)'
    BY <1>0, <1>5, <2>1, <2>2, GotoFacts DEF PlaceOf, PlaceInv, CallbackLabel, Flushing
  <2> QED BY <2>1, <2>2, <2>3, OtherMoves
<1>6. ASSUME NEW c \in Callbacks, WriteFailed(c)
      PROVE  PlaceInv' /\ CountInv'
  <2>2. UNCHANGED <<kind, ret, nread>>
    BY <1>6 DEF WriteFailed, SetCancelled, Drain, WriteFailedFinish, reqVars
  <2>3. CASE UNCHANGED pc
    BY <2>2, <2>3, NoneMoves
  <2>4. CASE \E m \in {"wd_drain", "wd_finish", "idle"} : Goto(c, m)
    <3>1. PICK m \in {"wd_drain", "wd_finish", "idle"} : Goto(c, m)
      BY <2>4
    <3>2. PlaceOf(c)'
      BY <1>0, <2>2, <3>1, GotoFacts DEF PlaceOf, PlaceInv, CallbackLabel
    <3> QED BY <2>2, <3>1, <3>2, OtherMoves
  <2> QED BY <1>6, <2>3, <2>4 DEF WriteFailed, SetCancelled, Drain, WriteFailedFinish
<1>7. CASE OnCancel
  <2>2. UNCHANGED <<kind, ret, nread>>
    BY <1>7 DEF OnCancel, OnCancelBegin, SetCancelled, Drain, Unwrite, reqVars
  <2>3. CASE UNCHANGED pc
    BY <2>2, <2>3, NoneMoves
  <2>4. CASE \E m \in CancelLabel : Goto("cancel", m)
    <3>1. PICK m \in CancelLabel : Goto("cancel", m)
      BY <2>4
    <3>2. PlaceOf("cancel")'
      BY <1>0, <2>2, <3>1, GotoFacts DEF PlaceOf, PlaceInv
    <3> QED BY <2>2, <3>1, <3>2, OtherMoves
  <2> QED BY <1>7, <2>3, <2>4 DEF OnCancel, OnCancelBegin, SetCancelled, Drain, Unwrite, CancelLabel
<1>8. ASSUME NEW t \in {"reader"} \cup Callbacks \cup Tasks, SendAndFlush(t)
      PROVE  PlaceInv' /\ CountInv'
  BY <1>8, SendPlace
<1> QED BY <1>1, <1>2, <1>3, <1>4, <1>5, <1>6, <1>7, <1>8 DEF Common

\* So do the steps of an embedding stream.
LEMMA EmbeddingOwnPlace ==
    ASSUME BaseType, PlaceInv, CountInv, kind = "embedding", EmbeddingOwn
    PROVE  PlaceInv' /\ CountInv'
<1>0. ThreadType /\ pc \in [Thread -> Label]
  BY DEF BaseType, ThreadType
<1>r. [NoResp EXCEPT !.req = nread] \in Resp
  BY NoRespType DEF BaseType, ReqType, NoResp, Resp
<1> USE Names
<1>1. CASE ReadTestCancelled \/ ProcessRequest
  <2>1. /\ UNCHANGED <<kind, nread>> /\ ret'["reader"] \in {ret["reader"], "start_read"}
        /\ pc'["reader"] \in {"idle", "register", "start_read", "send"} /\ Unprocessed
        /\ \A u \in Thread : u # "reader" => pc'[u] = pc[u] /\ ret'[u] = ret[u]
    <3>1. "start_read" \in ReturnLabel
      BY DEF ReturnLabel
    <3> QED BY <1>0, <1>1, <1>r, <3>1, GotoFacts, CallSendType DEF ReadTestCancelled,
         ProcessRequest, reqVars, Unprocessed
  <2>2. PlaceOf("reader")'
    BY <2>1 DEF PlaceOf, PlaceInv, ReaderLabel, Sending
  <2> QED BY <2>1, <2>2, OneMoves, CountKept
<1>2. ASSUME NEW c \in Callbacks,
             WrittenTestCancelled(c) \/ Drain(c, "wd_drain_ok", "wd_finish_ok") \/ WrittenFinish(c)
      PROVE  PlaceInv' /\ CountInv'
  <2>1. UNCHANGED <<kind, ret, nread>>
    BY <1>2 DEF WrittenTestCancelled, Drain, WrittenFinish, reqVars
  <2>2. CASE UNCHANGED pc
    BY <2>1, <2>2, NoneMoves
  <2>3. CASE \E m \in {"wd_drain_ok", "flush", "wd_finish_ok", "idle"} : Goto(c, m)
    <3>1. PICK m \in {"wd_drain_ok", "flush", "wd_finish_ok", "idle"} : Goto(c, m)
      BY <2>3
    <3>2. PlaceOf(c)'
      BY <1>0, <2>1, <3>1, GotoFacts DEF PlaceOf, PlaceInv, CallbackLabel, Flushing
    <3> QED BY <2>1, <3>1, <3>2, OtherMoves
  <2> QED BY <1>2, <2>2, <2>3 DEF WrittenTestCancelled, Drain, WrittenFinish
<1>3. CASE StopEmbedding \/ Stop
  <2>1. UNCHANGED <<kind, ret, nread>>
    BY <1>3 DEF StopEmbedding, Stop, SetCancelled, Drain, Unwrite, TryCancel, reqVars
  <2>2. CASE UNCHANGED pc
    BY <2>1, <2>2, NoneMoves
  <2>3. CASE \E m \in CancelLabel : Goto("stop", m)
    <3>1. PICK m \in CancelLabel : Goto("stop", m)
      BY <2>3
    <3>2. PlaceOf("stop")'
      BY <1>0, <2>1, <3>1, GotoFacts DEF PlaceOf, PlaceInv
    <3> QED BY <2>1, <3>1, <3>2, OtherMoves
  <2> QED BY <1>3, <2>2, <2>3 DEF StopEmbedding, Stop, SetCancelled, Drain, Unwrite, TryCancel,
       CancelLabel
<1> QED BY <1>1, <1>2, <1>3 DEF EmbeddingOwn

\* A chunk takes a task that no other chunk has.
LEMMA ProcessAudioPlace ==
    ASSUME BaseType, PlaceInv, CountInv, kind = "recognition", ProcessAudio
    PROVE  PlaceInv' /\ CountInv'
<1>0. /\ ThreadType /\ pc \in [Thread -> Label] /\ UNCHANGED <<kind, nread>> /\ Unprocessed
      /\ nread \in 1..MaxReqs /\ UnusedTask \in Tasks /\ pc[UnusedTask] = "unused"
  <2>1. Unprocessed
    BY DEF ProcessAudio, Unprocessed
  <2> QED BY <2>1, TaskLeft DEF BaseType, ThreadType, ProcessAudio, reqVars
<1>r. [NoResp EXCEPT !.req = nread] \in Resp
  BY NoRespType DEF BaseType, ReqType, NoResp, Resp
<1> USE Names
<1>1. CASE pc' = [pc EXCEPT !["reader"] = "start_read", ![UnusedTask] = "queued"]
           /\ UNCHANGED <<ret, resp>>
  <2>n. PICK new : new = UnusedTask
    OBVIOUS
  <2>1. /\ pc'["reader"] = "start_read" /\ pc'[new] = "queued" /\ new \in Tasks
        /\ pc[new] = "unused" /\ \A u \in Thread : u \notin {"reader", new} => pc'[u] = pc[u]
    BY <1>0, <1>1, <2>n
  <2>2. ASSUME NEW u \in Thread
        PROVE  PlaceOf(u)'
    <3>1. PlaceOf(u)
      BY DEF PlaceInv
    <3>2. CASE u \notin {"reader", new}
      BY <1>0, <1>1, <2>1, <3>1, <3>2 DEF PlaceOf
    <3>3. CASE u \in {"reader", new}
      BY <1>0, <1>1, <2>1, <3>1, <3>3 DEF PlaceOf, ReaderLabel, TaskLabel, Sending, Flushing
    <3> QED BY <3>2, <3>3
  <2>3. UsedTasks' = UsedTasks \cup {new} /\ new \notin UsedTasks
    BY <2>1 DEF UsedTasks
  <2>4. IsFiniteSet(UsedTasks) /\ Cardinality(UsedTasks) \in Nat
    BY TasksAssumption, FS_Subset, FS_CardinalityType DEF UsedTasks
  <2>5. Cardinality(UsedTasks') = Cardinality(UsedTasks) + 1
    BY <2>3, <2>4, FS_AddElement
  <2>6. ~Unprocessed'
    BY <2>1 DEF Unprocessed
  <2>7. CountInv'
    BY <1>0, <2>4, <2>5, <2>6, MaxReqsAssumption DEF CountInv
  <2> QED BY <2>2, <2>7 DEF PlaceInv
<1>2. CASE (Goto("reader", "start_read") /\ UNCHANGED <<ret, resp>>)
           \/ CallSend("reader", [NoResp EXCEPT !.req = nread], "start_read")
  <2>1. /\ ret'["reader"] \in {ret["reader"], "start_read"}
        /\ pc'["reader"] \in {"start_read", "send"}
        /\ \A u \in Thread : u # "reader" => pc'[u] = pc[u] /\ ret'[u] = ret[u]
    <3>1. "start_read" \in ReturnLabel
      BY DEF ReturnLabel
    <3> QED BY <1>0, <1>2, <1>r, <3>1, GotoFacts, CallSendType
  <2>2. PlaceOf("reader")'
    BY <1>0, <2>1 DEF PlaceOf, PlaceInv, ReaderLabel, Sending
  <2> QED BY <1>0, <2>1, <2>2, OneMoves, CountKept
<1> QED BY <1>1, <1>2 DEF ProcessAudio

\* Tasks stay on their code, and used.
LEMMA TaskOwnPlace ==
    ASSUME BaseType, PlaceInv, CountInv, kind = "recognition", NEW t \in Tasks, TaskOwn(t)
    PROVE  PlaceInv' /\ CountInv'
<1>0. ThreadType /\ pc \in [Thread -> Label] /\ t \in Thread \ {"reader"} /\ PlaceOf(t)
  BY Names DEF BaseType, ThreadType, PlaceInv
<1>1. UNCHANGED <<kind, nread>>
  BY DEF TaskOwn, TaskTestCancelled, TaskTestProcessing, TaskSetProcessing, TaskLoopCancelled,
     TaskLoopProcessing, TaskPop, TaskTranslateFails, TaskFull, TaskSegments, TaskClear,
     TaskUsesFreed, baseButThreads, reqVars
<1>2. CASE TaskTranslateFails(t) \/ TaskSegments(t)
  <2>1. PICK r \in Resp, l \in {"clear", "loop_cancelled"} : CallSend(t, r, l)
    <3>1. [NoResp EXCEPT !.audio = context] \in Resp
      BY MaxReqsAssumption DEF BaseType, RecognitionType, NoResp, Resp
    <3> QED BY <1>2, <3>1, NoRespType DEF TaskTranslateFails, TaskSegments
  <2>2. l \in ReturnLabel
    BY <2>1 DEF ReturnLabel
  <2>3. /\ pc'[t] = "send" /\ ret'[t] = l
        /\ \A u \in Thread : u # t => pc'[u] = pc[u] /\ ret'[u] = ret[u]
    BY <1>0, <2>1, <2>2, CallSendType
  <2>4. pc[t] # "unused"
    BY <1>2 DEF TaskTranslateFails, TaskSegments
  <2>5. PlaceOf(t)'
    BY <1>0, <1>1, <2>1, <2>3, Names DEF PlaceOf, TaskLabel, Sending
  <2>6. PlaceInv' /\ UsedTasks' = UsedTasks /\ (Unprocessed' <=> Unprocessed)
    BY <1>0, <1>1, <2>3, <2>4, <2>5, OneMoves
  <2> QED BY <1>1, <2>6, CountKept
<1>3. CASE TaskUsesFreed(t)
  BY <1>3, NoneMoves DEF TaskUsesFreed, threadVars, reqVars
<1>4. CASE UNCHANGED ret /\ pc[t] # "unused"
           /\ \E l \in TaskLabel \ (Sending \cup {"unused"}) : Goto(t, l)
  <2>1. PICK l \in TaskLabel \ (Sending \cup {"unused"}) : Goto(t, l)
    BY <1>4
  <2>2. PlaceOf(t)'
    BY <1>0, <1>1, <1>4, <2>1, GotoFacts, Names DEF PlaceOf
  <2> QED BY <1>0, <1>1, <1>4, <2>1, <2>2, OtherMoves
<1>5. CASE TaskTestCancelled(t) \/ TaskTestProcessing(t) \/ TaskSetProcessing(t)
           \/ TaskLoopCancelled(t) \/ TaskLoopProcessing(t) \/ TaskPop(t) \/ TaskFull(t)
           \/ TaskClear(t)
  <2>1. {"ended", "test_processing", "set_processing", "loop_cancelled", "loop_processing", "pop",
         "clear", "full", "segments"} \subseteq TaskLabel \ (Sending \cup {"unused"})
    BY DEF TaskLabel, Sending, Flushing
  <2> QED BY <1>4, <1>5, <2>1 DEF TaskTestCancelled, TaskTestProcessing, TaskSetProcessing,
       TaskLoopCancelled, TaskLoopProcessing, TaskPop, TaskFull, TaskClear
<1> QED BY <1>2, <1>3, <1>5 DEF TaskOwn

\* The types, the places and the count hold across every step.
LEMMA PlaceStep ==
    ASSUME BaseType, PlaceInv, CountInv, [Next]_vars
    PROVE  BaseType' /\ PlaceInv' /\ CountInv'
<1>1. CASE UNCHANGED vars
  <2>1. BaseType'
    BY <1>1, Frames DEF vars, streamVars, BaseType
  <2> QED BY <1>1, <2>1, NoneMoves DEF vars, streamVars, threadVars, reqVars
<1>2. CASE OtherStreamFull /\ UNCHANGED stops
  <2>1. BaseType' /\ UNCHANGED streamVars
    BY <1>2, OtherStreamType
  <2> QED BY <2>1, NoneMoves DEF streamVars, threadVars, reqVars
<1> QED BY <1>1, <1>2, StepCases, CommonType, CommonPlace, EmbeddingOwnType, EmbeddingOwnPlace,
     ProcessAudioType, ProcessAudioPlace, TaskOwnType, TaskOwnPlace

-----------------------------------------------------------------------------
(* Finish.                                                                  *)

\* What never turns back.
LEMMA Monotone ==
    ASSUME BaseType, [Next]_vars
    PROVE  /\ UNCHANGED kind /\ (cancelled => cancelled') /\ (failed => failed')
           /\ (pipelined => pipelined') /\ (Cause => Cause')
<1>0. ThreadType /\ FlagType
  BY DEF BaseType
<1>1. UNCHANGED kind /\ (cancelled => cancelled') /\ (failed => failed') /\ (pipelined => pipelined')
  <2>1. CASE UNCHANGED vars \/ OtherStreamFull
    BY <2>1 DEF vars, OtherStreamFull, streamVars, flagVars, histVars
  <2>2. ASSUME NEW t \in Thread, SendAndFlush(t)
        PROVE  UNCHANGED <<kind, cancelled, failed, pipelined>>
    BY <1>0, <2>2, SendFacts
  <2>3. CASE Common
    <3>1. CASE \E t \in {"reader"} \cup Callbacks \cup Tasks : SendAndFlush(t)
      BY <2>2, <3>1, Names
    <3>2. CASE \E k \in {"param", "chunk", "neither"} :
                 ReadRequest(k, IF kind = "embedding" THEN "read_ok" ELSE "register")
      <4>1. /\ UNCHANGED <<kind, cancelled, failed>>
            /\ pipelined' = (pipelined \/ (kind = "embedding" /\ Len(wire) < nread))
        BY <3>2 DEF ReadRequest, flagVars
      <4>2. CASE pipelined
        BY <4>1, <4>2
      <4> QED BY <4>1, <4>2
    <3>3. CASE ReadEnd \/ EnsureRegistered \/ StartRead \/ OnDone \/ Disconnect
      BY <3>3 DEF ReadEnd, EnsureRegistered, StartRead, OnDone, Disconnect, flagVars, histVars
    <3>4. CASE \E c \in Callbacks, ok \in BOOLEAN : CompleteWrite(c, ok)
      <4>1. /\ UNCHANGED <<kind, cancelled, pipelined>>
            /\ \E ok \in BOOLEAN : failed' = (failed \/ ~ok)
        BY <3>4 DEF CompleteWrite, flagVars
      <4>2. CASE failed
        BY <4>1, <4>2
      <4> QED BY <4>1, <4>2
    <3>5. CASE \E c \in Callbacks :
                 ClearWriting(c, IF kind = "embedding" THEN "wd_test" ELSE "flush")
      BY <3>5 DEF ClearWriting, histVars
    <3>6. CASE (\E c \in Callbacks : WriteFailed(c)) \/ OnCancel
      BY <3>6 DEF WriteFailed, WriteFailedFinish, Finish, SetCancelled, Drain, OnCancel,
         OnCancelBegin, Unwrite, flagVars, histVars
    <3> QED BY <2>3, <3>1, <3>2, <3>3, <3>4, <3>5, <3>6 DEF Common
  <2>4. CASE EmbeddingOwn
    BY <2>4 DEF EmbeddingOwn, ReadTestCancelled, ProcessRequest, WrittenTestCancelled, Drain,
       WrittenFinish, Finish, StopEmbedding, Stop, SetCancelled, Unwrite, TryCancel, flagVars, histVars
  <2>5. CASE ProcessAudio
    BY <2>5 DEF ProcessAudio, flagVars, histVars
  <2>6. ASSUME NEW t \in Tasks, TaskOwn(t)
        PROVE  UNCHANGED <<kind, cancelled, failed, pipelined>>
    BY <2>6 DEF TaskOwn, TaskTestCancelled, TaskTestProcessing, TaskSetProcessing,
       TaskLoopCancelled, TaskLoopProcessing, TaskPop, TaskTranslateFails, TaskFull, TaskSegments,
       TaskClear, TaskUsesFreed, baseButThreads, flagVars, histVars
  <2> QED BY <2>1, <2>3, <2>4, <2>5, <2>6, StepCases
<1> QED BY <1>1 DEF Cause

\* What FinishInv says of one thread.
DrainOf(t) ==
    /\ pc[t] \in Draining => cancelled
    /\ t \in Callbacks /\ pc[t] \in {"write_failed", "wd_cancel", "wd_drain", "wd_finish"} => failed

\* A step that does not call Finish, and starts no read of its own.
LEMMA FinishKept ==
    ASSUME BaseType, FinishInv, [Next]_vars, UNCHANGED finish,
           misuse' = "double_finish" => misuse = "double_finish",
           reading' \/ pc'["reader"] # "idle" => reading \/ pc["reader"] # "idle",
           \A t \in Thread : pc'[t] = pc[t] \/ DrainOf(t)'
    PROVE  FinishInv'
<1>1. UNCHANGED kind /\ (cancelled => cancelled') /\ (failed => failed') /\ (Cause => Cause')
  BY Monotone
<1>2. ASSUME NEW t \in Thread
      PROVE  DrainOf(t)'
  <2>1. DrainOf(t)
    BY DEF DrainOf, FinishInv
  <2> QED BY <1>1, <2>1 DEF DrainOf
<1>3. DoubleFinishHasCause'
  BY <1>1 DEF FinishInv, DoubleFinishHasCause
<1>4. finish' # "none" /\ ~Cause' => ~reading' /\ pc'["reader"] = "idle"
  BY <1>1 DEF FinishInv
<1> QED BY <1>2, <1>3, <1>4, Names DEF FinishInv, DrainOf

\* A step that calls Finish, after the cause or at the end of the reads.
LEMMA FinishCalled ==
    ASSUME BaseType, FinishInv, [Next]_vars,
           misuse' = IF finish = "none" THEN misuse ELSE "double_finish",
           Cause' \/ (reading /\ ~reading' /\ pc'["reader"] = "idle"),
           \A t \in Thread : pc'[t] = pc[t] \/ DrainOf(t)'
    PROVE  FinishInv'
<1>1. UNCHANGED kind /\ (cancelled => cancelled') /\ (failed => failed') /\ (Cause => Cause')
  BY Monotone
<1>2. ASSUME NEW t \in Thread
      PROVE  DrainOf(t)'
  <2>1. DrainOf(t)
    BY DEF DrainOf, FinishInv
  <2> QED BY <1>1, <2>1 DEF DrainOf
<1>3. finish # "none" => Cause'
  BY <1>1 DEF FinishInv
<1>4. DoubleFinishHasCause'
  BY <1>1, <1>3 DEF FinishInv, DoubleFinishHasCause, Cause
<1> QED BY <1>2, <1>4, Names DEF FinishInv, DrainOf

\* Whoever drains was cancelled, and Finish is called twice with cause only.
LEMMA FinishStep ==
    ASSUME BaseType, PlaceInv, FinishInv, [Next]_vars
    PROVE  FinishInv'
<1>0. ThreadType /\ FlagType /\ pc \in [Thread -> Label]
  BY DEF BaseType, ThreadType
<1>m. (cancelled => cancelled') /\ (failed => failed') /\ UNCHANGED kind
  BY Monotone
<1> USE Names
<1>1. CASE UNCHANGED vars \/ OtherStreamFull
  BY <1>1, FinishKept DEF vars, OtherStreamFull, streamVars, threadVars, grpcVars, histVars
<1>2. ASSUME NEW t \in {"reader"} \cup Callbacks \cup Tasks, SendAndFlush(t)
      PROVE  FinishInv'
  <2>0. t \in Thread /\ PlaceOf(t)
    BY DEF PlaceInv
  <2>1. /\ UNCHANGED <<reading, finish>> /\ pc[t] \in Sending
        /\ \E l \in Flushing \cup {"enqueue", ret[t]} :
              Goto(t, l) /\ (l = "enqueue" /\ l # ret[t] => pc[t] = "send")
    BY <1>0, <1>2, <2>0, SendFacts
  <2>2. PICK l \in Flushing \cup {"enqueue", ret[t]} : Goto(t, l)
    BY <2>1
  <2>3. pc'[t] = l /\ \A u \in Thread : u # t => pc'[u] = pc[u]
    BY <1>0, <2>0, <2>2, GotoFacts
  <2>4. DrainOf(t)'
    BY <2>0, <2>1, <2>2, <2>3 DEF DrainOf, PlaceOf, Flushing, Draining
  <2>5. misuse' = "double_finish" => misuse = "double_finish"
    <3>1. CASE FlushStart(t)
      BY <3>1 DEF FlushStart, WriteMisuse
    <3> QED BY <1>0, <1>2, <2>0, <3>1, SendFacts
  <2>6. pc["reader"] = "idle" => pc'["reader"] = "idle"
    BY <2>1, <2>3 DEF Sending, Flushing
  <2> QED BY <2>1, <2>3, <2>4, <2>5, <2>6, FinishKept
<1>3. ASSUME NEW k, NEW l \in {"read_ok", "register"}, ReadRequest(k, l)
      PROVE  FinishInv'
  <2>1. pc'["reader"] = l /\ \A u \in Thread : u # "reader" => pc'[u] = pc[u]
    BY <1>0, <1>3, GotoFacts DEF ReadRequest
  <2>2. reading /\ UNCHANGED <<finish, misuse>>
    BY <1>3 DEF ReadRequest
  <2>3. DrainOf("reader")'
    BY <2>1 DEF DrainOf, Draining
  <2> QED BY <2>1, <2>2, <2>3, FinishKept
<1>4. CASE ReadEnd
  BY <1>4, FinishCalled DEF ReadEnd, threadVars
<1>5. CASE EnsureRegistered \/ StartRead
  <2>1. /\ pc'["reader"] \in {"process", "idle"} /\ pc["reader"] # "idle"
        /\ \A u \in Thread : u # "reader" => pc'[u] = pc[u]
    BY <1>0, <1>5, GotoFacts DEF EnsureRegistered, StartRead
  <2>2. UNCHANGED <<finish, misuse>>
    BY <1>5 DEF EnsureRegistered, StartRead, grpcVars, histVars
  <2>3. DrainOf("reader")'
    BY <2>1 DEF DrainOf, Draining
  <2> QED BY <2>1, <2>2, <2>3, FinishKept
<1>6. CASE Disconnect \/ OnDone
  BY <1>6, FinishKept DEF Disconnect, OnDone, threadVars, grpcVars, histVars
<1>7. ASSUME NEW t \in Thread \ {"reader"}, NEW l, Goto(t, l), UNCHANGED <<reading, finish, misuse>>,
             l \in Draining => cancelled',
             t \in Callbacks /\ l \in {"write_failed", "wd_cancel", "wd_drain", "wd_finish"} => failed'
      PROVE  FinishInv'
  <2>1. pc'[t] = l /\ \A u \in Thread : u # t => pc'[u] = pc[u]
    BY <1>0, <1>7, GotoFacts
  <2>2. DrainOf(t)'
    BY <1>7, <2>1 DEF DrainOf
  <2> QED BY <1>7, <2>1, <2>2, FinishKept
<1>8. ASSUME NEW c \in Callbacks, NEW ok \in BOOLEAN, CompleteWrite(c, ok)
      PROVE  FinishInv'
  <2>1. UNCHANGED <<reading, finish, misuse>> /\ (~ok => failed')
        /\ \E l \in {"written", "write_failed"} : Goto(c, l) /\ (l = "write_failed" => ~ok)
    BY <1>8 DEF CompleteWrite
  <2>2. {"written", "write_failed"} \cap Draining = {}
    BY DEF Draining
  <2> QED BY <1>7, <2>1, <2>2
<1>9. ASSUME NEW c \in Callbacks, NEW l \in {"wd_test", "flush"}, ClearWriting(c, l)
      PROVE  FinishInv'
  <2>1. /\ UNCHANGED <<reading, finish, misuse>>
        /\ \E m \in {l, "wd_cancel"} : Goto(c, m) /\ (m = "wd_cancel" => pc[c] = "write_failed")
    BY <1>9 DEF ClearWriting, grpcVars, histVars
  <2>2. {"wd_test", "flush", "wd_cancel"} \cap Draining = {} /\ (pc[c] = "write_failed" => failed')
    BY <1>m DEF Draining, FinishInv
  <2> QED BY <1>7, <2>1, <2>2
<1>10. ASSUME NEW t \in Thread \ {"reader"}, NEW l, NEW m,
              \/ SetCancelled(t, l, m) \/ (Drain(t, l, m) /\ l \in Draining)
              \/ (Unwrite(t) /\ m = "drain"),
              t \in Callbacks /\ m \in {"write_failed", "wd_cancel", "wd_drain", "wd_finish"} =>
                 pc[t] \in {"write_failed", "wd_cancel", "wd_drain", "wd_finish"}
       PROVE  FinishInv'
  <2>1. UNCHANGED <<reading, finish, misuse>> /\ (UNCHANGED pc \/ Goto(t, m))
    BY <1>10 DEF SetCancelled, Drain, Unwrite, grpcVars, histVars
  <2>2. cancelled'
    <3>1. CASE SetCancelled(t, l, m)
      BY <3>1 DEF SetCancelled
    <3>2. CASE (Drain(t, l, m) /\ l \in Draining) \/ Unwrite(t)
      <4>1. pc[t] \in Draining
        BY <1>10, <3>2 DEF Drain, Unwrite, Draining
      <4> QED BY <1>m, <4>1 DEF FinishInv
    <3> QED BY <1>10, <3>1, <3>2
  <2>3. CASE UNCHANGED pc
    BY <2>1, <2>3, FinishKept
  <2> QED BY <1>m, <1>7, <1>10, <2>1, <2>2, <2>3 DEF FinishInv
<1>11. ASSUME NEW c \in Callbacks, WriteFailed(c)
       PROVE  FinishInv'
  <2>1. CASE WriteFailedFinish(c)
    <3>1. pc[c] = "wd_finish" /\ pc'[c] = "idle" /\ \A u \in Thread : u # c => pc'[u] = pc[u]
      BY <1>0, <2>1, GotoFacts DEF WriteFailedFinish
    <3>2. Cause'
      BY <1>m, <3>1 DEF FinishInv, Draining, Cause
    <3>3. DrainOf(c)'
      BY <3>1 DEF DrainOf, Draining
    <3> QED BY <2>1, <3>1, <3>2, <3>3, FinishCalled DEF WriteFailedFinish, Finish
  <2>2. "wd_drain" \in Draining
    BY DEF Draining
  <2>3. CASE SetCancelled(c, "wd_cancel", "wd_drain")
    <3>1. pc[c] = "wd_cancel"
      BY <2>3 DEF SetCancelled
    <3> QED BY <1>10, <2>2, <2>3, <3>1
  <2>4. CASE Drain(c, "wd_drain", "wd_finish")
    <3>1. pc[c] = "wd_drain"
      BY <2>4 DEF Drain
    <3> QED BY <1>10, <2>2, <2>4, <3>1
  <2> QED BY <1>11, <2>1, <2>3, <2>4 DEF WriteFailed
<1>12. CASE OnCancel
  <2>1. CASE OnCancelBegin
    <3>1. UNCHANGED <<reading, finish, misuse>> /\ Goto("cancel", "cancel")
      BY <2>1 DEF OnCancelBegin, histVars
    <3> QED BY <1>7, <3>1 DEF Draining
  <2>2. "drain" \in Draining
    BY DEF Draining
  <2> QED BY <1>10, <1>12, <2>1, <2>2 DEF OnCancel
<1>13. CASE Common
  BY <1>2, <1>3, <1>4, <1>5, <1>6, <1>8, <1>9, <1>11, <1>12, <1>13 DEF Common
<1>14. CASE kind = "embedding" /\ EmbeddingOwn
  <2>1. CASE ReadTestCancelled
    <3>1. /\ pc["reader"] = "read_ok" /\ pc'["reader"] \in {"idle", "register"}
          /\ \A u \in Thread : u # "reader" => pc'[u] = pc[u]
      BY <1>0, <2>1, GotoFacts DEF ReadTestCancelled
    <3>2. DrainOf("reader")'
      BY <3>1 DEF DrainOf, Draining
    <3>3. CASE cancelled
      BY <1>m, <1>14, <2>1, <3>1, <3>2, <3>3, FinishCalled DEF ReadTestCancelled, Finish, Cause
    <3>4. CASE ~cancelled
      BY <2>1, <3>1, <3>2, <3>4, FinishKept DEF ReadTestCancelled, grpcVars, histVars
    <3> QED BY <3>3, <3>4
  <2>2. CASE ProcessRequest
    <3>1. /\ pc["reader"] = "process" /\ pc'["reader"] \in {"start_read", "send"}
          /\ \A u \in Thread : u # "reader" => pc'[u] = pc[u]
      BY <1>0, <2>2, GotoFacts DEF ProcessRequest, CallSend
    <3>2. DrainOf("reader")'
      BY <3>1 DEF DrainOf, Draining
    <3> QED BY <2>2, <3>1, <3>2, FinishKept DEF ProcessRequest, grpcVars, histVars
  <2>3. ASSUME NEW c \in Callbacks, WrittenTestCancelled(c)
        PROVE  FinishInv'
    <3>1. UNCHANGED <<reading, finish, misuse, cancelled>>
          /\ Goto(c, IF cancelled THEN "wd_drain_ok" ELSE "flush")
      BY <2>3 DEF WrittenTestCancelled, grpcVars, histVars, flagVars
    <3> QED BY <1>7, <3>1 DEF Draining
  <2>4. ASSUME NEW c \in Callbacks, WrittenFinish(c)
        PROVE  FinishInv'
    <3>1. pc[c] = "wd_finish_ok" /\ pc'[c] = "idle" /\ \A u \in Thread : u # c => pc'[u] = pc[u]
      BY <1>0, <2>4, GotoFacts DEF WrittenFinish
    <3>2. Cause'
      BY <1>m, <1>14, <3>1 DEF FinishInv, Draining, Cause
    <3>3. DrainOf(c)'
      BY <3>1 DEF DrainOf, Draining
    <3> QED BY <2>4, <3>1, <3>2, <3>3, FinishCalled DEF WrittenFinish, Finish
  <2>5. ASSUME NEW c \in Callbacks, Drain(c, "wd_drain_ok", "wd_finish_ok")
        PROVE  FinishInv'
    <3>1. "wd_drain_ok" \in Draining
      BY DEF Draining
    <3> QED BY <1>10, <2>5, <3>1
  <2>6. CASE StopEmbedding \/ TryCancel
    <3>1. UNCHANGED <<reading, finish, misuse>>
          /\ (Goto("stop", "cancel") \/ Goto("stop", "idle"))
      BY <2>6 DEF StopEmbedding, TryCancel, grpcVars, histVars
    <3> QED BY <1>7, <3>1 DEF Draining
  <2>7. CASE Stop
    <3>1. "drain" \in Draining
      BY DEF Draining
    <3> QED BY <1>10, <2>6, <2>7, <3>1 DEF Stop
  <2> QED BY <1>14, <2>1, <2>2, <2>3, <2>4, <2>5, <2>6, <2>7 DEF EmbeddingOwn
<1>15. CASE ProcessAudio
  <2>1. UNCHANGED <<reading, finish, misuse>> /\ pc["reader"] = "process"
    BY <1>15 DEF ProcessAudio, grpcVars, histVars
  <2>2. \A u \in Thread : pc'[u] = pc[u] \/ pc'[u] \in {"start_read", "queued", "send"}
    BY <1>0, <1>15 DEF ProcessAudio, CallSend, Goto
  <2>3. \A u \in Thread : pc'[u] = pc[u] \/ DrainOf(u)'
    BY <2>2 DEF DrainOf, Draining
  <2> QED BY <2>1, <2>3, FinishKept
<1>16. ASSUME NEW t \in Tasks, TaskOwn(t)
       PROVE  FinishInv'
  <2>1. UNCHANGED <<reading, finish>> /\ (misuse' = "double_finish" => misuse = "double_finish")
    BY <1>16 DEF TaskOwn, TaskTestCancelled, TaskTestProcessing, TaskSetProcessing,
       TaskLoopCancelled, TaskLoopProcessing, TaskPop, TaskTranslateFails, TaskFull, TaskSegments,
       TaskClear, TaskUsesFreed, baseButThreads, grpcVars, histVars
  <2>2. \A u \in Thread : \/ pc'[u] = pc[u]
                          \/ u = t /\ pc'[u] \in TaskLabel
    BY <1>0, <1>16, GotoFacts DEF TaskOwn, TaskTestCancelled, TaskTestProcessing, TaskSetProcessing,
       TaskLoopCancelled, TaskLoopProcessing, TaskPop, TaskTranslateFails, TaskFull, TaskSegments,
       TaskClear, TaskUsesFreed, CallSend, TaskLabel, Sending, threadVars
  <2>3. \A u \in Thread : pc'[u] = pc[u] \/ DrainOf(u)'
    BY <2>2 DEF DrainOf, Draining, TaskLabel, Sending, Flushing
  <2>4. pc'["reader"] = pc["reader"]
    BY <2>2
  <2> QED BY <2>1, <2>3, <2>4, FinishKept
<1> QED BY <1>1, <1>13, <1>14, <1>15, <1>16, StepCases

-----------------------------------------------------------------------------
(* What a step does to the responses: where they wait, who has them, and     *)
(* which request is still to be answered.                                    *)

\* No response moves.
Quiet ==
    /\ UNCHANGED <<queue, wire, nread, pipelined>>
    /\ Unprocessed' => Unprocessed
    /\ Unprocessed /\ ~Unprocessed' => cancelled' \/ kind = "recognition"
    /\ \A u \in Thread : resp'[u] = resp[u] /\ (pc'[u] \in Holding <=> pc[u] \in Holding)

Others(t) == \A u \in Thread : u # t => resp'[u] = resp[u] /\ pc'[u] = pc[u]

\* Thread t gives its response up, queues it, takes one from the queue, writes
\* it.
Gone(t) == Others(t) /\ pc[t] \in Holding /\ pc'[t] \notin Holding /\ resp'[t] = NoResp
GaveUp(t) == Gone(t) /\ cancelled' /\ UNCHANGED <<queue, wire>>
Queued(t) == Gone(t) /\ queue' = Append(queue, resp[t]) /\ UNCHANGED wire
Wrote(t) == /\ Gone(t) /\ UNCHANGED queue
            /\ wire' = Append(wire, resp[t]) \/ (UNCHANGED wire /\ ~Running')
Took(t) == /\ Others(t) /\ pc[t] \notin Holding /\ pc'[t] \in Holding
           /\ queue # <<>> /\ resp'[t] = Head(queue) /\ queue' = Tail(queue) /\ UNCHANGED wire
Moved(t) == /\ GaveUp(t) \/ Queued(t) \/ Wrote(t) \/ Took(t)
            /\ UNCHANGED <<nread, pipelined>> /\ (Unprocessed' <=> Unprocessed)

\* Thread t has a new response to send.
Called(t) == /\ Others(t) /\ pc[t] \notin Holding /\ pc'[t] = "send"
             /\ UNCHANGED <<queue, wire, nread, pipelined>>
             /\ Unprocessed' => Unprocessed
             /\ kind = "embedding" => Unprocessed /\ ~Unprocessed' /\ resp'[t].req = nread

\* A request is read.
NewRead == /\ nread' = nread + 1 /\ ~Unprocessed /\ Unprocessed' /\ UNCHANGED <<queue, wire>>
           /\ pipelined' = (pipelined \/ (kind = "embedding" /\ Len(wire) < nread))
           /\ \A u \in Thread : resp'[u] = resp[u] /\ (pc'[u] \in Holding <=> pc[u] \in Holding)

\* A response is thrown away because the stream is cancelled.
Discarded == /\ cancelled' /\ queue # <<>> /\ queue' = Tail(queue)
             /\ UNCHANGED <<pc, resp, wire, nread, pipelined>>

Effect == Quiet \/ (\E t \in Thread : Moved(t) \/ Called(t)) \/ NewRead \/ Discarded

\* A thread without a response moves on.
LEMMA QuietMove ==
    ASSUME BaseType, NEW t \in Thread, NEW l, l \notin Holding, Goto(t, l), pc[t] \notin Holding,
           UNCHANGED <<queue, wire, nread, pipelined>>, \A u \in Thread : resp'[u] = resp[u],
           t = "reader" => l \notin {"read_ok", "register", "process"} \/ Unprocessed,
           t = "reader" /\ Unprocessed /\ l \notin {"register", "process"} =>
              cancelled' \/ kind = "recognition"
    PROVE  Quiet
<1>1. pc'[t] = l /\ \A u \in Thread : u # t => pc'[u] = pc[u]
  BY GotoFacts DEF BaseType, ThreadType
<1>2. (Unprocessed' => Unprocessed)
      /\ (Unprocessed /\ ~Unprocessed' => cancelled' \/ kind = "recognition")
  BY <1>1, Names DEF Unprocessed
<1> QED BY <1>1, <1>2 DEF Quiet

\* What _send and _flush do to the responses.
LEMMA SendEffect ==
    ASSUME BaseType, PlaceInv, HoldInv, NEW t \in Thread, SendAndFlush(t)
    PROVE  Effect
<1>0. ThreadType /\ FlagType /\ PlaceOf(t) /\ pc \in [Thread -> Label] /\ resp \in [Thread -> Resp]
  BY DEF BaseType, PlaceInv, ThreadType
<1>1. /\ UNCHANGED <<cancelled, nread, pipelined>> /\ pc[t] \in Sending
      /\ \A u \in Thread : u # t => resp'[u] = resp[u]
  BY <1>0, SendFacts DEF reqVars
<1>2. ret[t] \in {"idle", "start_read", "loop_cancelled", "clear"}
  BY <1>0, <1>1, Names DEF PlaceOf, Sending, Flushing, CancelLabel
<1>3. \A l : Goto(t, l) => pc'[t] = l /\ \A u \in Thread : u # t => pc'[u] = pc[u]
  BY <1>0, GotoFacts
<1>4. \A l \in Flushing \cup {"enqueue", ret[t]} : Goto(t, l) => (Unprocessed' <=> Unprocessed)
  <2>1. "reader" \in Thread /\ (t = "reader" => ~Unprocessed)
    BY <1>1, Names DEF Unprocessed, Sending, Flushing
  <2> QED BY <1>2, <1>3, <2>1 DEF Unprocessed, Flushing
<1>5. Return(t) => resp'[t] = NoResp /\ Goto(t, ret[t])
  BY <1>0 DEF Return
<1>6. CASE SendIfNotCancelled(t)
  <2>1. pc[t] = "send" /\ UNCHANGED <<queue, wire>>
    BY <1>6 DEF SendIfNotCancelled, flagVars, grpcVars
  <2>2. CASE cancelled
    <3>1. Return(t)
      BY <1>6, <2>2 DEF SendIfNotCancelled
    <3>2. GaveUp(t)
      BY <1>1, <1>2, <1>3, <1>5, <2>1, <2>2, <3>1 DEF GaveUp, Gone, Others, Holding
    <3>3. Moved(t)
      BY <1>1, <1>4, <1>5, <3>1, <3>2 DEF Moved
    <3> QED BY <3>3 DEF Effect
  <2>3. CASE ~cancelled
    <3>1. Goto(t, "enqueue") /\ UNCHANGED resp
      BY <1>6, <2>3 DEF SendIfNotCancelled
    <3>2. Unprocessed' <=> Unprocessed
      BY <1>4, <3>1
    <3>3. Quiet
      BY <1>1, <1>3, <2>1, <3>1, <3>2 DEF Quiet, Holding
    <3> QED BY <3>3 DEF Effect
  <2> QED BY <2>2, <2>3
<1>7. CASE Enqueue(t)
  <2>1. /\ pc[t] = "enqueue" /\ UNCHANGED wire /\ queue' = Append(queue, resp[t])
        /\ resp'[t] = NoResp /\ Goto(t, "flush")
    BY <1>0, <1>7 DEF Enqueue, grpcVars
  <2>2. Queued(t)
    BY <1>1, <1>3, <2>1 DEF Queued, Gone, Others, Holding
  <2>3. Moved(t)
    BY <1>1, <1>4, <2>1, <2>2 DEF Moved, Flushing
  <2> QED BY <2>3 DEF Effect
<1>8. ASSUME pc[t] \notin Holding, UNCHANGED <<queue, wire>>,
             NEW l \in {ret[t], "flush_cancelled", "flush_dequeue"}, Goto(t, l), resp'[t] = NoResp \/ UNCHANGED resp
      PROVE  Effect
  <2>1. resp'[t] = resp[t]
    BY <1>8 DEF HoldInv
  <2>2. Unprocessed' <=> Unprocessed
    BY <1>4, <1>8 DEF Flushing
  <2>3. Quiet
    BY <1>1, <1>2, <1>3, <1>8, <2>1, <2>2 DEF Quiet, Holding
  <2> QED BY <2>3 DEF Effect
<1>9. CASE FlushIfNotWriting(t) \/ FlushIfNotCancelled(t)
  <2>1. pc[t] \notin Holding /\ UNCHANGED <<queue, wire>>
    BY <1>9 DEF FlushIfNotWriting, FlushIfNotCancelled, Holding, flagVars, grpcVars
  <2>2. Return(t) \/ (UNCHANGED resp /\ \E l \in {"flush_cancelled", "flush_dequeue"} : Goto(t, l))
    BY <1>9 DEF FlushIfNotWriting, FlushIfNotCancelled
  <2> QED BY <1>5, <1>8, <2>1, <2>2
<1>10. CASE FlushDequeue(t)
  <2>1. pc[t] = "flush_dequeue" /\ UNCHANGED wire
    BY <1>10 DEF FlushDequeue, grpcVars
  <2>2. CASE queue = <<>>
    <3>1. Return(t) /\ UNCHANGED queue
      BY <1>10, <2>2 DEF FlushDequeue
    <3> QED BY <1>5, <1>8, <2>1, <3>1 DEF Holding
  <2>3. CASE queue # <<>>
    <3>1. Goto(t, "flush_store") /\ resp'[t] = Head(queue) /\ queue' = Tail(queue)
      BY <1>0, <1>10, <2>3 DEF FlushDequeue
    <3>2. Took(t)
      BY <1>1, <1>3, <2>1, <2>3, <3>1 DEF Took, Others, Holding
    <3>3. Moved(t)
      BY <1>1, <1>4, <3>1, <3>2 DEF Moved, Flushing
    <3> QED BY <3>3 DEF Effect
  <2> QED BY <2>2, <2>3
<1>11. CASE FlushStore(t)
  <2>1. pc[t] = "flush_store" /\ Goto(t, "flush_start") /\ UNCHANGED <<resp, queue, wire>>
    BY <1>11 DEF FlushStore, grpcVars
  <2>2. Unprocessed' <=> Unprocessed
    BY <1>4, <2>1 DEF Flushing
  <2>3. Quiet
    BY <1>1, <1>3, <2>1, <2>2 DEF Quiet, Holding
  <2> QED BY <2>3 DEF Effect
<1>12. CASE FlushStart(t)
  <2>1. pc[t] = "flush_start" /\ Return(t) /\ UNCHANGED queue
    BY <1>12 DEF FlushStart, flagVars
  <2>2. wire' = Append(wire, resp[t]) \/ (UNCHANGED wire /\ ~Running')
    BY <1>12 DEF FlushStart, Running
  <2>3. Wrote(t)
    BY <1>1, <1>2, <1>3, <1>5, <2>1, <2>2 DEF Wrote, Gone, Others, Holding
  <2>4. Moved(t)
    BY <1>1, <1>4, <1>5, <2>1, <2>3 DEF Moved
  <2> QED BY <2>4 DEF Effect
<1> QED BY <1>6, <1>7, <1>9, <1>10, <1>11, <1>12 DEF SendAndFlush

\* _is_cancelled is set, _is_writing cleared, the queue drained.
LEMMA CancelEffect ==
    ASSUME BaseType, FinishInv, NEW t \in Thread \ {"reader"}, NEW l, l \notin Holding,
           NEW m, m \notin Holding,
           \/ SetCancelled(t, l, m)
           \/ (Drain(t, l, m) /\ l \in Draining)
           \/ (Unwrite(t) /\ l = "unwrite" /\ m = "drain")
    PROVE  Effect
<1>1. UNCHANGED <<resp, wire, nread, pipelined>> /\ pc[t] = l
  BY DEF SetCancelled, Drain, Unwrite, grpcVars, reqVars, histVars
<1>2. CASE Drain(t, l, m) /\ l \in Draining /\ queue # <<>>
  <2>1. cancelled'
    BY <1>1, <1>2 DEF Drain, FinishInv
  <2>2. Discarded
    BY <1>1, <1>2, <2>1 DEF Drain, Discarded
  <2> QED BY <2>2 DEF Effect
<1>3. CASE SetCancelled(t, l, m) \/ Unwrite(t) \/ (Drain(t, l, m) /\ queue = <<>>)
  <2>1. (Goto(t, m) \/ Goto(t, "drain")) /\ UNCHANGED queue
    BY <1>3 DEF SetCancelled, Unwrite, Drain
  <2>2. "drain" \notin Holding
    BY DEF Holding
  <2>3. Quiet
    BY <1>1, <2>1, <2>2, QuietMove
  <2> QED BY <2>3 DEF Effect
<1> QED BY <1>2, <1>3

\* What the steps that both streams have do to the responses.
LEMMA CommonEffect ==
    ASSUME BaseType, PlaceInv, FinishInv, HoldInv, Common
    PROVE  Effect
<1>0. pc \in [Thread -> Label] /\ ThreadType
  BY DEF BaseType, ThreadType
<1>h. /\ {"read_ok", "register", "process", "idle", "start_read", "written", "write_failed",
          "wd_test", "wd_cancel", "wd_drain", "wd_finish", "cancel", "unwrite", "drain", "flush"}
            \cap Holding = {}
      /\ {"drain", "wd_drain"} \subseteq Draining
  BY DEF Holding, Draining
<1> USE Names
<1>1. ASSUME NEW k, NEW l \in {"read_ok", "register"}, ReadRequest(k, l)
      PROVE  Effect
  <2>1. /\ pc["reader"] = "idle" /\ pc'["reader"] = l
        /\ \A u \in Thread : u # "reader" => pc'[u] = pc[u]
    BY <1>0, <1>1, GotoFacts DEF ReadRequest
  <2>2. NewRead
    BY <1>1, <1>h, <2>1 DEF ReadRequest, NewRead, Unprocessed, flagVars
  <2> QED BY <2>2 DEF Effect
<1>2. CASE ReadEnd \/ Disconnect \/ OnDone
  <2>1. UNCHANGED <<pc, resp, queue, wire, nread, pipelined>>
    BY <1>2 DEF ReadEnd, Disconnect, OnDone, threadVars, flagVars, reqVars, grpcVars, histVars
  <2>2. Quiet
    BY <2>1 DEF Quiet, Unprocessed
  <2> QED BY <2>2 DEF Effect
<1>3. CASE EnsureRegistered
  <2>1. /\ UNCHANGED <<resp, queue, wire, nread, pipelined>> /\ Goto("reader", "process")
        /\ pc["reader"] = "register" /\ Unprocessed
    BY <1>3 DEF EnsureRegistered, flagVars, reqVars, grpcVars, histVars, Unprocessed
  <2>2. Quiet
    BY <1>h, <2>1, QuietMove
  <2> QED BY <2>2 DEF Effect
<1>4. CASE StartRead
  <2>1. /\ UNCHANGED <<resp, queue, wire, nread, pipelined>> /\ Goto("reader", "idle")
        /\ pc["reader"] = "start_read" /\ ~Unprocessed
    BY <1>4 DEF StartRead, flagVars, histVars, Unprocessed
  <2>2. Quiet
    BY <1>h, <2>1, QuietMove
  <2> QED BY <2>2 DEF Effect
<1>5. ASSUME NEW t \in Thread \ {"reader"}, NEW l, l \notin Holding, Goto(t, l),
             pc[t] \notin Holding, UNCHANGED <<resp, queue, wire, nread, pipelined>>
      PROVE  Effect
  BY <1>5, QuietMove DEF Effect
<1>6. ASSUME NEW c \in Callbacks, NEW ok \in BOOLEAN, CompleteWrite(c, ok)
      PROVE  Effect
  <2>1. /\ UNCHANGED <<resp, queue, wire, nread, pipelined>> /\ pc[c] = "idle"
        /\ (Goto(c, "written") \/ Goto(c, "write_failed"))
    BY <1>6 DEF CompleteWrite, flagVars, reqVars
  <2> QED BY <1>h, <1>5, <2>1
<1>7. ASSUME NEW c \in Callbacks, NEW l \in {"wd_test", "flush"}, ClearWriting(c, l)
      PROVE  Effect
  <2>1. /\ UNCHANGED <<resp, queue, wire, nread, pipelined>> /\ pc[c] \in {"written", "write_failed"}
        /\ (Goto(c, l) \/ Goto(c, "wd_cancel"))
    BY <1>7 DEF ClearWriting, grpcVars, reqVars, histVars
  <2> QED BY <1>h, <1>5, <2>1
<1>8. ASSUME NEW c \in Callbacks, WriteFailed(c)
      PROVE  Effect
  <2>1. CASE WriteFailedFinish(c)
    <3>1. UNCHANGED <<resp, queue, wire, nread, pipelined>> /\ pc[c] = "wd_finish" /\ Goto(c, "idle")
      BY <2>1 DEF WriteFailedFinish, Finish, flagVars, reqVars
    <3> QED BY <1>h, <1>5, <3>1
  <2> QED BY <1>8, <1>h, <2>1, CancelEffect DEF WriteFailed
<1>9. CASE OnCancel
  <2>1. CASE OnCancelBegin
    <3>1. UNCHANGED <<resp, queue, wire, nread, pipelined>> /\ Goto("cancel", "cancel")
      BY <2>1 DEF OnCancelBegin, flagVars, reqVars, histVars
    <3>2. pc["cancel"] \notin Holding
      BY DEF PlaceInv, PlaceOf, CancelLabel, Holding
    <3> QED BY <1>h, <1>5, <3>1, <3>2
  <2> QED BY <1>9, <1>h, <2>1, CancelEffect DEF OnCancel
<1> QED BY <1>1, <1>2, <1>3, <1>4, <1>6, <1>7, <1>8, <1>9, SendEffect DEF Common

\* What the steps of an embedding stream do to them.
LEMMA EmbeddingOwnEffect ==
    ASSUME BaseType, PlaceInv, FinishInv, HoldInv, kind = "embedding", EmbeddingOwn
    PROVE  Effect
<1>0. pc \in [Thread -> Label] /\ ThreadType
  BY DEF BaseType, ThreadType
<1>h. /\ {"read_ok", "register", "process", "idle", "start_read", "wd_test", "wd_drain_ok",
          "wd_finish_ok", "cancel", "unwrite", "drain", "try_cancel", "flush"} \cap Holding = {}
      /\ {"drain", "wd_drain_ok"} \subseteq Draining
  BY DEF Holding, Draining
<1> USE Names
<1>1. CASE ReadTestCancelled
  <2>1. /\ UNCHANGED <<resp, queue, wire, nread, pipelined, cancelled>> /\ pc["reader"] = "read_ok"
        /\ Unprocessed
        /\ (Goto("reader", "register") \/ (Goto("reader", "idle") /\ cancelled))
    BY <1>1 DEF ReadTestCancelled, Finish, flagVars, reqVars, grpcVars, histVars, Unprocessed
  <2>2. Quiet
    BY <1>h, <2>1, QuietMove
  <2> QED BY <2>2 DEF Effect
<1>2. CASE ProcessRequest
  <2>1. /\ UNCHANGED <<queue, wire, nread, pipelined, cancelled>> /\ pc["reader"] = "process"
        /\ Unprocessed
    BY <1>2 DEF ProcessRequest, flagVars, reqVars, grpcVars, histVars, Unprocessed
  <2>2. CASE cancelled /\ Goto("reader", "start_read") /\ UNCHANGED <<ret, resp>>
    <3>1. Quiet
      BY <1>h, <2>1, <2>2, QuietMove
    <3> QED BY <3>1 DEF Effect
  <2>3. CASE CallSend("reader", [NoResp EXCEPT !.req = nread], "start_read")
    <3>1. [NoResp EXCEPT !.req = nread] \in Resp /\ [NoResp EXCEPT !.req = nread].req = nread
          /\ "start_read" \in ReturnLabel
      BY NoRespType DEF BaseType, ReqType, NoResp, Resp, ReturnLabel
    <3>2. /\ pc'["reader"] = "send" /\ resp'["reader"].req = nread
          /\ \A u \in Thread : u # "reader" => pc'[u] = pc[u] /\ resp'[u] = resp[u]
      <4>1. PICK r \in Resp : r = [NoResp EXCEPT !.req = nread] /\ r.req = nread
        BY <3>1
      <4>2. CallSend("reader", r, "start_read") /\ "start_read" \in ReturnLabel /\ "reader" \in Thread
        BY <2>3, <3>1, <4>1
      <4>3. /\ pc'["reader"] = "send" /\ resp'["reader"] = r
            /\ \A u \in Thread : u # "reader" => pc'[u] = pc[u] /\ resp'[u] = resp[u]
        BY <1>0, <4>2, CallSendType
      <4> QED BY <4>1, <4>3
    <3>3. Called("reader")
      BY <1>h, <2>1, <3>2 DEF Called, Others, Unprocessed
    <3> QED BY <3>3 DEF Effect
  <2> QED BY <1>2, <2>2, <2>3 DEF ProcessRequest
<1>3. ASSUME NEW t \in Thread \ {"reader"}, NEW l, l \notin Holding, Goto(t, l),
             pc[t] \notin Holding, UNCHANGED <<resp, queue, wire, nread, pipelined>>
      PROVE  Effect
  BY <1>3, QuietMove DEF Effect
<1>4. ASSUME NEW c \in Callbacks, WrittenTestCancelled(c)
      PROVE  Effect
  <2>1. /\ UNCHANGED <<resp, queue, wire, nread, pipelined>> /\ pc[c] = "wd_test"
        /\ (Goto(c, "flush") \/ Goto(c, "wd_drain_ok"))
    BY <1>4 DEF WrittenTestCancelled, flagVars, grpcVars, reqVars, histVars
  <2> QED BY <1>h, <1>3, <2>1
<1>5. ASSUME NEW c \in Callbacks, WrittenFinish(c)
      PROVE  Effect
  <2>1. /\ UNCHANGED <<resp, queue, wire, nread, pipelined>> /\ pc[c] = "wd_finish_ok"
        /\ Goto(c, "idle")
    BY <1>5 DEF WrittenFinish, Finish, flagVars, reqVars
  <2> QED BY <1>h, <1>3, <2>1
<1>6. CASE StopEmbedding \/ TryCancel
  <2>1. UNCHANGED <<resp, queue, wire, nread, pipelined>>
        /\ (Goto("stop", "cancel") \/ Goto("stop", "idle"))
    BY <1>6 DEF StopEmbedding, TryCancel, flagVars, grpcVars, reqVars, histVars
  <2>2. pc["stop"] \notin Holding
    BY DEF PlaceInv, PlaceOf, CancelLabel, Holding
  <2> QED BY <1>h, <1>3, <2>1, <2>2
<1>7. CASE Stop
  BY <1>6, <1>7, <1>h, CancelEffect DEF Stop
<1> QED BY <1>1, <1>2, <1>4, <1>5, <1>6, <1>7, <1>h, CancelEffect DEF EmbeddingOwn

\* What _process of a recognition stream does to them.
LEMMA ProcessAudioEffect ==
    ASSUME BaseType, PlaceInv, CountInv, kind = "recognition", ProcessAudio
    PROVE  Effect
<1>0. /\ pc \in [Thread -> Label] /\ ThreadType /\ Unprocessed /\ pc["reader"] = "process"
      /\ UNCHANGED <<queue, wire, nread, pipelined>>
      /\ UnusedTask \in Tasks /\ pc[UnusedTask] = "unused"
  <2>1. Unprocessed
    BY DEF ProcessAudio, Unprocessed
  <2> QED BY <2>1, TaskLeft DEF BaseType, ThreadType, ProcessAudio, flagVars, reqVars, grpcVars,
       histVars
<1>h. {"process", "start_read", "unused", "queued"} \cap Holding = {}
  BY DEF Holding
<1> USE Names
<1>1. CASE Goto("reader", "start_read") /\ UNCHANGED <<ret, resp>>
  <2>1. Quiet
    BY <1>0, <1>1, <1>h, QuietMove
  <2> QED BY <2>1 DEF Effect
<1>2. CASE pc' = [pc EXCEPT !["reader"] = "start_read", ![UnusedTask] = "queued"]
           /\ UNCHANGED <<ret, resp>>
  <2>1. \A u \in Thread : pc'[u] \in Holding <=> pc[u] \in Holding
    BY <1>0, <1>2, <1>h
  <2>2. Quiet
    BY <1>0, <1>2, <2>1 DEF Quiet, Unprocessed
  <2> QED BY <2>2 DEF Effect
<1>3. CASE CallSend("reader", [NoResp EXCEPT !.req = nread], "start_read")
  <2>1. [NoResp EXCEPT !.req = nread] \in Resp /\ "start_read" \in ReturnLabel
    BY NoRespType DEF BaseType, ReqType, NoResp, Resp, ReturnLabel
  <2>2. /\ pc'["reader"] = "send"
        /\ \A u \in Thread : u # "reader" => pc'[u] = pc[u] /\ resp'[u] = resp[u]
    BY <1>0, <1>3, <2>1, CallSendType
  <2>3. Called("reader")
    BY <1>0, <1>h, <2>2 DEF Called, Others, Unprocessed
  <2> QED BY <2>3 DEF Effect
<1> QED BY <1>1, <1>2, <1>3 DEF ProcessAudio

\* What a task does to them.
LEMMA TaskOwnEffect ==
    ASSUME BaseType, kind = "recognition", NEW t \in Tasks, TaskOwn(t)
    PROVE  Effect
<1>0. /\ pc \in [Thread -> Label] /\ ThreadType /\ t \in Thread \ {"reader"}
      /\ UNCHANGED <<queue, wire, nread, pipelined>>
  BY Names DEF BaseType, ThreadType, TaskOwn, TaskTestCancelled, TaskTestProcessing, TaskSetProcessing,
     TaskLoopCancelled, TaskLoopProcessing, TaskPop, TaskTranslateFails, TaskFull, TaskSegments,
     TaskClear, TaskUsesFreed, baseButThreads, flagVars, reqVars, grpcVars, histVars
<1>h. {"ended", "queued", "test_processing", "set_processing", "loop_cancelled", "loop_processing",
       "pop", "clear", "full", "segments"} \cap Holding = {}
  BY DEF Holding
<1>1. CASE TaskTestCancelled(t) \/ TaskTestProcessing(t) \/ TaskSetProcessing(t)
           \/ TaskLoopCancelled(t) \/ TaskLoopProcessing(t) \/ TaskPop(t) \/ TaskFull(t)
           \/ TaskClear(t)
  <2>1. /\ UNCHANGED resp /\ pc[t] \notin Holding
        /\ \E l \in {"ended", "test_processing", "set_processing", "loop_cancelled",
                     "loop_processing", "pop", "clear", "full", "segments"} : Goto(t, l)
    BY <1>1, <1>h DEF TaskTestCancelled, TaskTestProcessing, TaskSetProcessing, TaskLoopCancelled,
       TaskLoopProcessing, TaskPop, TaskFull, TaskClear
  <2>2. Quiet
    BY <1>0, <1>h, <2>1, QuietMove
  <2> QED BY <2>2 DEF Effect
<1>2. CASE TaskUsesFreed(t)
  <2>1. Quiet
    BY <1>0, <1>2 DEF TaskUsesFreed, threadVars, Quiet, Unprocessed
  <2> QED BY <2>1 DEF Effect
<1>3. CASE TaskTranslateFails(t) \/ TaskSegments(t)
  <2>1. PICK r \in Resp, l \in {"clear", "loop_cancelled"} : CallSend(t, r, l)
    <3>1. [NoResp EXCEPT !.audio = context] \in Resp
      BY MaxReqsAssumption DEF BaseType, RecognitionType, NoResp, Resp
    <3> QED BY <1>3, <3>1, NoRespType DEF TaskTranslateFails, TaskSegments
  <2>2. l \in ReturnLabel /\ pc[t] \notin Holding
    BY <1>3, <1>h, <2>1 DEF TaskTranslateFails, TaskSegments, ReturnLabel
  <2>3. pc'[t] = "send" /\ \A u \in Thread : u # t => pc'[u] = pc[u] /\ resp'[u] = resp[u]
    BY <1>0, <2>1, <2>2, CallSendType
  <2>4. Unprocessed' => Unprocessed
    BY <1>0, <2>3, Names DEF Unprocessed
  <2>5. Called(t)
    BY <1>0, <2>2, <2>3, <2>4 DEF Called, Others
  <2> QED BY <1>0, <2>5 DEF Effect
<1> QED BY <1>1, <1>2, <1>3 DEF TaskOwn

\* What every step does to the responses.
LEMMA Effects ==
    ASSUME BaseType, PlaceInv, CountInv, FinishInv, HoldInv, [Next]_vars
    PROVE  Effect
<1>1. CASE UNCHANGED vars \/ OtherStreamFull
  <2>1. Quiet
    BY <1>1 DEF Quiet, Unprocessed, vars, OtherStreamFull, streamVars, threadVars, flagVars, reqVars, grpcVars, histVars
  <2> QED BY <2>1 DEF Effect
<1> QED BY <1>1, StepCases, CommonEffect, EmbeddingOwnEffect, ProcessAudioEffect, TaskOwnEffect

-----------------------------------------------------------------------------
(* Answers.                                                                 *)

\* Only threads with a response have one.
LEMMA HoldStep ==
    ASSUME HoldInv, Effect
    PROVE  HoldInv'
<1>1. CASE Quiet \/ NewRead \/ Discarded
  BY <1>1 DEF Quiet, NewRead, Discarded, HoldInv
<1>2. ASSUME NEW t \in Thread, Moved(t) \/ Called(t)
      PROVE  HoldInv'
  <2>1. Others(t) /\ (pc'[t] \notin Holding => resp'[t] = NoResp)
    BY <1>2 DEF Moved, GaveUp, Queued, Wrote, Took, Gone, Called, Holding
  <2> QED BY <2>1 DEF Others, HoldInv
<1> QED BY <1>1, <1>2 DEF Effect

\* An answer on its way stays so, unless the stream is cancelled or breaks
\* off.
LEMMA AnsweredStays ==
    ASSUME BaseType, BaseType', Effect, ~cancelled', Running', NEW n \in 1..nread, Answered(n)
    PROVE  Answered(n)'
<1>0. /\ wire \in Seq(Resp) /\ wire' \in Seq(Resp) /\ queue \in Seq(Resp) /\ queue' \in Seq(Resp)
      /\ n \in Nat \ {0}
  BY MaxReqsAssumption DEF BaseType, GrpcType, FlagType, ReqType
<1>1. CASE Quiet \/ NewRead
  BY <1>1 DEF Quiet, NewRead, Answered
<1>2. CASE Discarded
  BY <1>2 DEF Discarded
<1>3. ASSUME NEW t \in Thread, Called(t)
      PROVE  Answered(n)'
  BY <1>3 DEF Called, Others, Answered
<1>4. ASSUME NEW t \in Thread, Moved(t)
      PROVE  Answered(n)'
  <2>1. CASE GaveUp(t)
    BY <2>1 DEF GaveUp
  <2>2. CASE Queued(t)
    <3>1. Len(queue') = Len(queue) + 1 /\ Len(queue) \in Nat /\ queue'[Len(queue) + 1] = resp[t]
          /\ \A i \in 1..Len(queue) : queue'[i] = queue[i]
      BY <1>0, <2>2 DEF Queued
    <3>2. /\ UNCHANGED wire
          /\ \A u \in Thread : u # t => resp'[u] = resp[u] /\ pc'[u] = pc[u]
      BY <2>2 DEF Queued, Gone, Others
    <3> QED BY <3>1, <3>2 DEF Answered
  <2>3. CASE Wrote(t)
    <3>1. Len(wire') = Len(wire) + 1 /\ Len(wire) \in Nat /\ wire'[Len(wire) + 1] = resp[t]
          /\ \A i \in 1..Len(wire) : wire'[i] = wire[i]
      BY <1>0, <2>3 DEF Wrote
    <3>2. /\ UNCHANGED queue
          /\ \A u \in Thread : u # t => resp'[u] = resp[u] /\ pc'[u] = pc[u]
      BY <2>3 DEF Wrote, Gone, Others
    <3> QED BY <3>1, <3>2 DEF Answered
  <2>4. CASE Took(t)
    <3>1. /\ Len(queue) \in Nat /\ Len(queue) > 0 /\ Len(queue') = Len(queue) - 1
          /\ resp'[t] = queue[1] /\ \A i \in 1..Len(queue') : queue'[i] = queue[i + 1]
      BY <1>0, <2>4 DEF Took
    <3>2. /\ UNCHANGED wire /\ pc[t] \notin Holding /\ pc'[t] \in Holding
          /\ \A u \in Thread : u # t => resp'[u] = resp[u] /\ pc'[u] = pc[u]
      BY <2>4 DEF Took, Others
    <3>3. ASSUME NEW i \in 1..Len(queue), queue[i].req = n
          PROVE  Answered(n)'
      <4>1. CASE i = 1
        BY <3>1, <3>2, <3>3, <4>1 DEF Answered
      <4>2. CASE i # 1
        <5>1. i - 1 \in 1..Len(queue') /\ queue'[i - 1] = queue[i]
          BY <3>1, <4>2
        <5> QED BY <3>3, <5>1 DEF Answered
      <4> QED BY <4>1, <4>2
    <3> QED BY <3>2, <3>3 DEF Answered
  <2> QED BY <1>4, <2>1, <2>2, <2>3, <2>4 DEF Moved
<1> QED BY <1>1, <1>2, <1>3, <1>4 DEF Effect

\* Requests stay answered, and one that is processed gets an answer.
LEMMA AnswerStep ==
    ASSUME BaseType, BaseType', CountInv, AnswerInv, [Next]_vars, Effect
    PROVE  AnswerInv'
<1>1. SUFFICES ASSUME kind' = "embedding", Running', ~cancelled', NEW n \in 1..nread',
                      ~(n = nread' /\ Unprocessed')
               PROVE  Answered(n)'
  BY DEF AnswerInv
<1>2. kind = "embedding" /\ ~cancelled
  BY <1>1, Monotone
<1>3. CASE UNCHANGED vars
  BY <1>1, <1>2, <1>3 DEF AnswerInv, Answered, Unprocessed, Running, vars, streamVars, threadVars,
     flagVars, reqVars, grpcVars, histVars
<1>4. CASE Running
  <2>1. nread \in Nat /\ nread' \in Nat
    BY MaxReqsAssumption DEF BaseType, ReqType
  <2>2. CASE n \in 1..nread /\ ~(n = nread /\ Unprocessed)
    <3>1. Answered(n)
      BY <1>2, <1>4, <2>2 DEF AnswerInv
    <3> QED BY <1>1, <2>2, <3>1, AnsweredStays
  <2>3. CASE ~(n \in 1..nread /\ ~(n = nread /\ Unprocessed))
    <3>1. CASE Quiet
      BY <1>1, <1>2, <2>1, <2>3, <3>1 DEF Quiet
    <3>2. CASE NewRead
      BY <1>1, <2>1, <2>3, <3>2 DEF NewRead
    <3>3. CASE Discarded
      BY <1>1, <3>3 DEF Discarded
    <3>4. ASSUME NEW t \in Thread, Moved(t)
          PROVE  Answered(n)'
      BY <1>1, <2>1, <2>3, <3>4 DEF Moved
    <3>5. ASSUME NEW t \in Thread, Called(t)
          PROVE  Answered(n)'
      <4>1. n = nread /\ pc'[t] \in Holding /\ resp'[t].req = n
        BY <1>1, <1>2, <2>1, <2>3, <3>5 DEF Called, Holding
      <4> QED BY <4>1 DEF Answered
    <3> QED BY <3>1, <3>2, <3>3, <3>4, <3>5 DEF Effect
  <2> QED BY <2>2, <2>3
<1> QED BY <1>3, <1>4, StepCases

\* A client that waits for its answers has at most one on its way.
LEMMA LockstepStep ==
    ASSUME BaseType, BaseType', CountInv, CountInv', LockstepInv, [Next]_vars, Effect
    PROVE  LockstepInv'
<1>1. SUFFICES ASSUME kind' = "embedding", ~pipelined'
               PROVE  LockstepInv'
  BY DEF LockstepInv
<1>2. kind = "embedding" /\ ~pipelined
  BY <1>1, Monotone
<1>3. /\ wire \in Seq(Resp) /\ wire' \in Seq(Resp) /\ queue \in Seq(Resp) /\ queue' \in Seq(Resp)
      /\ nread \in Nat /\ nread' \in Nat /\ Len(wire) \in Nat /\ Len(queue) \in Nat
  BY MaxReqsAssumption DEF BaseType, GrpcType, FlagType, ReqType
<1>4. /\ nread - 1 <= Len(wire) /\ Len(wire) <= nread
      /\ \A i \in 1..Len(wire) : wire[i].req = i
      /\ Unprocessed => Len(wire) = nread - 1
      /\ Unprocessed \/ Len(wire) = nread =>
            queue = <<>> /\ \A t \in Thread : pc[t] \notin Holding
      /\ \A t \in Thread : pc[t] \in Holding => queue = <<>> /\ resp[t].req = nread
      /\ \A t, u \in Thread : pc[t] \in Holding /\ pc[u] \in Holding => t = u
      /\ Len(queue) <= 1 /\ \A i \in 1..Len(queue) : queue[i].req = nread
  BY <1>2 DEF LockstepInv
<1>5. CASE Quiet
  BY <1>3, <1>4, <1>5 DEF Quiet, LockstepInv
<1>6. CASE NewRead
  <2>1. Len(wire) = nread
    <3>1. pipelined' = (pipelined \/ (kind = "embedding" /\ Len(wire) < nread))
      BY <1>6 DEF NewRead
    <3>2. ASSUME Len(wire) < nread
          PROVE  FALSE
      BY <1>1, <1>2, <3>1, <3>2
    <3> QED BY <1>3, <1>4, <3>2
  <2>2. queue = <<>> /\ \A t \in Thread : pc'[t] \notin Holding
    BY <1>4, <1>6, <2>1 DEF NewRead
  <2> QED BY <1>3, <1>4, <1>6, <2>1, <2>2 DEF NewRead, LockstepInv
<1>7. CASE Discarded
  <2>1. queue' = <<>> /\ Len(queue) # 0
    BY <1>3, <1>4, <1>7 DEF Discarded
  <2>2. (Unprocessed' <=> Unprocessed) /\ UNCHANGED <<pc, resp, wire, nread>>
    BY <1>7 DEF Discarded, Unprocessed
  <2> QED BY <1>3, <1>4, <2>1, <2>2 DEF LockstepInv
<1>8. ASSUME NEW t \in Thread, Called(t)
      PROVE  LockstepInv'
  <2>1. /\ Unprocessed /\ ~Unprocessed' /\ resp'[t].req = nread /\ pc'[t] \in Holding
        /\ UNCHANGED <<queue, wire, nread>> /\ \A u \in Thread : u # t => pc'[u] = pc[u]
    BY <1>2, <1>8 DEF Called, Others, Holding
  <2>2. queue = <<>> /\ Len(wire) = nread - 1 /\ \A u \in Thread : u # t => pc'[u] \notin Holding
    BY <1>4, <2>1
  <2> QED BY <1>3, <1>4, <2>1, <2>2 DEF LockstepInv
<1>9. ASSUME NEW t \in Thread, Moved(t)
      PROVE  LockstepInv'
  <2>1. UNCHANGED nread /\ (Unprocessed' <=> Unprocessed) /\ Others(t)
    BY <1>9 DEF Moved, GaveUp, Queued, Wrote, Took, Gone
  <2>2. CASE Gone(t)
    <3>1. /\ queue = <<>> /\ resp[t].req = nread /\ ~Unprocessed /\ Len(wire) = nread - 1
          /\ \A u \in Thread : pc'[u] \notin Holding
      BY <1>3, <1>4, <2>1, <2>2 DEF Gone, Others
    <3>2. CASE GaveUp(t) \/ (UNCHANGED <<wire, queue>>)
      BY <1>3, <1>4, <2>1, <3>1, <3>2 DEF GaveUp, LockstepInv
    <3>3. CASE Queued(t)
      <4>1. /\ Len(queue') = 1 /\ queue'[1].req = nread /\ UNCHANGED wire
        BY <1>3, <3>1, <3>3 DEF Queued
      <4> QED BY <1>3, <1>4, <2>1, <3>1, <4>1 DEF LockstepInv
    <3>4. CASE wire' = Append(wire, resp[t]) /\ UNCHANGED queue
      <4>1. /\ Len(wire') = nread /\ wire'[nread].req = nread
            /\ \A i \in 1..(nread - 1) : wire'[i].req = i
        BY <1>3, <1>4, <3>1, <3>4
      <4>2. \A i \in 1..nread : wire'[i].req = i
        BY <1>3, <4>1
      <4> QED BY <1>3, <2>1, <3>1, <3>4, <4>1, <4>2 DEF LockstepInv
    <3> QED BY <1>9, <2>2, <3>2, <3>3, <3>4 DEF Moved, Wrote, Took, Gone
  <2>3. CASE Took(t)
    <3>1. /\ queue # <<>> /\ Len(queue) = 1 /\ queue' = <<>> /\ resp'[t].req = nread
          /\ UNCHANGED wire /\ pc'[t] \in Holding
      <4>1. queue # <<>> /\ resp'[t] = Head(queue) /\ queue' = Tail(queue) /\ UNCHANGED wire
            /\ pc'[t] \in Holding
        BY <2>3 DEF Took
      <4>2. Len(queue) = 1 /\ Head(queue) = queue[1] /\ Tail(queue) = <<>>
        <5>1. Len(queue) # 0
          BY <1>3, <4>1
        <5>n. PICK n \in Nat : n = Len(queue)
          BY <1>3
        <5>0. n <= 1
          BY <1>4, <5>n
        <5>2. Len(queue) = 1
          <6>1. n = 1
            BY <5>n, <5>0, <5>1
          <6> QED BY <5>n, <6>1
        <5>3. Head(queue) = queue[1] /\ Tail(queue) \in Seq(Resp) /\ Len(Tail(queue)) = 0
          BY <1>3, <4>1, <5>2
        <5> QED BY <5>2, <5>3, EmptySeq
      <4>3. queue[1].req = nread
        BY <1>4, <4>2
      <4> QED BY <4>1, <4>2, <4>3
    <3>2. ~Unprocessed /\ Len(wire) = nread - 1 /\ \A u \in Thread : pc[u] \notin Holding
      BY <1>3, <1>4, <3>1
    <3>3. \A u \in Thread : u # t => pc'[u] \notin Holding
      BY <2>1, <3>2 DEF Others
    <3> QED BY <1>3, <1>4, <2>1, <3>1, <3>2, <3>3 DEF LockstepInv
  <2> QED BY <1>9, <2>2, <2>3 DEF Moved, GaveUp, Queued, Wrote
<1> QED BY <1>5, <1>6, <1>7, <1>8, <1>9 DEF Effect

-----------------------------------------------------------------------------
(* The tasks of a recognition stream.                                       *)

\* What the steps that both streams have do to tasks: one of them may take a
\* step of _send or _flush.
LEMMA CommonTasks ==
    ASSUME BaseType, PlaceInv, Common
    PROVE  \A t \in Tasks :
              /\ ret'[t] = ret[t]
              /\ \/ pc'[t] = pc[t]
                 \/ /\ pc[t] \in Sending
                    /\ pc'[t] \in Sending \cup {"loop_cancelled", "clear"}
                    /\ pc'[t] = "clear" => ret[t] = "clear"
<1>0. pc \in [Thread -> Label] /\ ThreadType /\ FlagType
  BY DEF BaseType, ThreadType
<1> USE Names
<1>1. ASSUME NEW t \in {"reader"} \cup Callbacks \cup Tasks, SendAndFlush(t), NEW u \in Tasks
      PROVE  /\ ret'[u] = ret[u]
             /\ \/ pc'[u] = pc[u]
                \/ /\ pc[u] \in Sending /\ pc'[u] \in Sending \cup {"loop_cancelled", "clear"}
                   /\ pc'[u] = "clear" => ret[u] = "clear"
  <2>1. /\ UNCHANGED ret /\ pc[t] \in Sending
        /\ \E l \in Flushing \cup {"enqueue", ret[t]} :
              Goto(t, l) /\ (l = "enqueue" /\ l # ret[t] => pc[t] = "send")
    BY <1>0, <1>1, SendFacts
  <2>2. PICK l \in Flushing \cup {"enqueue", ret[t]} : Goto(t, l)
    BY <2>1
  <2>3. pc'[t] = l /\ \A v \in Thread : v # t => pc'[v] = pc[v]
    BY <1>0, <2>2, GotoFacts
  <2>4. PlaceOf(t)
    BY DEF PlaceInv
  <2> QED BY <2>1, <2>2, <2>3, <2>4 DEF PlaceOf, Sending, Flushing
<1>2. ASSUME NEW t \in Thread \ Tasks, NEW l, Goto(t, l) \/ UNCHANGED pc
      PROVE  \A u \in Tasks : pc'[u] = pc[u]
  BY <1>0, <1>2, GotoFacts
<1>3. CASE (\E k \in {"param", "chunk", "neither"} :
               ReadRequest(k, IF kind = "embedding" THEN "read_ok" ELSE "register"))
           \/ ReadEnd \/ EnsureRegistered \/ StartRead \/ OnDone \/ Disconnect
  BY <1>2, <1>3 DEF ReadRequest, ReadEnd, EnsureRegistered, StartRead, OnDone, Disconnect, threadVars
<1>4. CASE \E c \in Callbacks, ok \in BOOLEAN : CompleteWrite(c, ok)
  BY <1>2, <1>4 DEF CompleteWrite
<1>5. CASE \E c \in Callbacks :
              \/ ClearWriting(c, IF kind = "embedding" THEN "wd_test" ELSE "flush")
              \/ WriteFailed(c)
  BY <1>2, <1>5 DEF ClearWriting, WriteFailed, WriteFailedFinish, SetCancelled, Drain
<1>6. CASE OnCancel
  BY <1>2, <1>6 DEF OnCancel, OnCancelBegin, SetCancelled, Drain, Unwrite
<1> QED BY <1>1, <1>3, <1>4, <1>5, <1>6 DEF Common

\* The steps that only the embedding stream has leave tasks alone.
LEMMA EmbeddingOwnTasks ==
    ASSUME BaseType, PlaceInv, PlaceInv', kind = "embedding", UNCHANGED kind, EmbeddingOwn
    PROVE  \A t \in Tasks : ret'[t] = ret[t] /\ pc'[t] = pc[t]
<1>1. \A t \in Tasks : pc[t] = "unused" /\ pc'[t] = "unused"
  BY Names DEF PlaceInv, PlaceOf
<1>2. ret' = ret \/ \E l : ret' = [ret EXCEPT !["reader"] = l]
  BY DEF EmbeddingOwn, ReadTestCancelled, ProcessRequest, CallSend, WrittenTestCancelled, Drain,
     WrittenFinish, StopEmbedding, Stop, SetCancelled, Unwrite, TryCancel
<1>3. \A t \in Tasks : ret'[t] = ret[t]
  BY <1>2, Names DEF BaseType, ThreadType
<1> QED BY <1>1, <1>3

\* Tasks move without touching what they have or the flag.
LEMMA TasksMove ==
    ASSUME TaskInv, UNCHANGED <<hand, overlap, processing>>, refused => refused',
           \A t \in Tasks :
              /\ ret'[t] = ret[t]
              /\ \/ pc'[t] = pc[t]
                 \/ /\ pc[t] \notin {"full", "segments"}
                    /\ pc'[t] \in Active => pc[t] \in Active
    PROVE  TaskInv'
<1>1. \A t \in Tasks : pc'[t] \in Active => pc[t] \in Active
  OBVIOUS
<1>2. \A t \in Tasks : /\ ret'[t] = "clear" => refused'
                       /\ hand'[t] # <<>> => pc'[t] \in {"full", "segments"}
  BY DEF TaskInv
<1>3. ASSUME ~overlap'
      PROVE  /\ \A t, u \in Tasks : pc'[t] \in Active /\ pc'[u] \in Active => t = u
             /\ \A t \in Tasks : pc'[t] \in Active => processing'
  BY <1>1, <1>2, <1>3 DEF TaskInv
<1> QED BY <1>2, <1>3 DEF TaskInv

\* A task moves, or calls _send.
LEMMA TaskMoveFacts ==
    ASSUME BaseType, NEW t \in Tasks, TaskOwn(t)
    PROVE  /\ \A u \in Tasks : u # t => pc'[u] = pc[u] /\ ret'[u] = ret[u]
           /\ \A l : Goto(t, l) => pc'[t] = l
           /\ UNCHANGED ret \/ (pc[t] = "full" /\ ret'[t] = "clear" /\ pc'[t] = "send")
                            \/ (pc[t] = "segments" /\ ret'[t] = "loop_cancelled" /\ pc'[t] = "send")
<1>0. pc \in [Thread -> Label] /\ ret \in [Thread -> ReturnLabel] /\ t \in Thread
  BY Names DEF BaseType, ThreadType
<1>1. \A l : Goto(t, l) => pc'[t] = l /\ \A u \in Tasks : u # t => pc'[u] = pc[u]
  BY <1>0, GotoFacts, Names
<1>2. CASE TaskTranslateFails(t) \/ TaskSegments(t)
  BY <1>0, <1>1, <1>2, Names DEF TaskTranslateFails, TaskSegments, CallSend
<1>3. CASE TaskTestCancelled(t) \/ TaskTestProcessing(t) \/ TaskSetProcessing(t)
           \/ TaskLoopCancelled(t) \/ TaskLoopProcessing(t) \/ TaskPop(t) \/ TaskFull(t)
           \/ TaskClear(t)
  BY <1>1, <1>3 DEF TaskTestCancelled, TaskTestProcessing, TaskSetProcessing,
     TaskLoopCancelled, TaskLoopProcessing, TaskPop, TaskFull, TaskClear
<1>4. CASE TaskUsesFreed(t)
  BY <1>0, <1>4, GotoFacts DEF TaskUsesFreed, threadVars
<1> QED BY <1>2, <1>3, <1>4 DEF TaskOwn

\* A task's own steps leave at most one task at work, or record the overlap.
LEMMA TaskOwnTasks ==
    ASSUME BaseType, TaskInv, NEW t \in Tasks, TaskOwn(t)
    PROVE  TaskInv'
<1>0. /\ \A u \in Tasks : u # t => pc'[u] = pc[u] /\ ret'[u] = ret[u]
      /\ \A l : Goto(t, l) => pc'[t] = l
      /\ hand \in [Tasks -> Seq(1..MaxReqs)]
  BY TaskMoveFacts DEF BaseType, RecognitionType
<1>a. /\ {"queued", "test_processing", "set_processing", "ended"} \cap Active = {}
      /\ {"loop_cancelled", "loop_processing", "pop", "full", "segments", "clear", "send"} \subseteq Active
      /\ {"full", "segments"} \cap Sending = {}
  BY DEF Active, Sending, Flushing
<1>1. CASE TaskTestCancelled(t) \/ TaskLoopCancelled(t) \/ TaskLoopProcessing(t)
           \/ TaskTestProcessing(t)
  <2>1. /\ UNCHANGED <<ret, hand, overlap, processing, refused>>
        /\ pc[t] \in {"queued", "test_processing", "loop_cancelled", "loop_processing"}
        /\ pc'[t] \in {"ended", "test_processing", "set_processing", "loop_processing", "pop"}
        /\ pc'[t] \in {"loop_processing", "pop"} => pc[t] \in {"loop_cancelled", "loop_processing"}
    BY <1>0, <1>1 DEF TaskTestCancelled, TaskTestProcessing, TaskLoopCancelled, TaskLoopProcessing,
       recognitionVars
  <2> QED BY <1>0, <1>a, <2>1, TasksMove
<1>2. CASE TaskSetProcessing(t)
  <2>1. /\ UNCHANGED <<ret, hand, refused>> /\ processing' = TRUE
        /\ pc[t] = "set_processing" /\ pc'[t] = "loop_cancelled"
        /\ overlap' = (overlap \/ AtWork # {t})
    BY <1>0, <1>2 DEF TaskSetProcessing
  <2>2. ~overlap' => ~overlap /\ AtWork = {t}
    <3>1. CASE overlap \/ AtWork # {t}
      BY <2>1, <3>1
    <3> QED BY <3>1
  <2>3. ASSUME ~overlap', NEW u \in Tasks, u # t
        PROVE  pc'[u] \notin Active
    <3>1. u \notin AtWork
      BY <2>2, <2>3
    <3> QED BY <1>0, <1>a, <2>3, <3>1 DEF AtWork, Active, Sending, Flushing
  <2>4. \A u \in Tasks : /\ ret'[u] = "clear" => refused'
                         /\ hand'[u] # <<>> => pc'[u] \in {"full", "segments"}
    BY <1>0, <2>1 DEF TaskInv
  <2>5. ASSUME ~overlap'
        PROVE  /\ \A v, u \in Tasks : pc'[v] \in Active /\ pc'[u] \in Active => v = u
               /\ \A u \in Tasks : pc'[u] \in Active => processing'
    BY <1>a, <2>1, <2>3, <2>5
  <2> QED BY <2>4, <2>5 DEF TaskInv
<1>3. ASSUME pc[t] \in Active, UNCHANGED overlap, refused => refused',
             ret'[t] = "clear" => refused',
             hand'[t] # <<>> => pc'[t] \in {"full", "segments"},
             \A u \in Tasks : u # t => hand'[u] = hand[u],
             pc'[t] \in Active => UNCHANGED processing
      PROVE  TaskInv'
  <2>1. \A u \in Tasks : /\ ret'[u] = "clear" => refused'
                         /\ hand'[u] # <<>> => pc'[u] \in {"full", "segments"}
    BY <1>0, <1>3 DEF TaskInv
  <2>2. ASSUME ~overlap'
        PROVE  /\ \A v, u \in Tasks : pc'[v] \in Active /\ pc'[u] \in Active => v = u
               /\ \A u \in Tasks : pc'[u] \in Active => processing'
    <3>1. \A u \in Tasks : u # t => pc'[u] \notin Active
      BY <1>0, <1>3, <2>2 DEF TaskInv
    <3>2. pc'[t] \in Active => processing'
      BY <1>3, <2>2 DEF TaskInv
    <3> QED BY <1>a, <1>3, <3>1, <3>2
  <2> QED BY <2>1, <2>2 DEF TaskInv
<1>4. CASE TaskPop(t)
  <2>1. /\ UNCHANGED <<ret, overlap, refused, processing>> /\ pc[t] = "pop"
        /\ pc'[t] \in {"clear", "full"} /\ \A u \in Tasks : u # t => hand'[u] = hand[u]
    BY <1>0, <1>4 DEF TaskPop
  <2>2. pc'[t] = "clear" => hand'[t] = <<>>
    <3>1. pc'[t] = "clear" => Popped = 0
      BY <1>0, <1>4 DEF TaskPop
    <3>2. Popped = 0 => SubSeq(buffer, 1, Popped) = <<>>
      BY SubSeqEmpty
    <3> QED BY <1>0, <1>4, <3>1, <3>2 DEF TaskPop
  <2> QED BY <1>a, <1>3, <2>1, <2>2 DEF TaskInv
<1>5. CASE TaskFull(t)
  <2>1. /\ UNCHANGED <<ret, overlap, refused, processing, hand>> /\ pc[t] = "full"
        /\ pc'[t] = "segments"
    BY <1>0, <1>5 DEF TaskFull
  <2> QED BY <1>a, <1>3, <2>1 DEF TaskInv
<1>6. CASE TaskTranslateFails(t) \/ TaskSegments(t)
  <2>1. /\ UNCHANGED <<overlap, processing>> /\ hand' = [hand EXCEPT ![t] = <<>>]
        /\ (refused => refused') /\ pc[t] \in {"full", "segments"}
        /\ (TaskTranslateFails(t) => refused' /\ pc[t] = "full")
        /\ (TaskSegments(t) => pc[t] = "segments")
    BY <1>6 DEF TaskTranslateFails, TaskSegments
  <2>2. pc'[t] = "send" /\ (ret'[t] = "clear" => TaskTranslateFails(t))
    <3>1. pc \in [Thread -> Label] /\ ret \in [Thread -> ReturnLabel] /\ t \in Thread
      BY Names DEF BaseType, ThreadType
    <3> QED BY <1>6, <3>1 DEF TaskTranslateFails, TaskSegments, CallSend, Goto
  <2> QED BY <1>0, <1>a, <1>3, <2>1, <2>2
<1>7. CASE TaskClear(t)
  <2>1. UNCHANGED <<ret, overlap, refused, hand>> /\ pc[t] = "clear" /\ pc'[t] = "ended"
    BY <1>0, <1>7 DEF TaskClear
  <2> QED BY <1>a, <1>3, <2>1 DEF TaskInv
<1>8. CASE TaskUsesFreed(t)
  <2>1. UNCHANGED <<pc, ret, hand, overlap, processing, refused>>
    BY <1>8 DEF TaskUsesFreed, threadVars, recognitionVars
  <2> QED BY <2>1, TasksMove
<1> QED BY <1>1, <1>2, <1>4, <1>5, <1>6, <1>7, <1>8 DEF TaskOwn

\* At most one task is at work unless two overlapped.
LEMMA TaskStep ==
    ASSUME BaseType, PlaceInv, PlaceInv', CountInv, TaskInv, [Next]_vars
    PROVE  TaskInv'
<1>1. CASE UNCHANGED vars \/ OtherStreamFull
  BY <1>1, TasksMove DEF vars, OtherStreamFull, streamVars, threadVars, recognitionVars
<1>2. CASE Common /\ UNCHANGED recognitionVars
  <2>1. Sending \cup {"loop_cancelled", "clear"} \subseteq Active \ {"full", "segments"}
    BY DEF Active, Sending, Flushing
  <2>2. UNCHANGED <<hand, overlap, processing, refused>>
    BY <1>2 DEF recognitionVars
  <2>3. \A t \in Tasks :
              /\ ret'[t] = ret[t]
              /\ \/ pc'[t] = pc[t]
                 \/ /\ pc[t] \in Sending
                    /\ pc'[t] \in Sending \cup {"loop_cancelled", "clear"}
    BY <1>2, CommonTasks
  <2> QED BY <2>1, <2>2, <2>3, TasksMove
<1>3. CASE kind = "embedding" /\ EmbeddingOwn /\ UNCHANGED recognitionVars
  BY <1>3, EmbeddingOwnTasks, Monotone, TasksMove DEF recognitionVars
<1>4. CASE kind = "recognition" /\ ProcessAudio
  <2>1. UNCHANGED <<hand, overlap, processing, refused>>
    BY <1>4 DEF ProcessAudio
  <2>2. \A t \in Tasks : ret'[t] = ret[t]
                         /\ (pc'[t] = pc[t] \/ (pc[t] = "unused" /\ pc'[t] = "queued"))
    <3>1. pc \in [Thread -> Label] /\ ret \in [Thread -> ReturnLabel] /\ Unprocessed
      BY <1>4 DEF BaseType, ThreadType, ProcessAudio, Unprocessed
    <3>2. UnusedTask \in Tasks /\ pc[UnusedTask] = "unused"
      BY <3>1, TaskLeft
    <3> QED BY <1>4, <3>1, <3>2, Names DEF ProcessAudio, CallSend, Goto
  <2>3. "queued" \notin Active
    BY DEF Active, Sending, Flushing
  <2> QED BY <2>1, <2>2, <2>3, TasksMove
<1> QED BY <1>1, <1>2, <1>3, <1>4, TaskOwnTasks, StepCases

\* No task leaves the buffer with audio in it, or the reason is recorded.
LEMMA WaitsStep ==
    ASSUME BaseType, PlaceInv, CountInv, TaskInv, AudioWaitsOnlyIfMissed, [Next]_vars
    PROVE  AudioWaitsOnlyIfMissed'
<1>1. SUFFICES ASSUME kind' = "recognition", Running', ~cancelled', MinChunk <= Capacity,
                      buffer' # <<>>, Looking' = {}
               PROVE  missed' \/ overlap' \/ refused'
  BY DEF AudioWaitsOnlyIfMissed
<1>2. kind = "recognition" /\ ~cancelled
  BY <1>1, Monotone
<1>3. CASE UNCHANGED vars \/ OtherStreamFull
  <2>0. UNCHANGED <<pc, misuse, buffer, missed, overlap, refused>>
    BY <1>3 DEF vars, OtherStreamFull, streamVars, threadVars, histVars, recognitionVars
  <2>1. Running /\ buffer # <<>> /\ Looking = {}
    BY <1>1, <2>0 DEF Running, Looking
  <2> QED BY <1>1, <1>2, <2>0, <2>1 DEF AudioWaitsOnlyIfMissed
<1>4. ASSUME Running, UNCHANGED buffer, Looking = {},
             missed \/ overlap \/ refused => missed' \/ overlap' \/ refused'
      PROVE  missed' \/ overlap' \/ refused'
  BY <1>1, <1>2, <1>4 DEF AudioWaitsOnlyIfMissed
<1>5. CASE Running /\ Common /\ UNCHANGED recognitionVars
  <2>1. UNCHANGED <<buffer, missed, overlap, refused>>
    BY <1>5 DEF recognitionVars
  <2>2. CASE \A t \in Tasks : pc'[t] = pc[t]
    <3>1. Looking = {}
      BY <1>1, <2>2 DEF Looking
    <3> QED BY <1>4, <1>5, <2>1, <3>1
  <2>3. ASSUME NEW t \in Tasks, pc'[t] # pc[t]
        PROVE  missed' \/ overlap' \/ refused'
    <3>1. pc'[t] \in {"unused", "clear", "ended"}
      BY <1>1 DEF Looking
    <3>2. ret[t] = "clear"
      BY <1>5, <2>3, <3>1, CommonTasks DEF Sending, Flushing
    <3> QED BY <2>1, <3>2 DEF TaskInv
  <2> QED BY <2>2, <2>3
<1>6. CASE Running /\ ProcessAudio
  <2>1. /\ UNCHANGED <<missed, overlap, refused>>
        /\ pc \in [Thread -> Label] /\ Unprocessed
    BY <1>6 DEF ProcessAudio, BaseType, ThreadType, Unprocessed
  <2>2. UnusedTask \in Tasks /\ pc[UnusedTask] = "unused"
    BY <2>1, TaskLeft
  <2>3. CASE pc' = [pc EXCEPT !["reader"] = "start_read", ![UnusedTask] = "queued"]
    <3>1. PICK new : new = UnusedTask
      OBVIOUS
    <3>2. new \in Tasks /\ pc'[new] = "queued"
      BY <2>1, <2>2, <2>3, <3>1, Names
    <3> QED BY <1>1, <3>2 DEF Looking
  <2>4. CASE UNCHANGED buffer /\ \E l : Goto("reader", l)
    <3>1. \A t \in Tasks : pc'[t] = pc[t]
      BY <2>1, <2>4, GotoFacts, Names
    <3>2. Looking = {}
      BY <1>1, <3>1 DEF Looking
    <3> QED BY <1>4, <1>6, <2>1, <2>4, <3>2
  <2> QED BY <1>6, <2>3, <2>4 DEF ProcessAudio, CallSend
<1>7. ASSUME Running, NEW t \in Tasks, TaskOwn(t)
      PROVE  missed' \/ overlap' \/ refused'
  <2>0. /\ \A u \in Tasks : u # t => pc'[u] = pc[u]
        /\ \A l : Goto(t, l) => pc'[t] = l
        /\ UNCHANGED ret \/ pc'[t] = "send"
    BY <1>7, TaskMoveFacts
  <2>1. pc'[t] \in {"unused", "clear", "ended"}
    BY <1>1 DEF Looking
  <2>2. \A u \in Tasks : u # t => u \notin Looking
    BY <1>1, <2>0 DEF Looking
  <2>3. CASE TaskTestCancelled(t) \/ TaskLoopCancelled(t)
    BY <1>1, <1>2, <2>0, <2>1, <2>3 DEF TaskTestCancelled, TaskLoopCancelled
  <2>4. CASE TaskTestProcessing(t)
    <3>1. pc[t] = "test_processing" /\ processing
      BY <2>0, <2>1, <2>4 DEF TaskTestProcessing
    <3>2. Looking = {t}
      BY <2>2, <3>1 DEF Looking
    <3>3. missed' = (missed \/ (processing /\ Looking = {t}))
      BY <2>4 DEF TaskTestProcessing
    <3> QED BY <3>1, <3>2, <3>3
  <2>5. CASE TaskSetProcessing(t) \/ TaskFull(t)
    BY <2>0, <2>1, <2>5 DEF TaskSetProcessing, TaskFull
  <2>6. CASE TaskLoopProcessing(t)
    <3>1. pc[t] = "loop_processing" /\ ~processing /\ UNCHANGED overlap
      BY <2>0, <2>1, <2>6 DEF TaskLoopProcessing, recognitionVars
    <3>2. pc[t] \in Active
      BY <3>1 DEF Active
    <3> QED BY <3>1, <3>2 DEF TaskInv
  <2>7. CASE TaskPop(t)
    <3>1. Popped = 0 /\ buffer' = SubSeq(buffer, Popped + 1, Len(buffer))
      BY <2>0, <2>1, <2>7 DEF TaskPop
    <3>2. buffer \in Seq(1..MaxReqs) /\ Len(buffer) \in Nat
      BY DEF BaseType, RecognitionType
    <3>3. Len(buffer) = 0
      BY <1>1, <3>1, <3>2, AudioAssumption DEF Popped
    <3>4. buffer' = <<>>
      BY <3>1, <3>2, <3>3, SubSeqEmpty
    <3> QED BY <1>1, <3>4
  <2>8. CASE TaskTranslateFails(t)
    BY <2>8 DEF TaskTranslateFails
  <2>9. CASE TaskSegments(t)
    <3>1. pc'[t] = "send"
      BY <2>0, <2>9 DEF TaskSegments, CallSend
    <3> QED BY <2>1, <3>1
  <2>10. CASE TaskClear(t)
    <3>1. pc[t] = "clear" /\ UNCHANGED <<buffer, missed, overlap, refused>>
      BY <2>10 DEF TaskClear
    <3>2. Looking = {}
      BY <2>2, <3>1 DEF Looking
    <3> QED BY <1>4, <1>7, <3>1, <3>2
  <2>11. CASE TaskUsesFreed(t)
    BY <1>1, <2>11 DEF TaskUsesFreed, Running
  <2> QED BY <1>7, <2>3, <2>4, <2>5, <2>6, <2>7, <2>8, <2>9, <2>10, <2>11 DEF TaskOwn
<1> QED BY <1>2, <1>3, <1>5, <1>6, <1>7, StepCases

-----------------------------------------------------------------------------
(* The audio.                                                               *)

\* Where a chunk of audio can be.
KeptAt(x) ==
    \/ x \in Range(buffer)
    \/ \E i \in 1..Len(queue) : x \in Range(queue[i].audio)
    \/ \E i \in 1..Len(wire) : x \in Range(wire[i].audio)
    \/ \E t \in Tasks : x \in Range(hand[t])
    \/ \E t \in Thread : x \in Range(resp[t].audio)

\* These places are the model's, before and after a step.
LEMMA KeptWhere ==
    ASSUME NEW x
    PROVE  (x \in Kept <=> KeptAt(x)) /\ (x \in Kept' <=> KeptAt(x)')
  BY DEF Kept, KeptAt, AudioOf

\* An empty sequence holds nothing.
LEMMA NoAudio == Range(<<>>) = {} /\ Range(NoResp.audio) = {}
<1>1. Range(<<>>) = {}
  BY DEF Range
<1> QED BY <1>1 DEF NoResp

\* A step that leaves buffer and hands alone keeps the audio, unless the
\* stream is cancelled or breaks off.
LEMMA EffectKeeps ==
    ASSUME BaseType, HoldInv, Effect, UNCHANGED <<buffer, hand>>, ~cancelled', Running',
           NEW x, KeptAt(x)
    PROVE  KeptAt(x)'
<1>0. wire \in Seq(Resp) /\ queue \in Seq(Resp) /\ Range(NoResp.audio) = {}
  BY NoAudio DEF BaseType, GrpcType, FlagType
<1>1. CASE Quiet \/ NewRead
  <2>1. UNCHANGED <<queue, wire>> /\ \A t \in Thread : resp'[t] = resp[t]
    BY <1>1 DEF Quiet, NewRead
  <2> QED BY <2>1 DEF KeptAt
<1>2. CASE Discarded
  BY <1>2 DEF Discarded
<1>3. ASSUME NEW t \in Thread, Called(t)
      PROVE  KeptAt(x)'
  <2>1. UNCHANGED <<queue, wire>> /\ resp[t] = NoResp /\ \A u \in Thread : u # t => resp'[u] = resp[u]
    BY <1>3 DEF Called, Others, HoldInv
  <2> QED BY <1>0, <2>1 DEF KeptAt
<1>4. ASSUME NEW t \in Thread, Moved(t)
      PROVE  KeptAt(x)'
  <2>1. CASE GaveUp(t)
    BY <2>1 DEF GaveUp
  <2>2. CASE Queued(t)
    <3>1. Len(queue') = Len(queue) + 1 /\ Len(queue) \in Nat /\ queue'[Len(queue) + 1] = resp[t]
          /\ \A i \in 1..Len(queue) : queue'[i] = queue[i]
      <4>1. queue' = Append(queue, resp[t]) /\ resp[t] \in Resp
        BY <2>2 DEF Queued, BaseType, ThreadType
      <4> QED BY <1>0, <4>1
    <3>2. UNCHANGED wire /\ \A u \in Thread : u # t => resp'[u] = resp[u]
      BY <2>2 DEF Queued, Gone, Others
    <3>3. x \in Range(resp[t].audio) => \E i \in 1..Len(queue') : x \in Range(queue'[i].audio)
      BY <3>1
    <3>4. \A i \in 1..Len(queue) : i \in 1..Len(queue') /\ queue'[i] = queue[i]
      BY <3>1
    <3> QED BY <3>2, <3>3, <3>4 DEF KeptAt
  <2>3. CASE Wrote(t)
    <3>1. Len(wire') = Len(wire) + 1 /\ Len(wire) \in Nat /\ wire'[Len(wire) + 1] = resp[t]
          /\ \A i \in 1..Len(wire) : wire'[i] = wire[i]
      <4>1. wire' = Append(wire, resp[t]) /\ resp[t] \in Resp
        BY <2>3 DEF Wrote, BaseType, ThreadType
      <4> QED BY <1>0, <4>1
    <3>2. UNCHANGED queue /\ \A u \in Thread : u # t => resp'[u] = resp[u]
      BY <2>3 DEF Wrote, Gone, Others
    <3>3. x \in Range(resp[t].audio) => \E i \in 1..Len(wire') : x \in Range(wire'[i].audio)
      BY <3>1
    <3>4. \A i \in 1..Len(wire) : i \in 1..Len(wire') /\ wire'[i] = wire[i]
      BY <3>1
    <3> QED BY <3>2, <3>3, <3>4 DEF KeptAt
  <2>4. CASE Took(t)
    <3>1. /\ Len(queue) \in Nat /\ Len(queue) > 0 /\ Len(queue') = Len(queue) - 1
          /\ resp'[t] = queue[1] /\ \A i \in 1..Len(queue') : queue'[i] = queue[i + 1]
      BY <1>0, <2>4 DEF Took
    <3>2. /\ UNCHANGED wire /\ resp[t] = NoResp /\ \A u \in Thread : u # t => resp'[u] = resp[u]
      BY <2>4 DEF Took, Others, HoldInv
    <3>3. ASSUME NEW i \in 1..Len(queue), x \in Range(queue[i].audio)
          PROVE  KeptAt(x)'
      <4>1. CASE i = 1
        BY <3>1, <3>3, <4>1 DEF KeptAt
      <4>2. CASE i # 1
        <5>1. i - 1 \in 1..Len(queue') /\ queue'[i - 1] = queue[i]
          BY <3>1, <4>2
        <5> QED BY <3>3, <5>1 DEF KeptAt
      <4> QED BY <4>1, <4>2
    <3> QED BY <1>0, <3>2, <3>3 DEF KeptAt
  <2> QED BY <1>4, <2>1, <2>2, <2>3, <2>4 DEF Moved
<1> QED BY <1>1, <1>2, <1>3, <1>4 DEF Effect

\* audio_buffer::push puts the new chunk in, and no other; what pop_until takes
\* and what it leaves was the buffer.
LEMMA BufferKeeps ==
    ASSUME RecognitionType, NEW n \in 1..MaxReqs
    PROVE  /\ n \in Range(Pushed(n)) /\ Range(Pushed(n)) \subseteq Range(buffer) \cup {n}
           /\ Range(SubSeq(buffer, 1, Popped)) \subseteq Range(buffer)
           /\ Range(SubSeq(buffer, Popped + 1, Len(buffer))) \subseteq Range(buffer)
           /\ Range(buffer) \subseteq Range(SubSeq(buffer, 1, Popped))
                                        \cup Range(SubSeq(buffer, Popped + 1, Len(buffer)))
<1>0. buffer \in Seq(1..MaxReqs) /\ Len(buffer) \in Nat /\ Popped \in 0..Len(buffer)
  BY BufferType DEF RecognitionType
<1>r. \A s \in Seq(1..MaxReqs) : \A x : x \in Range(s) <=> \E i \in 1..Len(s) : s[i] = x
  BY DEF Range
<1>1. n \in Range(Pushed(n)) /\ Range(Pushed(n)) \subseteq Range(buffer) \cup {n}
  <2>1. PICK all : all = Append(buffer, n)
    OBVIOUS
  <2>2. all \in Seq(1..MaxReqs) /\ Len(all) = Len(buffer) + 1 /\ all[Len(all)] = n
        /\ \A i \in 1..Len(buffer) : all[i] = buffer[i]
    BY <1>0, <2>1
  <2>a. Range(all) \subseteq Range(buffer) \cup {n}
    <3>1. ASSUME NEW i \in 1..Len(all)
          PROVE  all[i] \in Range(buffer) \cup {n}
      <4>1. CASE i = Len(all)
        BY <2>2, <4>1
      <4>2. CASE i # Len(all)
        <5>1. i \in 1..Len(buffer)
          BY <1>0, <2>2, <4>2
        <5> QED BY <1>0, <1>r, <2>2, <5>1
      <4> QED BY <4>1, <4>2
    <3> QED BY <1>r, <2>2, <3>1
  <2>3. CASE Len(all) > Capacity
    <3>1. Tail(all) \in Seq(1..MaxReqs) /\ Len(Tail(all)) = Len(all) - 1
          /\ \A i \in 1..(Len(all) - 1) : Tail(all)[i] = all[i + 1]
      BY <1>0, <2>2
    <3>2. Len(all) - 1 \in 1..Len(Tail(all))
      BY <1>0, <2>2, <2>3, <3>1, AudioAssumption
    <3>3. Tail(all)[Len(all) - 1] = n
      BY <1>0, <2>2, <3>1, <3>2
    <3>4. n \in Range(Tail(all))
      BY <1>r, <3>1, <3>2, <3>3
    <3>5. Range(Tail(all)) \subseteq Range(all)
      <4>1. ASSUME NEW i \in 1..Len(Tail(all))
            PROVE  Tail(all)[i] \in Range(all)
        <5>1. i + 1 \in 1..Len(all) /\ Tail(all)[i] = all[i + 1]
          BY <1>0, <2>2, <3>1
        <5> QED BY <1>r, <2>2, <5>1
      <4>2. PICK last : last = Tail(all)
        OBVIOUS
      <4>3. \A x \in Range(last) : \E i \in 1..Len(last) : last[i] = x
        BY ONLY <1>r, <3>1, <4>2
      <4>4. \A i \in 1..Len(last) : last[i] \in Range(all)
        BY ONLY <4>1, <4>2
      <4> QED BY ONLY <4>2, <4>3, <4>4
    <3> QED BY <2>1, <2>3, <2>a, <3>4, <3>5 DEF Pushed
  <2>4. CASE ~(Len(all) > Capacity)
    <3>1. n \in Range(all)
      BY <1>0, <1>r, <2>2
    <3> QED BY <2>1, <2>4, <2>a, <3>1 DEF Pushed
  <2> QED BY <2>3, <2>4
<1>p. PICK p \in 0..Len(buffer) : p = Popped
  BY <1>0
<1>c. /\ SubSeq(buffer, 1, p) \in Seq(1..MaxReqs) /\ Len(SubSeq(buffer, 1, p)) = p
      /\ \A j \in 1..p : SubSeq(buffer, 1, p)[j] = buffer[j]
      /\ SubSeq(buffer, p + 1, Len(buffer)) \in Seq(1..MaxReqs)
      /\ Len(SubSeq(buffer, p + 1, Len(buffer))) = Len(buffer) - p
      /\ \A j \in 1..(Len(buffer) - p) : SubSeq(buffer, p + 1, Len(buffer))[j] = buffer[p + j]
  <2>1. PICK S : S = 1..MaxReqs
    OBVIOUS
  <2>2. buffer \in Seq(S) /\ p \in 0..Len(buffer)
    BY <1>0, <2>1
  <2>3. /\ SubSeq(buffer, 1, p) \in Seq(S) /\ Len(SubSeq(buffer, 1, p)) = p
        /\ \A j \in 1..p : SubSeq(buffer, 1, p)[j] = buffer[j]
        /\ SubSeq(buffer, p + 1, Len(buffer)) \in Seq(S)
        /\ Len(SubSeq(buffer, p + 1, Len(buffer))) = Len(buffer) - p
        /\ \A j \in 1..(Len(buffer) - p) : SubSeq(buffer, p + 1, Len(buffer))[j] = buffer[p + j]
    BY ONLY <2>2, SplitSeq
  <2> QED BY <2>1, <2>3
<1>2. Range(SubSeq(buffer, 1, Popped)) \subseteq Range(buffer)
  <2>1. ASSUME NEW j \in 1..p
        PROVE  SubSeq(buffer, 1, p)[j] \in Range(buffer)
    BY <1>0, <1>r, <1>c
  <2>2. PICK taken : taken = SubSeq(buffer, 1, p)
    OBVIOUS
  <2>3. taken \in Seq(1..MaxReqs) /\ \A j \in 1..Len(taken) : taken[j] \in Range(buffer)
    BY <1>c, <2>1, <2>2
  <2>4. Range(taken) \subseteq Range(buffer)
    BY ONLY <1>r, <2>3
  <2> QED BY <1>p, <2>2, <2>4
<1>3. Range(SubSeq(buffer, Popped + 1, Len(buffer))) \subseteq Range(buffer)
  <2>1. ASSUME NEW j \in 1..(Len(buffer) - p)
        PROVE  SubSeq(buffer, p + 1, Len(buffer))[j] \in Range(buffer)
    <3>1. p + j \in 1..Len(buffer)
      BY <1>0
    <3> QED BY <1>0, <1>r, <1>c, <3>1
  <2>2. PICK left : left = SubSeq(buffer, p + 1, Len(buffer))
    OBVIOUS
  <2>3. left \in Seq(1..MaxReqs) /\ \A j \in 1..Len(left) : left[j] \in Range(buffer)
    BY <1>c, <2>1, <2>2
  <2>4. Range(left) \subseteq Range(buffer)
    BY ONLY <1>r, <2>3
  <2> QED BY <1>p, <2>2, <2>4
<1>4. ASSUME NEW x \in Range(buffer)
      PROVE  x \in Range(SubSeq(buffer, 1, Popped))
                     \cup Range(SubSeq(buffer, Popped + 1, Len(buffer)))
  <2>1. PICK i \in 1..Len(buffer) : buffer[i] = x
    BY <1>0, <1>4, <1>r
  <2>2. CASE i <= p
    <3>1. i \in 1..p
      BY <1>0, <2>2
    <3> QED BY <1>p, <1>r, <1>c, <2>1, <3>1
  <2>3. CASE i > p
    <3>1. i - p \in 1..(Len(buffer) - p) /\ p + (i - p) = i
      BY <1>0, <2>3
    <3>2. SubSeq(buffer, p + 1, Len(buffer))[i - p] = x
      BY <1>c, <2>1, <3>1
    <3>3. x \in Range(SubSeq(buffer, p + 1, Len(buffer)))
      BY <1>r, <1>c, <3>1, <3>2
    <3> QED BY <1>p, <3>3
  <2> QED BY <1>0, <2>2, <2>3
<1> QED BY <1>1, <1>2, <1>3, <1>4

\* No request becomes unprocessed again.
LEMMA ProcessedGrows ==
    ASSUME BaseType, BaseType', Effect
    PROVE  Processed \in Int /\ Processed' \in Int /\ Processed <= Processed'
<1>1. nread \in Nat /\ nread' \in Nat
  BY MaxReqsAssumption DEF BaseType, ReqType
<1>2. CASE NewRead
  BY <1>1, <1>2 DEF NewRead, Processed
<1>3. CASE ~NewRead
  <2>1. UNCHANGED nread /\ (Unprocessed' => Unprocessed)
    BY <1>3 DEF Effect, Quiet, Moved, Called, Discarded, Unprocessed
  <2> QED BY <1>1, <2>1 DEF Processed
<1> QED BY <1>2, <1>3

\* What another full takes out of the context is no longer counted as audio.
LEMMA UnreadKept ==
    ASSUME audio' = audio \ (UnreadAudio \ Range(context')),
           NEW t \in Tasks, pc[t] = "segments", NEW x \in Range(hand[t]), x \in audio'
    PROVE  x \in Range(context')
<1>1. x \in UnreadAudio
  BY DEF UnreadAudio, Unread
<1> QED BY <1>1

\* A task's audio is in the context while it is counted, across every step.
LEMMA ContextStep ==
    ASSUME BaseType, BaseType', PlaceInv, PlaceInv', CountInv, ContextInv, Effect, [Next]_vars
    PROVE  ContextInv'
<1>0. /\ Processed \in Int /\ Processed' \in Int /\ Processed <= Processed'
      /\ RecognitionType /\ pc \in [Thread -> Label] /\ \A x \in 1..MaxReqs : x \in Int
  BY ProcessedGrows DEF BaseType, ThreadType
<1>i. /\ \A x \in Range(buffer) : x \in Int /\ x <= Processed'
      /\ \A t \in Tasks : \A x \in Range(hand[t]) : x \in Int /\ x <= Processed'
  <2>1. ASSUME NEW s \in Seq(1..MaxReqs), NEW x \in Range(s)
        PROVE  x \in 1..MaxReqs
    <3>1. PICK i \in 1..Len(s) : x = s[i]
      BY DEF Range
    <3>2. PICK S : S = 1..MaxReqs
      OBVIOUS
    <3>3. s[i] \in S
      BY <3>1, <3>2, ElementOfSeq
    <3> QED BY <3>1, <3>2, <3>3
  <2>2. buffer \in Seq(1..MaxReqs) /\ \A t \in Tasks : hand[t] \in Seq(1..MaxReqs)
    BY <1>0 DEF RecognitionType
  <2>3. /\ \A x \in Range(buffer) : x \in Int /\ x <= Processed
        /\ \A t \in Tasks : \A x \in Range(hand[t]) : x \in Int /\ x <= Processed
    BY <1>0, <2>1, <2>2 DEF ContextInv
  <2> QED BY <1>0, <2>3
<1>k. ASSUME UNCHANGED <<buffer, hand, context>>, audio' \subseteq audio,
             \A t \in Tasks : pc'[t] = "segments" => pc[t] = "segments"
      PROVE  ContextInv'
  BY <1>i, <1>k DEF ContextInv
<1>1. CASE UNCHANGED vars
  BY <1>1, <1>k DEF vars, streamVars, threadVars, recognitionVars
<1>2. CASE OtherStreamFull
  <2>1. /\ UNCHANGED <<pc, buffer, hand>>
        /\ audio' = audio \ (UnreadAudio \ Range(context'))
    BY <1>2 DEF OtherStreamFull, streamVars, threadVars
  <2>2. ASSUME NEW t \in Tasks, pc[t] = "segments", NEW x \in Range(hand[t]), x \in audio'
        PROVE  x \in Range(context')
    BY <2>1, <2>2, UnreadKept
  <2> QED BY <1>i, <2>1, <2>2 DEF ContextInv
<1>3. CASE Common /\ UNCHANGED recognitionVars
  <2>1. \A t \in Tasks : pc'[t] = "segments" => pc[t] = "segments"
    BY <1>3, CommonTasks DEF Sending, Flushing
  <2> QED BY <1>3, <1>k, <2>1 DEF recognitionVars
<1>4. CASE kind = "embedding" /\ EmbeddingOwn /\ UNCHANGED recognitionVars
  <2>1. \A t \in Tasks : pc'[t] = pc[t]
    BY <1>4, EmbeddingOwnTasks, Monotone
  <2> QED BY <1>4, <1>k, <2>1 DEF recognitionVars
<1>5. CASE ProcessAudio
  <2>1. UNCHANGED <<hand, context>> /\ Unprocessed
    BY <1>5 DEF ProcessAudio, Unprocessed
  <2>2. nread \in 1..MaxReqs /\ UnusedTask \in Tasks
    BY <2>1, TaskLeft
  <2>3. \A t \in Tasks : pc'[t] = "segments" => pc[t] = "segments"
    BY <1>0, <1>5, <2>2, Names DEF ProcessAudio, CallSend, Goto
  <2>4. CASE UNCHANGED <<buffer, audio>>
    BY <1>k, <2>1, <2>3, <2>4
  <2>5. CASE /\ buffer' = Pushed(nread) /\ pc'["reader"] = "start_read"
             /\ audio' = (audio \cup {nread}) \ (Range(buffer) \ Range(buffer'))
    <3>1. nread' = nread /\ ~Unprocessed'
      BY <1>5, <2>5 DEF ProcessAudio, reqVars, Unprocessed
    <3>2. Processed = nread - 1 /\ Processed' = nread
      BY <2>1, <3>1 DEF Processed
    <3>3. \A x \in Range(buffer') : x <= Processed'
      <4>1. Range(Pushed(nread)) \subseteq Range(buffer) \cup {nread}
        BY <1>0, <2>2, BufferKeeps
      <4> QED BY <1>i, <2>2, <2>5, <3>2, <4>1
    <3>4. ASSUME NEW t \in Tasks, NEW x \in Range(hand[t]), pc'[t] = "segments", x \in audio'
          PROVE  x \in Range(context')
      <4>1. x # nread
        <5>1. x <= Processed
          BY DEF ContextInv
        <5> QED BY <1>i, <2>2, <3>2, <5>1
      <4>2. x \in audio
        BY <2>5, <3>4, <4>1
      <4> QED BY <2>1, <2>3, <3>4, <4>2 DEF ContextInv
    <3> QED BY <1>i, <2>1, <3>3, <3>4 DEF ContextInv
  <2>6. pc'["reader"] = "start_read" \/ UNCHANGED <<buffer, audio>>
    BY <1>0, <1>5, <2>2, Names DEF ProcessAudio
  <2> QED BY <1>5, <2>4, <2>5, <2>6 DEF ProcessAudio
<1>6. ASSUME NEW t \in Tasks, TaskOwn(t)
      PROVE  ContextInv'
  <2>0. /\ \A u \in Tasks : u # t => pc'[u] = pc[u]
        /\ \A l : Goto(t, l) => pc'[t] = l
        /\ UNCHANGED ret \/ pc'[t] = "send"
        /\ hand \in [Tasks -> Seq(1..MaxReqs)] /\ Range(<<>>) = {}
    BY <1>0, <1>6, TaskMoveFacts, NoAudio DEF RecognitionType
  <2>1. CASE TaskTestCancelled(t) \/ TaskTestProcessing(t) \/ TaskSetProcessing(t)
             \/ TaskLoopCancelled(t) \/ TaskLoopProcessing(t) \/ TaskClear(t) \/ TaskUsesFreed(t)
    <3>1. UNCHANGED <<buffer, hand, context, audio>>
      BY <2>1 DEF TaskTestCancelled, TaskTestProcessing, TaskSetProcessing, TaskLoopCancelled,
         TaskLoopProcessing, TaskClear, TaskUsesFreed, recognitionVars
    <3>2. pc'[t] = "segments" => pc[t] = "segments"
      BY <2>0, <2>1 DEF TaskTestCancelled, TaskTestProcessing, TaskSetProcessing, TaskLoopCancelled,
         TaskLoopProcessing, TaskClear, TaskUsesFreed, threadVars
    <3> QED BY <1>k, <2>0, <3>1, <3>2
  <2>2. CASE TaskPop(t)
    <3>1. /\ UNCHANGED <<context, audio>> /\ pc'[t] # "segments"
          /\ hand' = [hand EXCEPT ![t] = SubSeq(buffer, 1, Popped)]
          /\ buffer' = SubSeq(buffer, Popped + 1, Len(buffer))
      BY <2>0, <2>2 DEF TaskPop
    <3>2. hand'[t] = SubSeq(buffer, 1, Popped) /\ \A u \in Tasks : u # t => hand'[u] = hand[u]
      BY <2>0, <3>1
    <3>3. Range(hand'[t]) \subseteq Range(buffer) /\ Range(buffer') \subseteq Range(buffer)
      <4>1. 1 \in 1..MaxReqs
        BY MaxReqsAssumption
      <4>2. /\ Range(SubSeq(buffer, 1, Popped)) \subseteq Range(buffer)
            /\ Range(SubSeq(buffer, Popped + 1, Len(buffer))) \subseteq Range(buffer)
        BY <1>0, <4>1, BufferKeeps
      <4> QED BY <3>1, <3>2, <4>2
    <3> QED BY <1>i, <2>0, <3>1, <3>2, <3>3 DEF ContextInv
  <2>3. CASE TaskFull(t)
    <3>1. UNCHANGED <<buffer, hand>> /\ audio' = audio \ (UnreadAudio \ Range(context'))
      BY <2>3 DEF TaskFull
    <3>2. Range(hand[t]) \subseteq Range(context')
      BY <1>0, <2>3, FullHolds
    <3>3. ASSUME NEW u \in Tasks, u # t, pc'[u] = "segments", NEW x \in Range(hand[u]), x \in audio'
          PROVE  x \in Range(context')
      BY <2>0, <3>1, <3>3, UnreadKept
    <3> QED BY <1>i, <3>1, <3>2, <3>3 DEF ContextInv
  <2>4. CASE TaskTranslateFails(t) \/ TaskSegments(t)
    <3>1. /\ UNCHANGED <<buffer, context>> /\ audio' \subseteq audio
          /\ hand' = [hand EXCEPT ![t] = <<>>]
      BY <2>4 DEF TaskTranslateFails, TaskSegments
    <3>2. Range(hand'[t]) = {} /\ \A u \in Tasks : u # t => hand'[u] = hand[u]
      BY <2>0, <3>1
    <3> QED BY <1>i, <2>0, <3>1, <3>2 DEF ContextInv
  <2> QED BY <1>6, <2>1, <2>2, <2>3, <2>4 DEF TaskOwn
<1> QED BY <1>1, <1>2, <1>3, <1>4, <1>5, <1>6, StepCases

\* Audio is lost only where the property says so.
LEMMA KeptStep ==
    ASSUME BaseType, PlaceInv, CountInv, FinishInv, HoldInv, TaskInv, ContextInv, AudioIsKept,
           [Next]_vars
    PROVE  AudioIsKept'
<1>1. SUFFICES ASSUME kind' = "recognition", Running', ~cancelled', NEW x \in audio'
               PROVE  KeptAt(x)'
  BY KeptWhere DEF AudioIsKept
<1>2. kind = "recognition" /\ ~cancelled
  BY <1>1, Monotone
<1>3. ASSUME Running, NEW y \in audio
      PROVE  KeptAt(y)
  BY <1>2, <1>3, KeptWhere DEF AudioIsKept
<1>e. Effect
  BY Effects
<1>4. CASE UNCHANGED vars \/ OtherStreamFull
  <2>1. Running /\ x \in audio /\ UNCHANGED <<buffer, hand>>
    BY <1>1, <1>4 DEF Running, vars, OtherStreamFull, streamVars, histVars, recognitionVars
  <2> QED BY <1>1, <1>3, <1>e, <2>1, EffectKeeps
<1>5. CASE Running /\ Common /\ UNCHANGED recognitionVars
  <2>1. x \in audio /\ UNCHANGED <<buffer, hand>>
    BY <1>1, <1>5 DEF recognitionVars
  <2> QED BY <1>1, <1>3, <1>5, <1>e, <2>1, EffectKeeps
<1>6. CASE Running /\ ProcessAudio
  <2>1. UNCHANGED <<queue, wire, hand>>
    BY <1>6 DEF ProcessAudio, flagVars, grpcVars
  <2>2. CASE UNCHANGED <<buffer, audio>>
    BY <1>1, <1>3, <1>6, <1>e, <2>1, <2>2, EffectKeeps
  <2>3. CASE /\ buffer' = Pushed(nread) /\ UNCHANGED resp
             /\ audio' = (audio \cup {nread}) \ (Range(buffer) \ Range(buffer'))
    <3>1. Unprocessed /\ RecognitionType
      BY <1>6 DEF ProcessAudio, Unprocessed, BaseType
    <3>2. nread \in 1..MaxReqs
      BY <3>1, TaskLeft
    <3>3. CASE x = nread
      BY <2>3, <3>1, <3>2, <3>3, BufferKeeps DEF KeptAt
    <3>4. CASE x \in audio
      <4>1. KeptAt(x) /\ (x \in Range(buffer) => x \in Range(buffer'))
        BY <1>1, <1>3, <1>6, <2>3, <3>4
      <4> QED BY <2>1, <2>3, <4>1 DEF KeptAt
    <3> QED BY <1>1, <2>3, <3>3, <3>4
  <2> QED BY <1>6, <2>2, <2>3 DEF ProcessAudio
<1>7. ASSUME Running, NEW t \in Tasks, TaskOwn(t)
      PROVE  KeptAt(x)'
  <2>0. /\ t \in Thread /\ hand \in [Tasks -> Seq(1..MaxReqs)]
        /\ resp \in [Thread -> Resp] /\ Range(<<>>) = {} /\ Range(NoResp.audio) = {}
    BY Names, NoAudio DEF BaseType, RecognitionType, ThreadType
  <2>a. x \in audio
    BY <1>1, <1>7 DEF TaskOwn, TaskTestCancelled, TaskTestProcessing, TaskSetProcessing,
       TaskLoopCancelled, TaskLoopProcessing, TaskPop, TaskTranslateFails, TaskFull, TaskSegments,
       TaskClear, TaskUsesFreed, recognitionVars
  <2>k. KeptAt(x)
    BY <1>3, <1>7, <2>a
  <2>1. CASE TaskTestCancelled(t) \/ TaskTestProcessing(t) \/ TaskSetProcessing(t)
             \/ TaskLoopCancelled(t) \/ TaskLoopProcessing(t) \/ TaskFull(t) \/ TaskClear(t)
             \/ TaskUsesFreed(t)
    <3>1. UNCHANGED <<buffer, hand>>
      BY <2>1 DEF TaskTestCancelled, TaskTestProcessing, TaskSetProcessing, TaskLoopCancelled,
         TaskLoopProcessing, TaskFull, TaskClear, TaskUsesFreed, recognitionVars
    <3> QED BY <1>1, <1>e, <2>k, <3>1, EffectKeeps
  <2>3. CASE TaskPop(t)
    <3>1. /\ UNCHANGED <<resp, queue, wire>> /\ pc[t] = "pop"
          /\ hand' = [hand EXCEPT ![t] = SubSeq(buffer, 1, Popped)]
          /\ buffer' = SubSeq(buffer, Popped + 1, Len(buffer))
      BY <2>3 DEF TaskPop, baseButThreads, flagVars, grpcVars
    <3>2. hand[t] = <<>>
      BY <3>1 DEF TaskInv
    <3>4. Range(buffer) \subseteq Range(hand'[t]) \cup Range(buffer')
      BY <2>0, <3>1, BufferKeeps, MaxReqsAssumption DEF BaseType
    <3>5. \A u \in Tasks : u # t => hand'[u] = hand[u]
      BY <2>0, <3>1
    <3> QED BY <2>0, <2>k, <3>1, <3>2, <3>4, <3>5 DEF KeptAt
  <2>4. CASE TaskTranslateFails(t)
    <3>1. /\ UNCHANGED <<buffer, queue, wire>> /\ pc[t] = "full" /\ x \notin Range(hand[t])
          /\ hand' = [hand EXCEPT ![t] = <<>>] /\ resp' = [resp EXCEPT ![t] = NoResp]
      BY <1>1, <2>4 DEF TaskTranslateFails, CallSend, baseButThreads, flagVars, grpcVars
    <3>2. resp[t] = NoResp
      BY <2>0, <3>1 DEF HoldInv, Holding
    <3>3. (\A u \in Thread : resp'[u] = resp[u]) /\ \A u \in Tasks : u # t => hand'[u] = hand[u]
      BY <2>0, <3>1, <3>2
    <3> QED BY <2>k, <3>1, <3>3 DEF KeptAt
  <2>5. CASE TaskSegments(t)
    <3>1. /\ UNCHANGED <<buffer, queue, wire>> /\ pc[t] = "segments"
          /\ hand' = [hand EXCEPT ![t] = <<>>]
          /\ resp' = [resp EXCEPT ![t] = [NoResp EXCEPT !.audio = context]]
      BY <2>5 DEF TaskSegments, CallSend, baseButThreads, flagVars, grpcVars
    <3>2. (x \in Range(hand[t]) => x \in Range(context)) /\ resp[t] = NoResp
      <4>1. x \in Range(hand[t]) => x \in Range(context)
        BY <2>a, <3>1 DEF ContextInv
      <4>2. resp[t] = NoResp
        BY <2>0, <3>1 DEF HoldInv, Holding
      <4> QED BY <4>1, <4>2
    <3>4. resp'[t].audio = context /\ (\A u \in Thread : u # t => resp'[u] = resp[u])
          /\ (\A u \in Tasks : u # t => hand'[u] = hand[u])
      BY <2>0, <3>1 DEF NoResp
    <3> QED BY <2>0, <2>k, <3>1, <3>2, <3>4 DEF KeptAt
  <2> QED BY <1>7, <2>1, <2>3, <2>4, <2>5 DEF TaskOwn
<1> QED BY <1>2, <1>4, <1>5, <1>6, <1>7, StepCases

-----------------------------------------------------------------------------
(* The theorems.                                                            *)

\* The constructor's state.
LEMMA InitInv == Init => Inv
<1> SUFFICES ASSUME Init
             PROVE  Inv
  OBVIOUS
<1> USE DEF Init
<1>l. "unused" \in Label /\ "idle" \in Label /\ "idle" \in ReturnLabel
  BY DEF Label, ReaderLabel, TaskLabel, ReturnLabel
<1>0. /\ \A t \in Thread : pc[t] = IF t \in Tasks THEN "unused" ELSE "idle"
      /\ \A t \in Thread : ret[t] = "idle" /\ resp[t] = NoResp
  BY DEF StreamInit
<1>1. BaseType
  <2>1. ThreadType
    BY <1>l, NoRespType DEF StreamInit, ThreadType
  <2>0. <<>> \in Seq(Resp) /\ <<>> \in Seq(1..MaxReqs)
    BY EmptySeq
  <2>2. FlagType
    BY <2>0 DEF StreamInit, FlagType
  <2>3. ReqType
    BY MaxReqsAssumption DEF StreamInit, ReqType
  <2>4. GrpcType
    BY <2>0 DEF StreamInit, GrpcType
  <2>5. LifeType /\ HistType
    BY DEF StreamInit, LifeType, HistType
  <2>6. EmbeddingType
    BY MaxStopsAssumption DEF EmbeddingInit, EmbeddingType
  <2>7. RecognitionType
    <3>1. /\ processing = FALSE /\ buffer = <<>> /\ context = <<>> /\ audio = {}
          /\ hand = [t \in Tasks |-> <<>>] /\ overlap = FALSE /\ missed = FALSE /\ refused = FALSE
      BY DEF RecognitionInit
    <3> QED BY <2>0, <3>1 DEF RecognitionType
  <2> QED BY <2>1, <2>2, <2>3, <2>4, <2>5, <2>6, <2>7 DEF BaseType, StreamInit
<1>2. PlaceInv
  BY <1>0, Names DEF PlaceInv, PlaceOf, ReaderLabel, CallbackLabel, CancelLabel, TaskLabel, Sending,
     Flushing
<1>3. CountInv /\ ~Unprocessed
  <2>1. UsedTasks = {} /\ ~Unprocessed
    BY <1>0, Names DEF UsedTasks, Unprocessed
  <2> QED BY <2>1, FS_EmptySet DEF CountInv, StreamInit
<1>4. FinishInv
  BY <1>0, Names DEF FinishInv, DoubleFinishHasCause, Draining, StreamInit
<1>5. HoldInv /\ \A t \in Thread : pc[t] \notin Holding
  BY <1>0 DEF HoldInv, Holding
<1>6. AnswerInv
  BY DEF AnswerInv, StreamInit
<1>7. LockstepInv
  <2>1. wire = <<>> /\ queue = <<>> /\ nread = 0 /\ Len(wire) = 0 /\ Len(queue) = 0
    BY DEF StreamInit
  <2> QED BY <1>3, <1>5, <2>1 DEF LockstepInv
<1>8. TaskInv
  BY <1>0, Names DEF TaskInv, Active, Sending, Flushing, RecognitionInit
<1>9. AudioWaitsOnlyIfMissed /\ AudioIsKept
  BY DEF AudioWaitsOnlyIfMissed, AudioIsKept, RecognitionInit
<1>10. ContextInv
  BY NoAudio DEF ContextInv, RecognitionInit
<1> QED BY <1>10, <1>1, <1>2, <1>3, <1>4, <1>5, <1>6, <1>7, <1>8, <1>9 DEF Inv

\* The invariants hold across every step.
LEMMA StepInv ==
    ASSUME Inv, [Next]_vars
    PROVE  Inv'
<1> USE DEF Inv
<1>1. BaseType' /\ PlaceInv' /\ CountInv'
  BY PlaceStep
<1>2. FinishInv' /\ Effect
  BY FinishStep, Effects
<1>3. HoldInv' /\ AnswerInv' /\ LockstepInv'
  BY <1>1, <1>2, HoldStep, AnswerStep, LockstepStep
<1>4. TaskInv' /\ AudioWaitsOnlyIfMissed' /\ AudioIsKept'
  BY <1>1, TaskStep, WaitsStep, KeptStep
<1>5. ContextInv'
  BY <1>1, <1>2, ContextStep
<1> QED BY <1>1, <1>2, <1>3, <1>4, <1>5

\* The inductive invariant of both streams: places, the count of tasks, who
\* finishes, who has a response, what is answered, who is at work and what the
\* shared context holds.
THEOREM StreamInvariant == Spec => []Inv
<1>1. Inv /\ [Next]_vars => Inv'
  BY StepInv
<1> QED BY <1>1, InitInv, PTL DEF Spec

\* Every variable has its type, for any number of threads, tasks and requests.
THEOREM StreamTypes == Spec => []TypeOK
<1>1. Inv => TypeOK
  BY BaseIsType DEF Inv
<1> QED BY <1>1, StreamInvariant, PTL

\* OnReadDone and OnWriteDone call Finish twice only on an embedding stream
\* that was cancelled or a recognition stream one of whose writes failed.
THEOREM FinishedTwiceWithCause == Spec => []DoubleFinishHasCause
<1>1. Inv => DoubleFinishHasCause
  BY DEF Inv, FinishInv
<1> QED BY <1>1, StreamInvariant, PTL

\* The racing threads in _flush lose no answer of an embedding stream.
THEOREM NoAnswerIsLost == Spec => []EveryRequestIsAnswered
<1>1. Inv => EveryRequestIsAnswered
  <2>1. SUFFICES ASSUME Inv, kind = "embedding", Running, ~cancelled,
                        pc["reader"] \in {"idle", "start_read"}, NEW n \in 1..nread
                 PROVE  \/ \E i \in 1..Len(wire) : wire[i].req = n
                        \/ \E i \in 1..Len(queue) : queue[i].req = n
                        \/ \E t \in Thread : /\ pc[t] \in {"flush_store", "flush_start"}
                                             /\ resp[t].req = n
    BY DEF EveryRequestIsAnswered
  <2>2. Answered(n)
    BY <2>1 DEF Inv, AnswerInv, Unprocessed
  <2>3. ASSUME NEW t \in Thread, pc[t] \in Holding
        PROVE  pc[t] \in {"flush_store", "flush_start"}
    <3>1. PlaceOf(t)
      BY <2>1 DEF Inv, PlaceInv
    <3> QED BY <2>1, <2>3, <3>1, Names DEF PlaceOf, Holding, CallbackLabel, CancelLabel, Flushing
  <2> QED BY <2>2, <2>3 DEF Answered
<1> QED BY <1>1, StreamInvariant, PTL

\* A client that waits for each answer gets them in order and once each.
THEOREM WaitingClientIsOrdered == Spec => []LockstepClientIsOrdered
<1>1. Inv => LockstepClientIsOrdered
  <2>1. SUFFICES ASSUME Inv, kind = "embedding", ~pipelined,
                        NEW i \in 1..Len(wire), NEW j \in 1..Len(wire), i < j
                 PROVE  ~(wire[i].req >= wire[j].req)
    BY DEF LockstepClientIsOrdered, Overtaken
  <2>2. wire[i].req = i /\ wire[j].req = j /\ Len(wire) \in Nat
    BY <2>1 DEF Inv, LockstepInv, BaseType, GrpcType
  <2> QED BY <2>1, <2>2
<1> QED BY <1>1, StreamInvariant, PTL

\* Audio stays in the buffer with no task to look at it only after a task
\* stood aside too late, two overlapped, or a translation failed.
THEOREM WaitingAudioHasCause == Spec => []AudioWaitsOnlyIfMissed
  BY StreamInvariant, PTL DEF Inv

\* Audio is lost only by overwriting in the buffer, by a failed translation, by
\* a full of any stream between a task's own full and its reading of the shared
\* context, or by cancelling, whatever the sizes of buffer and chunks.
THEOREM NoAudioIsLost == Spec => []AudioIsKept
  BY StreamInvariant, PTL DEF Inv
=============================================================================
