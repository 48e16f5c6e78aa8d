------------------------- MODULE QueryReactorProofs -------------------------
(***************************************************************************)
(* Safety of QueryReactor for any number of gRPC threads, pieces and stops. *)
(***************************************************************************)
EXTENDS QueryReactor, SequenceTheorems, TLAPS

-----------------------------------------------------------------------------
(* Type correctness.                                                        *)

\* A group of variables that a step leaves alone keeps its type.
LEMMA UnchangedTypes ==
    ASSUME TypeOK
    PROVE  /\ UNCHANGED threadVars => ThreadType'
           /\ UNCHANGED flagVars => FlagType'
           /\ UNCHANGED msgVars => MsgType'
           /\ UNCHANGED genVars => GenType'
           /\ UNCHANGED grpcVars => GrpcType'
           /\ UNCHANGED lifeVars => LifeType'
           /\ UNCHANGED histVars => HistType'
<1>1. UNCHANGED threadVars => ThreadType'
  BY DEF threadVars, ThreadType, TypeOK
<1>2. UNCHANGED flagVars => FlagType'
  BY DEF flagVars, FlagType, TypeOK
<1>3. UNCHANGED msgVars => MsgType'
  BY DEF msgVars, MsgType, TypeOK
<1>4. UNCHANGED genVars => GenType'
  BY DEF genVars, GenType, TypeOK
<1>5. UNCHANGED grpcVars => GrpcType'
  BY DEF grpcVars, GrpcType, TypeOK
<1>6. UNCHANGED lifeVars => LifeType'
  BY DEF lifeVars, LifeType, TypeOK
<1>7. UNCHANGED histVars => HistType'
  BY DEF histVars, HistType, TypeOK
<1>. QED
  BY <1>1, <1>2, <1>3, <1>4, <1>5, <1>6, <1>7

\* A step that only moves control of one thread to a label keeps ThreadType.
LEMMA GotoType ==
    ASSUME ThreadType, NEW t \in Thread, NEW l \in Label, Goto(t, l),
           UNCHANGED <<ret, resp>>
    PROVE  ThreadType'
  BY DEF ThreadType, Goto

\* A call of _send keeps ThreadType.
LEMMA CallSendType ==
    ASSUME TypeOK, NEW t \in Thread, NEW p \in 0..MaxPieces, NEW f \in BOOLEAN,
           NEW e \in {"OK", "LLM_FAIL", "CALLER_NOT_EXIST", "SQLITE_EXEC_FAIL"},
           NEW l, t = "task" => l \in {"end", "loop", "finish_stopped",
                                      "finish_completed"},
           CallSend(t, p, f, e, l)
    PROVE  ThreadType'
<1>1. [piece |-> p, fin |-> f, ec |-> e, msg |-> curr_msg_id] \in Resp
  BY DEF Resp, TypeOK, MsgType
<1>2. resp' \in [Thread -> Resp]
  BY <1>1 DEF CallSend, TypeOK, ThreadType
<1>3. ret' \in {"end", "loop", "finish_stopped", "finish_completed"}
  BY DEF CallSend, TypeOK, ThreadType
<1>4. pc' \in [Thread -> Label]
  BY DEF CallSend, Goto, TypeOK, ThreadType, Label
<1>. QED
  BY <1>2, <1>3, <1>4 DEF ThreadType

\* Finish keeps the types of what it changes.
LEMMA FinishType ==
    ASSUME TypeOK, NEW st \in {"stopped", "completed", "aborted"}, Finish(st),
           UNCHANGED <<stopped, lateWriters, failed>>
    PROVE  GrpcType' /\ HistType'
<1>1. GrpcType'
  BY DEF Finish, TypeOK, GrpcType
<1>2. HistType'
  BY DEF Finish, TypeOK, HistType
<1>. QED
  BY <1>1, <1>2

\* _send and _flush keep every variable in its type.
LEMMA SendAndFlushType ==
    ASSUME TypeOK, NEW t \in Thread, SendAndFlush(t)
    PROVE  TypeOK'
<1>. USE UnchangedTypes, GotoType
<1>1. Return(t) \in Label /\ ThreadType
  BY DEF Return, TypeOK, ThreadType, Label
<1>2. {"enqueue", "flush", "flush_cancelled", "flush_dequeue", "flush_store",
       "flush_start"} \subseteq Label
  BY DEF Label
<1>3. CASE SendIfNotCancelled(t)
  BY <1>1, <1>2, <1>3 DEF SendIfNotCancelled, TypeOK
<1>4. CASE Enqueue(t)
  <2>1. FlagType'
    BY <1>4 DEF Enqueue, TypeOK, FlagType, ThreadType
  <2>. QED
    BY <1>1, <1>2, <1>4, <2>1 DEF Enqueue, TypeOK
<1>5. CASE FlushIfNotWriting(t)
  BY <1>1, <1>2, <1>5 DEF FlushIfNotWriting, TypeOK
<1>6. CASE FlushIfNotCancelled(t)
  BY <1>1, <1>2, <1>6 DEF FlushIfNotCancelled, TypeOK
<1>7. CASE FlushDequeue(t)
  <2>1. CASE queue = <<>>
    <3>1. FlagType'
      BY <1>7, <2>1 DEF FlushDequeue, TypeOK, FlagType
    <3>. QED
      BY <1>1, <1>7, <2>1, <3>1 DEF FlushDequeue, TypeOK
  <2>2. CASE queue # <<>>
    <3>1. Head(queue) \in Resp /\ Tail(queue) \in Seq(Resp)
      BY <2>2, HeadTailProperties DEF TypeOK, FlagType
    <3>2. FlagType'
      BY <1>7, <2>2, <3>1 DEF FlushDequeue, TypeOK, FlagType
    <3>3. ThreadType'
      BY <1>1, <1>2, <1>7, <2>2, <3>1 DEF FlushDequeue, Goto, ThreadType
    <3>. QED
      BY <1>7, <3>2, <3>3 DEF FlushDequeue, TypeOK
  <2>. QED
    BY <2>1, <2>2
<1>8. CASE FlushStore(t)
  <2>1. FlagType'
    BY <1>8 DEF FlushStore, TypeOK, FlagType
  <2>. QED
    BY <1>1, <1>2, <1>8, <2>1 DEF FlushStore, TypeOK
<1>9. CASE FlushStart(t)
  <2>1. GrpcType'
    BY <1>9 DEF FlushStart, TypeOK, GrpcType, ThreadType
  <2>2. misuse' \in {"none", "dangling_write", "write_after_finish",
                     "double_write"}
    BY <1>9 DEF FlushStart, WriteMisuse
  <2>3. HistType'
    BY <1>9, <2>2 DEF FlushStart, TypeOK, HistType
  <2>. QED
    BY <1>1, <1>9, <2>1, <2>3 DEF FlushStart, TypeOK
<1>. QED
  BY <1>3, <1>4, <1>5, <1>6, <1>7, <1>8, <1>9 DEF SendAndFlush

\* The steps of the pool task keep every variable in its type.
LEMMA TaskType ==
    ASSUME TypeOK, Task
    PROVE  TypeOK'
<1>. USE UnchangedTypes
<1>1. "task" \in Thread /\ ThreadType /\ 0 \in 0..MaxPieces
  BY BoundsAssumption DEF Thread, TypeOK
<1>2. {"start", "loop", "callback", "after", "end"} \subseteq Label
  BY DEF Label
<1>3. CASE RecordQuery
  <2>1. UserRow \in Row
    BY EmptySeq DEF UserRow, Row, TypeOK, MsgType
  <2>2. MsgType'
    BY <1>3, <2>1 DEF RecordQuery, TypeOK, MsgType
  <2>. QED
    BY <1>1, <1>2, <1>3, <2>2, GotoType DEF RecordQuery, TypeOK
<1>4. CASE RecordQueryFails
  <2>1. ThreadType'
    BY <1>1, <1>4, CallSendType DEF RecordQueryFails
  <2>. QED
    BY <1>4, <2>1 DEF RecordQueryFails, TypeOK
<1>5. CASE LocalStart
  <2>1. GenType'
    BY <1>5 DEF LocalStart, TypeOK, GenType
  <2>. QED
    BY <1>1, <1>2, <1>5, <2>1, GotoType DEF LocalStart, TypeOK
<1>6. CASE RemoteStart
  <2>1. GenType'
    BY <1>6 DEF RemoteStart, TypeOK, GenType
  <2>. QED
    BY <1>1, <1>2, <1>6, <2>1, GotoType DEF RemoteStart, TypeOK
<1>7. CASE Produce
  <2>1. /\ left > 0 => /\ left - 1 \in 0..MaxPieces
                       /\ MaxPieces + 1 - left \in 0..MaxPieces
    BY BoundsAssumption DEF TypeOK, GenType
  <2>2. \A p \in 0..MaxPieces : Output(p) \in Resp
    BY DEF Output, Resp, TypeOK, MsgType
  <2>3. GenType'
    BY <1>7, <2>1 DEF Produce, TypeOK, GenType
  <2>4. resp' \in [Thread -> Resp]
    <3>1. PICK p \in 0..MaxPieces :
              resp' = [resp EXCEPT !["task"] = Output(p)]
      BY <1>1, <1>7, <2>1 DEF Produce
    <3>. QED
      BY <1>1, <2>2, <3>1 DEF ThreadType
  <2>5. ThreadType'
    BY <1>1, <1>2, <1>7, <2>4 DEF Produce, Goto, ThreadType
  <2>. QED
    BY <1>7, <2>3, <2>5 DEF Produce, TypeOK
<1>8. CASE EndOfPieces
  BY <1>1, <1>2, <1>8, GotoType DEF EndOfPieces, TypeOK
<1>9. CASE Callback
  <2>1. resp["task"].piece \in 0..MaxPieces
    BY <1>1 DEF ThreadType, Resp
  <2>2. CASE cancelled
    <3>1. ThreadType'
      BY <1>1, <1>9, <2>1, <2>2, CallSendType DEF Callback
    <3>2. MsgType'
      BY <1>9, <2>2 DEF Callback, TypeOK, MsgType
    <3>. QED
      BY <1>9, <3>1, <3>2 DEF Callback, TypeOK
  <2>3. CASE ~cancelled /\ resp["task"].piece = 0
    <3>1. MsgType'
      BY <1>9, <2>3 DEF Callback, TypeOK, MsgType
    <3>. QED
      BY <1>1, <1>2, <1>9, <2>3, <3>1, GotoType DEF Callback, TypeOK
  <2>4. CASE ~cancelled /\ resp["task"].piece # 0
    <3>1. resp["task"].piece \in 1..MaxPieces
      BY <2>1, <2>4, BoundsAssumption
    <3>2. MsgType'
      <4>1. answer' = Append(answer, resp["task"].piece)
        BY <1>9, <2>4 DEF Callback
      <4>2. answer' \in Seq(1..MaxPieces)
        BY <3>1, <4>1, AppendProperties DEF TypeOK, MsgType
      <4>. QED
        BY <1>9, <2>4, <4>2 DEF Callback, TypeOK, MsgType
    <3>3. ThreadType'
      BY <1>1, <1>9, <2>1, <2>4, CallSendType DEF Callback
    <3>. QED
      BY <1>9, <3>2, <3>3 DEF Callback, TypeOK
  <2>. QED
    BY <2>2, <2>3, <2>4
<1>10. CASE FinishStopped
  <2>1. GrpcType' /\ HistType'
    BY <1>10, FinishType DEF FinishStopped
  <2>. QED
    BY <1>1, <1>2, <1>10, <2>1, GotoType DEF FinishStopped, TypeOK
<1>11. CASE AfterLoop
  <2>1. CASE cancelled
    BY <1>1, <1>2, <1>11, <2>1, GotoType DEF AfterLoop, TypeOK
  <2>2. CASE ~cancelled
    <3>1. ThreadType'
      BY <1>1, <1>11, <2>2, CallSendType DEF AfterLoop, TypeOK, GenType
    <3>. QED
      BY <1>11, <3>1 DEF AfterLoop, TypeOK
  <2>. QED
    BY <2>1, <2>2
<1>12. CASE FinishCompleted
  <2>1. GrpcType' /\ HistType'
    BY <1>12, FinishType DEF FinishCompleted
  <2>. QED
    BY <1>1, <1>2, <1>12, <2>1, GotoType DEF FinishCompleted, TypeOK
<1>13. CASE UseAfterFree
  <2>1. HistType'
    BY <1>13 DEF UseAfterFree, TypeOK, HistType
  <2>. QED
    BY <1>13, <2>1 DEF UseAfterFree, TypeOK
<1>. QED
  BY <1>1, <1>3, <1>4, <1>5, <1>6, <1>7, <1>8, <1>9, <1>10, <1>11, <1>12,
     <1>13, SendAndFlushType DEF Task, Process, ProcessRemote, TaskOnReactor

\* OnWriteDone keeps every variable in its type.
LEMMA OnWriteDoneType ==
    ASSUME TypeOK, NEW c \in Callbacks, OnWriteDone(c)
    PROVE  TypeOK'
<1>. USE UnchangedTypes, GotoType
<1>1. c \in Thread /\ ThreadType
  BY DEF Thread, TypeOK
<1>2. {"flush", "wd_cancel", "wd_finish", "idle"} \subseteq Label
  BY DEF Label
<1>3. CASE ClearWriting(c)
  <2>1. FlagType'
    BY <1>3 DEF ClearWriting, TypeOK, FlagType
  <2>. QED
    BY <1>1, <1>2, <1>3, <2>1 DEF ClearWriting, TypeOK
<1>4. CASE WriteFailedCancel(c)
  <2>1. FlagType'
    BY <1>4 DEF WriteFailedCancel, TypeOK, FlagType
  <2>. QED
    BY <1>1, <1>2, <1>4, <2>1 DEF WriteFailedCancel, TypeOK
<1>5. CASE WriteFailedFinish(c)
  <2>1. GrpcType' /\ HistType'
    BY <1>5, FinishType DEF WriteFailedFinish
  <2>. QED
    BY <1>1, <1>2, <1>5, <2>1 DEF WriteFailedFinish, TypeOK
<1>. QED
  BY <1>1, <1>3, <1>4, <1>5, SendAndFlushType DEF OnWriteDone

\* OnDone keeps every variable in its type.
LEMMA OnDoneType ==
    ASSUME TypeOK, OnDone
    PROVE  TypeOK'
<1>. USE UnchangedTypes
<1>1. "done" \in Thread /\ ThreadType /\ 0 \in 0..MaxPieces
      /\ "delete" \in Label /\ "gone" \in Label
  BY BoundsAssumption DEF Thread, TypeOK, Label
<1>2. CASE OnDoneStores
  <2>1. AnswerRow \in Row
    BY DEF AnswerRow, Row, TypeOK, MsgType
  <2>2. MsgType'
    BY <1>2, <2>1 DEF OnDoneStores, TypeOK, MsgType
  <2>. QED
    BY <1>1, <1>2, <2>2, GotoType DEF OnDoneStores, TypeOK
<1>3. CASE OnDoneFails
  <2>1. ThreadType'
    BY <1>1, <1>3, CallSendType DEF OnDoneFails
  <2>. QED
    BY <1>3, <2>1 DEF OnDoneFails, TypeOK
<1>4. CASE Delete
  <2>1. LifeType'
    BY <1>4 DEF Delete, TypeOK, LifeType
  <2>. QED
    BY <1>1, <1>4, <2>1, GotoType DEF Delete, TypeOK
<1>. QED
  BY <1>1, <1>2, <1>3, <1>4, SendAndFlushType DEF OnDone

\* What gRPC does on its own keeps every variable in its type.
LEMMA GrpcStepType ==
    ASSUME TypeOK,
           \/ Bind \/ Disconnect \/ OnCancel
           \/ \E c \in Callbacks, ok \in BOOLEAN : CompleteWrite(c, ok)
    PROVE  TypeOK'
<1>. USE UnchangedTypes
<1>1. CASE Bind
  <2>1. GrpcType'
    BY <1>1 DEF Bind, TypeOK, GrpcType
  <2>. QED
    BY <1>1, <2>1 DEF Bind, TypeOK
<1>2. CASE Disconnect
  <2>1. GrpcType'
    BY <1>2 DEF Disconnect, TypeOK, GrpcType
  <2>. QED
    BY <1>2, <2>1 DEF Disconnect, TypeOK
<1>3. CASE OnCancel
  <2>1. GrpcType'
    BY <1>3 DEF OnCancel, TypeOK, GrpcType
  <2>2. FlagType'
    BY <1>3 DEF OnCancel, TypeOK, FlagType
  <2>. QED
    BY <1>3, <2>1, <2>2 DEF OnCancel, TypeOK
<1>4. ASSUME NEW c \in Callbacks, NEW ok \in BOOLEAN, CompleteWrite(c, ok)
      PROVE  TypeOK'
  <2>1. GrpcType'
    BY <1>4 DEF CompleteWrite, TypeOK, GrpcType
  <2>2. HistType'
    BY <1>4 DEF CompleteWrite, TypeOK, HistType
  <2>3. ThreadType'
    BY <1>4, GotoType DEF CompleteWrite, TypeOK, Label, Thread
  <2>. QED
    BY <1>4, <2>1, <2>2, <2>3 DEF CompleteWrite, TypeOK
<1>. QED
  BY <1>1, <1>2, <1>3, <1>4

\* The registry and Stop keep every variable in its type.
LEMMA StopType ==
    ASSUME TypeOK, SameSessionQuery \/ StopBegin \/ Stop
    PROVE  TypeOK'
<1>. USE UnchangedTypes
<1>1. CASE SameSessionQuery
  <2>1. LifeType'
    BY <1>1 DEF SameSessionQuery, TypeOK, LifeType
  <2>. QED
    BY <1>1, <2>1 DEF SameSessionQuery, TypeOK
<1>2. CASE StopBegin
  <2>1. LifeType'
    BY <1>2, BoundsAssumption DEF StopBegin, TypeOK, LifeType
  <2>. QED
    BY <1>2, <2>1 DEF StopBegin, TypeOK
<1>3. CASE StopCancel
  <2>1. LifeType' /\ FlagType'
    BY <1>3 DEF StopCancel, TypeOK, LifeType, FlagType
  <2>. QED
    BY <1>3, <2>1 DEF StopCancel, TypeOK
<1>4. CASE StopUnwrite
  <2>1. LifeType' /\ FlagType'
    BY <1>4 DEF StopUnwrite, TypeOK, LifeType, FlagType
  <2>. QED
    BY <1>4, <2>1 DEF StopUnwrite, TypeOK
<1>5. CASE StopDrain
  <2>1. queue # <<>> => Tail(queue) \in Seq(Resp)
    BY HeadTailProperties DEF TypeOK, FlagType
  <2>2. FlagType'
    BY <1>5, <2>1 DEF StopDrain, TypeOK, FlagType
  <2>3. LifeType'
    BY <1>5 DEF StopDrain, TypeOK, LifeType
  <2>4. HistType'
    BY <1>5 DEF StopDrain, TypeOK, HistType
  <2>. QED
    BY <1>5, <2>2, <2>3, <2>4 DEF StopDrain, TypeOK
<1>. QED
  BY <1>1, <1>2, <1>3, <1>4, <1>5 DEF Stop

\* The initial states have the right types.
LEMMA InitType == Init => TypeOK
<1>. SUFFICES ASSUME Init PROVE TypeOK
  OBVIOUS
<1>1. ThreadType
  <2>1. [piece |-> 0, fin |-> FALSE, ec |-> "OK", msg |-> ClientMsg] \in Resp
    BY BoundsAssumption DEF Resp
  <2>. QED
    BY <2>1 DEF Init, ThreadType, Label
<1>2. FlagType /\ MsgType
  BY EmptySeq DEF Init, FlagType, MsgType, Row
<1>3. GenType
  BY BoundsAssumption DEF Init, GenType
<1>4. GrpcType
  BY EmptySeq DEF Init, GrpcType
<1>5. LifeType
  <2>1. stops \in 0..MaxStops
    BY BoundsAssumption DEF Init
  <2>. QED
    BY <2>1 DEF Init, LifeType
<1>6. HistType
  BY DEF Init, HistType
<1>. QED
  BY <1>1, <1>2, <1>3, <1>4, <1>5, <1>6 DEF TypeOK

\* Every step keeps every variable in its type.
LEMMA NextType == TypeOK /\ [Next]_vars => TypeOK'
<1>. SUFFICES ASSUME TypeOK, [Next]_vars PROVE TypeOK'
  OBVIOUS
<1>1. CASE UNCHANGED vars
  BY <1>1, UnchangedTypes DEF vars, TypeOK
<1>. QED
  BY <1>1, TaskType, OnWriteDoneType, OnDoneType, GrpcStepType, StopType
     DEF Next

\* Every variable of a Query RPC keeps its type, whatever the number of gRPC
\* threads, pieces and stops.
THEOREM TypeCorrect == Spec => []TypeOK
  BY InitType, NextType, PTL DEF Spec

-----------------------------------------------------------------------------
(* Stop and the deletion of the reactor.                                    *)

\* What the registry maps to, or Stop works on, is a reactor not yet freed.
ReachableIsLive == registered \/ stopPc # "idle" => ~freed

\* Who may change the registry, the life of the reactor or the stop thread.
LEMMA LifeFrame ==
    ASSUME Next
    PROVE  \/ UNCHANGED lifeVars
           \/ Delete \/ SameSessionQuery \/ StopBegin
           \/ StopCancel \/ StopUnwrite \/ StopDrain
<1>1. ASSUME NEW t, SendAndFlush(t) PROVE UNCHANGED lifeVars
  BY <1>1 DEF SendAndFlush, SendIfNotCancelled, Enqueue, FlushIfNotWriting,
     FlushIfNotCancelled, FlushDequeue, FlushStore, FlushStart
<1>2. ASSUME Task PROVE UNCHANGED lifeVars
  BY <1>1, <1>2 DEF Task, Process, ProcessRemote, TaskOnReactor, RecordQuery,
     RecordQueryFails, LocalStart, RemoteStart, Produce, EndOfPieces, Callback,
     FinishStopped, AfterLoop, FinishCompleted, UseAfterFree
<1>3. ASSUME NEW c, OnWriteDone(c) PROVE UNCHANGED lifeVars
  BY <1>1, <1>3 DEF OnWriteDone, ClearWriting, WriteFailedCancel,
     WriteFailedFinish
<1>4. ASSUME OnDone PROVE UNCHANGED lifeVars \/ Delete
  BY <1>1, <1>4 DEF OnDone, OnDoneStores, OnDoneFails
<1>. QED
  BY <1>2, <1>3, <1>4 DEF Next, Bind, Disconnect, OnCancel, CompleteWrite, Stop

\* Stop never works on a deleted reactor: the destructor needs the mutex that
\* stop_query holds, and erases the entry before anything is freed.
THEOREM StopIsSafe == Spec => []StopHoldsLiveReactor
<1>1. Init => ReachableIsLive
  BY DEF Init, ReachableIsLive
<1>2. TypeOK /\ ReachableIsLive /\ [Next]_vars => ReachableIsLive'
  <2>. SUFFICES ASSUME TypeOK, ReachableIsLive, [Next]_vars
                PROVE  ReachableIsLive'
    OBVIOUS
  <2>1. CASE UNCHANGED lifeVars
    BY <2>1 DEF ReachableIsLive, lifeVars
  <2>2. CASE Delete
    BY <2>2 DEF Delete, ReachableIsLive
  <2>3. CASE SameSessionQuery
    BY <2>3 DEF SameSessionQuery, ReachableIsLive
  <2>4. CASE StopBegin
    BY <2>4 DEF StopBegin, ReachableIsLive
  <2>5. CASE StopCancel
    BY <2>5 DEF StopCancel, ReachableIsLive
  <2>6. CASE StopUnwrite
    BY <2>6 DEF StopUnwrite, ReachableIsLive
  <2>7. CASE StopDrain
    BY <2>7 DEF StopDrain, ReachableIsLive
  <2>. QED
    BY <2>1, <2>2, <2>3, <2>4, <2>5, <2>6, <2>7, LifeFrame DEF vars
<1>3. ReachableIsLive => StopHoldsLiveReactor
  BY DEF ReachableIsLive, StopHoldsLiveReactor
<1>. QED
  BY <1>1, <1>2, <1>3, TypeCorrect, PTL DEF Spec

-----------------------------------------------------------------------------
(* No lost wake-up.                                                         *)

\* While _is_writing is set on a live call, the OnWriteDone that clears it is
\* still to come.
Covering == {"flush_start", "written", "write_failed"}
WritingIsCovered ==
    Running /\ writing /\ ~cancelled =>
        inflight \/ \E t \in Thread : pc[t] \in Covering

WakeUp == WritingIsCovered /\ NoStrandedResponse

\* A thread at a label in S is still there when another thread, or the same
\* thread outside S, moves.
LEMMA WitnessStays ==
    ASSUME ThreadType, NEW t \in Thread, NEW l, Goto(t, l), NEW S,
           pc[t] \notin S \/ l \in S, \E u \in Thread : pc[u] \in S
    PROVE  \E u \in Thread : pc'[u] \in S
<1>1. PICK u \in Thread : pc[u] \in S
  OBVIOUS
<1>. QED
  BY <1>1 DEF ThreadType, Goto

\* A thread that moves into S is a witness.
LEMMA WitnessArrives ==
    ASSUME ThreadType, NEW t \in Thread, NEW l, Goto(t, l), NEW S, l \in S
    PROVE  \E u \in Thread : pc'[u] \in S
  BY DEF ThreadType, Goto

\* A step that only moves one thread, and not out of Flushing.
LEMMA WakeUpMove ==
    ASSUME ThreadType, WakeUp, NEW t \in Thread, NEW l, Goto(t, l),
           pc[t] \notin Flushing \/ l \in Flushing,
           pc[t] \notin Covering \/ l \in Covering,
           UNCHANGED <<flagVars, inflight>>, Running
    PROVE  WakeUp'
<1>1. (\E u \in Thread : pc[u] \in Flushing)
         => \E u \in Thread : pc'[u] \in Flushing
  BY WitnessStays
<1>2. (\E u \in Thread : pc[u] \in Covering)
         => \E u \in Thread : pc'[u] \in Covering
  BY WitnessStays
<1>3. WritingIsCovered'
  BY <1>2 DEF WakeUp, WritingIsCovered, flagVars
<1>4. NoStrandedResponse'
  BY <1>1 DEF WakeUp, NoStrandedResponse, flagVars
<1>. QED
  BY <1>3, <1>4 DEF WakeUp

\* The labels _send and _flush return to wait for nothing.
LEMMA ReturnLabels ==
    ASSUME ThreadType, NEW t
    PROVE  Return(t) \notin Flushing /\ Return(t) \notin Covering
  BY DEF ThreadType, Return, Flushing, Covering

\* _send and _flush keep the wake-up invariant: the thread that gives up on a
\* response leaves it to one that still has to look at the queue.
LEMMA SendAndFlushWakeUp ==
    ASSUME TypeOK, WakeUp, Running, NEW t \in Thread, SendAndFlush(t)
    PROVE  WakeUp'
<1>0. ThreadType /\ Return(t) \notin Flushing /\ Return(t) \notin Covering
  BY ReturnLabels DEF TypeOK
<1>1. CASE SendIfNotCancelled(t)
  <2>1. PICK l : Goto(t, l) /\ pc[t] = "send"
    BY <1>1 DEF SendIfNotCancelled
  <2>. QED
    BY <1>0, <1>1, <2>1, WakeUpMove
       DEF SendIfNotCancelled, Flushing, Covering, grpcVars
<1>2. CASE Enqueue(t)
  <2>1. Goto(t, "flush") /\ pc[t] \notin Covering /\ "flush" \in Flushing
    BY <1>2 DEF Enqueue, Flushing, Covering
  <2>2. \E u \in Thread : pc'[u] \in Flushing
    BY <1>0, <2>1, WitnessArrives
  <2>3. NoStrandedResponse'
    BY <2>2 DEF NoStrandedResponse
  <2>4. (\E u \in Thread : pc[u] \in Covering)
           => \E u \in Thread : pc'[u] \in Covering
    BY <1>0, <2>1, WitnessStays
  <2>5. WritingIsCovered'
    BY <1>2, <2>4 DEF WakeUp, WritingIsCovered, Enqueue, grpcVars
  <2>. QED
    BY <2>3, <2>5 DEF WakeUp
<1>3. CASE FlushIfNotWriting(t)
  <2>1. CASE ~writing
    <3>1. Goto(t, "flush_cancelled") /\ pc[t] = "flush"
      BY <1>3, <2>1 DEF FlushIfNotWriting
    <3>. QED
      BY <1>0, <1>3, <3>1, WakeUpMove
         DEF FlushIfNotWriting, Flushing, Covering, grpcVars
  <2>2. CASE writing
    <3>1. Goto(t, Return(t)) /\ pc[t] = "flush"
      BY <1>3, <2>2 DEF FlushIfNotWriting
    <3>2. (\E u \in Thread : pc[u] \in Covering)
             => \E u \in Thread : pc'[u] \in Covering
      BY <1>0, <3>1, WitnessStays DEF Covering
    <3>3. WritingIsCovered'
      BY <1>3, <3>2
         DEF WakeUp, WritingIsCovered, FlushIfNotWriting, flagVars, grpcVars
    <3>4. ~cancelled' => inflight' \/ \E u \in Thread : pc'[u] \in Covering
      BY <1>3, <2>2, <3>2
         DEF WakeUp, WritingIsCovered, FlushIfNotWriting, flagVars, grpcVars
    <3>5. Covering \subseteq Flushing
      BY DEF Covering, Flushing
    <3>6. NoStrandedResponse'
      BY <3>4, <3>5 DEF NoStrandedResponse
    <3>. QED
      BY <3>3, <3>6 DEF WakeUp
  <2>. QED
    BY <2>1, <2>2
<1>4. CASE FlushIfNotCancelled(t)
  <2>1. CASE cancelled
    BY <1>4, <2>1 DEF FlushIfNotCancelled, WakeUp, WritingIsCovered,
       NoStrandedResponse, flagVars
  <2>2. CASE ~cancelled
    <3>1. Goto(t, "flush_dequeue") /\ pc[t] = "flush_cancelled"
      BY <1>4, <2>2 DEF FlushIfNotCancelled
    <3>. QED
      BY <1>0, <1>4, <3>1, WakeUpMove
         DEF FlushIfNotCancelled, Flushing, Covering, grpcVars
  <2>. QED
    BY <2>1, <2>2
<1>5. CASE FlushDequeue(t)
  <2>1. \E l : Goto(t, l) /\ pc[t] \notin Covering
    BY <1>5 DEF FlushDequeue, Covering
  <2>2. (\E u \in Thread : pc[u] \in Covering)
           => \E u \in Thread : pc'[u] \in Covering
    BY <1>0, <2>1, WitnessStays
  <2>3. WritingIsCovered'
    BY <1>5, <2>2 DEF WakeUp, WritingIsCovered, FlushDequeue, grpcVars
  <2>4. CASE queue = <<>>
    BY <1>5, <2>3, <2>4 DEF FlushDequeue, WakeUp, NoStrandedResponse
  <2>5. CASE queue # <<>>
    <3>1. Goto(t, "flush_store") /\ "flush_store" \in Flushing
      BY <1>5, <2>5 DEF FlushDequeue, Flushing
    <3>2. \E u \in Thread : pc'[u] \in Flushing
      BY <1>0, <3>1, WitnessArrives
    <3>. QED
      BY <2>3, <3>2 DEF WakeUp, NoStrandedResponse
  <2>. QED
    BY <2>4, <2>5
<1>6. CASE FlushStore(t)
  <2>1. Goto(t, "flush_start")
    BY <1>6 DEF FlushStore
  <2>2. "flush_start" \in Covering /\ Covering \subseteq Flushing
    BY DEF Covering, Flushing
  <2>3. \E u \in Thread : pc'[u] \in Covering
    BY <1>0, <2>1, <2>2, WitnessArrives
  <2>. QED
    BY <2>2, <2>3 DEF WakeUp, NoStrandedResponse, WritingIsCovered
<1>7. CASE FlushStart(t)
  BY <1>7 DEF FlushStart, WakeUp, NoStrandedResponse, WritingIsCovered
<1>. QED
  BY <1>1, <1>2, <1>3, <1>4, <1>5, <1>6, <1>7 DEF SendAndFlush

\* The steps of the pool task keep the wake-up invariant.
LEMMA TaskWakeUp ==
    ASSUME TypeOK, WakeUp, Task
    PROVE  WakeUp'
<1>1. "task" \in Thread /\ ThreadType /\ Running
  BY DEF Thread, TypeOK, Task
<1>2. CASE SendAndFlush("task")
  BY <1>1, <1>2, SendAndFlushWakeUp
<1>3. CASE UseAfterFree
  BY <1>3 DEF UseAfterFree, WakeUp, WritingIsCovered, NoStrandedResponse,
     Running
<1>4. CASE RecordQuery \/ RecordQueryFails \/ LocalStart \/ RemoteStart
           \/ Produce \/ EndOfPieces \/ Callback \/ FinishStopped \/ AfterLoop
           \/ FinishCompleted
  <2>1. UNCHANGED <<flagVars, inflight>>
    BY <1>4 DEF RecordQuery, RecordQueryFails, LocalStart, RemoteStart,
       Produce, EndOfPieces, Callback, FinishStopped, AfterLoop,
       FinishCompleted, Finish, grpcVars
  <2>2. pc["task"] \notin Flushing /\ pc["task"] \notin Covering
    BY <1>4 DEF RecordQuery, RecordQueryFails, LocalStart, RemoteStart,
       Produce, EndOfPieces, Callback, FinishStopped, AfterLoop,
       FinishCompleted, Flushing, Covering
  <2>3. \E l : Goto("task", l)
    BY <1>4 DEF RecordQuery, RecordQueryFails, LocalStart, RemoteStart,
       Produce, EndOfPieces, Callback, FinishStopped, AfterLoop,
       FinishCompleted, CallSend
  <2>. QED
    BY <1>1, <2>1, <2>2, <2>3, WakeUpMove
<1>. QED
  BY <1>2, <1>3, <1>4 DEF Task, Process, ProcessRemote, TaskOnReactor

\* OnWriteDone keeps the wake-up invariant: it clears _is_writing before it
\* looks at the queue.
LEMMA OnWriteDoneWakeUp ==
    ASSUME TypeOK, WakeUp, Running, NEW c \in Callbacks, OnWriteDone(c)
    PROVE  WakeUp'
<1>1. c \in Thread /\ ThreadType
  BY DEF Thread, TypeOK
<1>2. CASE ClearWriting(c)
  <2>1. ~writing'
    BY <1>2 DEF ClearWriting
  <2>2. PICK l \in {"flush", "wd_cancel"} : Goto(c, l)
    BY <1>2 DEF ClearWriting
  <2>3. \E u \in Thread : pc'[u] \in Flushing
    BY <1>1, <2>2, WitnessArrives DEF Flushing
  <2>. QED
    BY <2>1, <2>3 DEF WakeUp, WritingIsCovered, NoStrandedResponse
<1>3. CASE WriteFailedCancel(c)
  BY <1>3 DEF WriteFailedCancel, WakeUp, WritingIsCovered, NoStrandedResponse
<1>4. CASE WriteFailedFinish(c)
  <2>1. Goto(c, "idle") /\ pc[c] \notin Flushing /\ pc[c] \notin Covering
    BY <1>4 DEF WriteFailedFinish, Flushing, Covering
  <2>. QED
    BY <1>1, <1>4, <2>1, WakeUpMove DEF WriteFailedFinish, Finish
<1>. QED
  BY <1>1, <1>2, <1>3, <1>4, SendAndFlushWakeUp DEF OnWriteDone

\* OnDone keeps the wake-up invariant.
LEMMA OnDoneWakeUp ==
    ASSUME TypeOK, WakeUp, Running, OnDone
    PROVE  WakeUp'
<1>1. "done" \in Thread /\ ThreadType
  BY DEF Thread, TypeOK
<1>2. CASE OnDoneStores \/ OnDoneFails \/ Delete
  <2>1. \E l : Goto("done", l)
    BY <1>2 DEF OnDoneStores, OnDoneFails, Delete, CallSend
  <2>2. pc["done"] \notin Flushing /\ pc["done"] \notin Covering
    BY <1>2 DEF OnDoneStores, OnDoneFails, Delete, DoneReady, Flushing,
       Covering
  <2>3. UNCHANGED <<flagVars, inflight>>
    BY <1>2 DEF OnDoneStores, OnDoneFails, Delete, grpcVars
  <2>. QED
    BY <1>1, <2>1, <2>2, <2>3, WakeUpMove
<1>. QED
  BY <1>1, <1>2, SendAndFlushWakeUp DEF OnDone

\* What gRPC does on its own keeps the wake-up invariant.
LEMMA GrpcStepWakeUp ==
    ASSUME TypeOK, WakeUp, Running,
           \/ Bind \/ Disconnect \/ OnCancel
           \/ \E c \in Callbacks, ok \in BOOLEAN : CompleteWrite(c, ok)
    PROVE  WakeUp'
<1>1. CASE Bind \/ Disconnect
  BY <1>1 DEF Bind, Disconnect, WakeUp, WritingIsCovered, NoStrandedResponse,
     Running, threadVars, flagVars, histVars
<1>2. CASE OnCancel
  BY <1>2 DEF OnCancel, WakeUp, WritingIsCovered, NoStrandedResponse
<1>3. ASSUME NEW c \in Callbacks, NEW ok \in BOOLEAN, CompleteWrite(c, ok)
      PROVE  WakeUp'
  <2>1. c \in Thread /\ ThreadType
    BY DEF Thread, TypeOK
  <2>2. PICK l \in {"written", "write_failed"} : Goto(c, l)
    BY <1>3 DEF CompleteWrite
  <2>3. /\ \E u \in Thread : pc'[u] \in Covering
        /\ \E u \in Thread : pc'[u] \in Flushing
    BY <2>1, <2>2, WitnessArrives DEF Covering, Flushing
  <2>. QED
    BY <2>3 DEF WakeUp, WritingIsCovered, NoStrandedResponse
<1>. QED
  BY <1>1, <1>2, <1>3

\* The registry and Stop keep the wake-up invariant.
LEMMA StopWakeUp ==
    ASSUME TypeOK, WakeUp, Running, SameSessionQuery \/ StopBegin \/ Stop
    PROVE  WakeUp'
<1>1. CASE SameSessionQuery \/ StopBegin
  BY <1>1 DEF SameSessionQuery, StopBegin, WakeUp, WritingIsCovered,
     NoStrandedResponse, Running, threadVars, flagVars, grpcVars, histVars
<1>2. CASE StopCancel
  BY <1>2 DEF StopCancel, WakeUp, WritingIsCovered, NoStrandedResponse
<1>3. CASE StopUnwrite
  BY <1>3 DEF StopUnwrite, WakeUp, WritingIsCovered, NoStrandedResponse,
     Running, threadVars, grpcVars, histVars
<1>4. CASE StopDrain
  <2>1. queue' # <<>> => queue # <<>>
    BY <1>4 DEF StopDrain
  <2>. QED
    BY <1>4, <2>1 DEF StopDrain, WakeUp, WritingIsCovered,
       NoStrandedResponse, Running, threadVars, grpcVars
<1>. QED
  BY <1>1, <1>2, <1>3, <1>4 DEF Stop

\* A response queued on a live call is never forgotten, although _is_writing
\* is tested and set in separate steps by any number of threads.
THEOREM NoLostWakeUp == Spec => []NoStrandedResponse
<1>1. Init => WakeUp
  BY DEF Init, WakeUp, WritingIsCovered, NoStrandedResponse
<1>2. TypeOK /\ WakeUp /\ [Next]_vars => WakeUp'
  <2>. SUFFICES ASSUME TypeOK, WakeUp, [Next]_vars PROVE WakeUp'
    OBVIOUS
  <2>1. CASE UNCHANGED vars
    BY <2>1 DEF vars, WakeUp, WritingIsCovered, NoStrandedResponse, Running,
       threadVars, flagVars, grpcVars, histVars
  <2>. QED
    BY <2>1, TaskWakeUp, OnWriteDoneWakeUp, OnDoneWakeUp, GrpcStepWakeUp,
       StopWakeUp DEF Next
<1>3. WakeUp => NoStrandedResponse
  BY DEF WakeUp
<1>. QED
  BY <1>1, <1>2, <1>3, TypeCorrect, PTL DEF Spec

-----------------------------------------------------------------------------
(* Cancelling, finishing and storing.                                       *)

\* The labels of _send and _flush, and of the end of a failed write.
Sending == {"send", "enqueue", "flush", "flush_cancelled", "flush_dequeue",
            "flush_store", "flush_start"}
Failing == {"write_failed", "wd_cancel", "wd_finish"}
PastTest == {"flush_dequeue", "flush_store", "flush_start"}

Asked == \E r \in rows : r.role = "user"

\* Stop sets _is_cancelled before it does anything else, and nothing clears it.
CancelInv ==
    /\ stopPc \in {"unwrite", "drain"} => cancelled
    /\ stopped => cancelled
    /\ lateWriters # {} => stopped
    /\ AtMostOneLateWrite

\* Until the question is stored, or fails to be, nothing else has happened.
FreshInv ==
    /\ pc["task"] = "insert" =>
          /\ rows = {} /\ queue = <<>> /\ wire = <<>> /\ ~inflight /\ finish = "none"
          /\ \A t \in Thread \ {"task"} : pc[t] = "idle"
    /\ IF Asked THEN curr_msg_id = AnswerMsg /\ prev_msg_id = ClientMsg
                ELSE curr_msg_id = ClientMsg /\ prev_msg_id = NoMsg

\* Where the task is when the call is finished, and why it ends.
TaskInv ==
    /\ \A c \in Callbacks : pc[c] \in Failing => failed
    /\ pc["task"] \in Sending /\ ret = "end" => ~Asked
    /\ pc["task"] \in Sending /\ ret = "finish_stopped" => cancelled
    /\ pc["task"] = "finish_stopped" => cancelled
    /\ UnfinishedOnlyIfCancelledOrUnstored
    /\ FinishedUnderTaskOnlyAfterStop
    /\ DoubleFinishNeedsFailedWrite

\* A response with text carries message id m and is a piece of answer a.
Kept(x, m, a) ==
    x.piece # 0 => x.msg = m /\ \E j \in 1..Len(a) : a[j] = x.piece

\* Whatever is sent, queued or written was kept first.  A response that a
\* cancelled task sends is the exception; it is never queued.
InHand == {"enqueue", "flush_store", "flush_start"}
StreamInv ==
    /\ \A t \in Thread :
          /\ pc[t] = "send" => cancelled \/ Kept(resp[t], curr_msg_id, answer)
          /\ pc[t] \in InHand => Kept(resp[t], curr_msg_id, answer)
    /\ \A i \in 1..Len(queue) : Kept(queue[i], curr_msg_id, answer)
    /\ \A i \in 1..Len(wire) : Kept(wire[i], curr_msg_id, answer)

\* Rows carry the ids of the query; the answer is stored after Finish, when
\* nothing more is written.
RowInv ==
    /\ \A r \in rows : r.role = "user" => r.id = ClientMsg
    /\ \A r \in rows : r.role = "assistant" =>
          finish # "none" /\ r.id = curr_msg_id /\ r.prev = prev_msg_id
    /\ StoredAnswerCoversStream

\* The task's own steps, outside of _send and _flush.
TaskOwn ==
    \/ RecordQuery \/ RecordQueryFails \/ LocalStart \/ RemoteStart \/ Produce
    \/ EndOfPieces \/ Callback \/ FinishStopped \/ AfterLoop \/ FinishCompleted

\* Which steps there are.
LEMMA StepCases ==
    ASSUME [Next]_vars
    PROVE  \/ TaskOwn
           \/ \E t \in Thread : SendAndFlush(t)
           \/ UseAfterFree
           \/ \E c \in Callbacks : ClearWriting(c) \/ WriteFailedCancel(c)
                                   \/ WriteFailedFinish(c)
           \/ \E c \in Callbacks, ok \in BOOLEAN : CompleteWrite(c, ok)
           \/ OnDoneStores \/ OnDoneFails \/ Delete
           \/ Bind \/ Disconnect \/ OnCancel
           \/ SameSessionQuery \/ StopBegin \/ StopCancel \/ StopUnwrite \/ StopDrain
           \/ UNCHANGED vars
<1>1. CASE Task
  BY <1>1 DEF Task, Process, ProcessRemote, TaskOnReactor, TaskOwn, Thread
<1>2. ASSUME NEW c \in Callbacks, OnWriteDone(c)
      PROVE  SendAndFlush(c) \/ ClearWriting(c) \/ WriteFailedCancel(c)
             \/ WriteFailedFinish(c)
  BY <1>2 DEF OnWriteDone
<1>3. CASE OnDone
  BY <1>3 DEF OnDone, Thread
<1> QED BY <1>1, <1>2, <1>3 DEF Next, Stop, Thread

\* What _send and _flush leave alone, and where they lead.
LEMMA SendFrame ==
    ASSUME ThreadType, NEW t \in Thread, SendAndFlush(t)
    PROVE  /\ UNCHANGED <<ret, cancelled, msgVars, genVars, bound, finish, onCancel,
                          lifeVars, stopped, failed>>
           /\ pc[t] \in Sending
           /\ \E l \in (Sending \cup {Return(t)}) \ {"send"} : Goto(t, l)
           /\ ~FlushStart(t) => UNCHANGED <<grpcVars, histVars>>
<1>1. Return(t) # "send"
  BY DEF ThreadType, Return
<1>2. CASE SendIfNotCancelled(t) \/ Enqueue(t)
  BY <1>1, <1>2 DEF SendIfNotCancelled, Enqueue, flagVars, grpcVars, histVars, Sending
<1>3. CASE FlushIfNotWriting(t) \/ FlushIfNotCancelled(t)
  BY <1>1, <1>3 DEF FlushIfNotWriting, FlushIfNotCancelled, flagVars, grpcVars, histVars,
     Sending
<1>4. CASE FlushDequeue(t) \/ FlushStore(t)
  BY <1>1, <1>4 DEF FlushDequeue, FlushStore, grpcVars, histVars, Sending
<1>5. CASE FlushStart(t)
  BY <1>1, <1>5 DEF FlushStart, flagVars, Sending
<1> QED BY <1>2, <1>3, <1>4, <1>5 DEF SendAndFlush

\* What the task's own steps leave alone, and where they lead.
LEMMA TaskFrame ==
    ASSUME TaskOwn
    PROVE  /\ UNCHANGED <<flagVars, bound, inflight, wire, onCancel, lifeVars, stopped,
                          lateWriters, failed>>
           /\ pc["task"] \notin Sending \cup {"end"}
           /\ \E l \in {"start", "send", "loop", "after", "callback", "end"} : Goto("task", l)
<1>1. CASE RecordQuery \/ RecordQueryFails
  BY <1>1 DEF RecordQuery, RecordQueryFails, CallSend, grpcVars, histVars, Sending
<1>2. CASE LocalStart \/ RemoteStart
  BY <1>2 DEF LocalStart, RemoteStart, grpcVars, histVars, Sending
<1>3. CASE Produce \/ EndOfPieces
  BY <1>3 DEF Produce, EndOfPieces, grpcVars, histVars, Sending
<1>4. CASE Callback
  BY <1>4 DEF Callback, CallSend, grpcVars, histVars, Sending
<1>5. CASE FinishStopped \/ FinishCompleted
  BY <1>5 DEF FinishStopped, FinishCompleted, Finish, Sending
<1>6. CASE AfterLoop
  BY <1>6 DEF AfterLoop, CallSend, grpcVars, histVars, Sending
<1> QED BY <1>1, <1>2, <1>3, <1>4, <1>5, <1>6 DEF TaskOwn

\* What control moves do to one thread and to the others.
LEMMA GotoFacts ==
    ASSUME ThreadType, NEW t \in Thread, NEW l, Goto(t, l)
    PROVE  pc'[t] = l /\ \A u \in Thread : u # t => pc'[u] = pc[u]
  BY DEF ThreadType, Goto

\* A step that starts no write and brings no thread past the test of
\* _is_cancelled.
LEMMA CancelMove ==
    ASSUME TypeOK, CancelInv, UNCHANGED <<stopPc, stopped, lateWriters>>,
           cancelled => cancelled',
           \/ UNCHANGED pc
           \/ \E t \in Thread : \E l : Goto(t, l) /\ l \notin PastTest
    PROVE  CancelInv'
<1>1. \A u \in Thread : pc'[u] \in PastTest => pc[u] \in PastTest
  BY GotoFacts DEF TypeOK
<1>2. \A u \in lateWriters : u \in Thread
  BY DEF TypeOK, HistType
<1>3. AtMostOneLateWrite'
  BY <1>1, <1>2 DEF CancelInv, AtMostOneLateWrite, PastTest
<1> QED BY <1>3 DEF CancelInv

\* Every step keeps a stopped call cancelled.
LEMMA CancelStep ==
    ASSUME TypeOK, CancelInv, [Next]_vars
    PROVE  CancelInv'
<1>0. /\ ThreadType /\ "task" \in Thread /\ "done" \in Thread /\ Callbacks \subseteq Thread
      /\ lateWriters \subseteq Thread
  BY DEF TypeOK, Thread, HistType
<1>1. CASE TaskOwn
  BY <1>0, <1>1, TaskFrame, CancelMove DEF flagVars, lifeVars, PastTest
<1>2. ASSUME NEW t \in Thread, SendAndFlush(t)
      PROVE  CancelInv'
  <2>0. Return(t) \notin PastTest
    BY <1>0 DEF ThreadType, Return, PastTest
  <2>1. UNCHANGED <<cancelled, stopPc, stopped>>
    BY <1>0, <1>2, SendFrame DEF lifeVars
  <2>2. CASE FlushStart(t)
    <3>1. /\ pc'[t] = Return(t)
          /\ \A u \in Thread : u # t => pc'[u] = pc[u]
          /\ lateWriters' = IF stopped THEN lateWriters \cup {t} ELSE lateWriters
      BY <1>0, <2>2, GotoFacts DEF FlushStart
    <3> QED BY <1>0, <2>0, <2>1, <3>1 DEF CancelInv, AtMostOneLateWrite, PastTest
  <2>3. CASE ~FlushStart(t)
    <3>1. UNCHANGED lateWriters
      BY <1>0, <1>2, <2>3, SendFrame DEF histVars
    <3>2. CASE t \in lateWriters
      <4>1. cancelled /\ pc[t] \notin PastTest
        BY <3>2 DEF CancelInv, AtMostOneLateWrite, PastTest
      <4>2. \E l : Goto(t, l) /\ l \notin PastTest
        <5>1. CASE SendIfNotCancelled(t) \/ Enqueue(t)
          BY <2>0, <5>1 DEF SendIfNotCancelled, Enqueue, PastTest
        <5>2. CASE FlushIfNotWriting(t)
          BY <2>0, <5>2 DEF FlushIfNotWriting, PastTest
        <5>3. CASE FlushIfNotCancelled(t)
          BY <2>0, <4>1, <5>3 DEF FlushIfNotCancelled
        <5>4. ~FlushDequeue(t) /\ ~FlushStore(t)
          BY <4>1 DEF FlushDequeue, FlushStore, PastTest
        <5> QED BY <1>2, <2>3, <5>1, <5>2, <5>3, <5>4 DEF SendAndFlush
      <4> QED BY <2>1, <3>1, <4>2, CancelMove
    <3>3. CASE t \notin lateWriters
      <4>1. \A u \in Thread : u # t => pc'[u] = pc[u]
        BY <1>0, <1>2, SendFrame, GotoFacts
      <4>2. AtMostOneLateWrite'
        BY <1>0, <3>1, <3>3, <4>1 DEF CancelInv, AtMostOneLateWrite
      <4> QED BY <2>1, <3>1, <4>2 DEF CancelInv
    <3> QED BY <3>2, <3>3
  <2> QED BY <2>2, <2>3
<1>3. ASSUME NEW c \in Callbacks,
             ClearWriting(c) \/ WriteFailedCancel(c) \/ WriteFailedFinish(c)
             \/ \E ok \in BOOLEAN : CompleteWrite(c, ok)
      PROVE  CancelInv'
  <2>1. UNCHANGED <<stopPc, stopped, lateWriters>> /\ (cancelled => cancelled')
    BY <1>3 DEF ClearWriting, WriteFailedCancel, WriteFailedFinish, CompleteWrite, Finish,
       flagVars, lifeVars, histVars
  <2>2. \E l : Goto(c, l) /\ l \notin PastTest
    BY <1>3 DEF ClearWriting, WriteFailedCancel, WriteFailedFinish, CompleteWrite, PastTest
  <2> QED BY <1>0, <2>1, <2>2, CancelMove
<1>4. CASE OnDoneStores \/ OnDoneFails \/ Delete
  <2>1. UNCHANGED <<stopPc, stopped, lateWriters, cancelled>>
    BY <1>4 DEF OnDoneStores, OnDoneFails, Delete, flagVars, lifeVars, histVars
  <2>2. \E l : Goto("done", l) /\ l \notin PastTest
    BY <1>4 DEF OnDoneStores, OnDoneFails, Delete, CallSend, PastTest
  <2> QED BY <1>0, <2>1, <2>2, CancelMove
<1>5. CASE UseAfterFree \/ Bind \/ Disconnect \/ OnCancel \/ SameSessionQuery
  BY <1>5, CancelMove DEF UseAfterFree, Bind, Disconnect, OnCancel, SameSessionQuery,
     threadVars, flagVars, lifeVars, histVars
<1>6. CASE StopBegin \/ StopCancel \/ StopUnwrite \/ StopDrain
  BY <1>6 DEF StopBegin, StopCancel, StopUnwrite, StopDrain, CancelInv, AtMostOneLateWrite,
     threadVars, flagVars, histVars
<1>7. CASE UNCHANGED vars
  BY <1>7, CancelMove DEF vars, threadVars, flagVars, lifeVars, histVars
<1> QED BY <1>1, <1>2, <1>3, <1>4, <1>5, <1>6, <1>7, StepCases

\* A step of another kind than the insert of the question, when that is over.
LEMMA FreshMove ==
    ASSUME FreshInv, pc["task"] # "insert", pc'["task"] # "insert",
           UNCHANGED <<curr_msg_id, prev_msg_id>>, Asked' <=> Asked
    PROVE  FreshInv'
  BY DEF FreshInv

\* Every step keeps the beginning in order.
LEMMA FreshStep ==
    ASSUME TypeOK, FreshInv, [Next]_vars
    PROVE  FreshInv'
<1>0. /\ ThreadType /\ "task" \in Thread /\ "done" \in Thread /\ Callbacks \subseteq Thread
      /\ "task" \notin Callbacks
  BY CallbacksAssumption DEF TypeOK, Thread
<1>1. CASE RecordQuery
  <2>1. /\ pc["task"] = "insert" /\ rows' = rows \cup {UserRow}
        /\ curr_msg_id' = AnswerMsg /\ prev_msg_id' = curr_msg_id
        /\ pc'["task"] = "start"
    BY <1>0, <1>1, GotoFacts DEF RecordQuery
  <2>2. ~Asked /\ curr_msg_id = ClientMsg
    BY <2>1 DEF Asked, FreshInv
  <2>3. UserRow \in rows' /\ UserRow.role = "user"
    BY <2>1 DEF UserRow
  <2>4. Asked'
    BY <2>3 DEF Asked
  <2> QED BY <2>1, <2>2, <2>4 DEF FreshInv
<1>2. CASE TaskOwn /\ ~RecordQuery
  <2>1. UNCHANGED <<curr_msg_id, prev_msg_id, rows>>
    BY <1>2 DEF TaskOwn, RecordQueryFails, LocalStart, RemoteStart, Produce, EndOfPieces,
       Callback, FinishStopped, AfterLoop, FinishCompleted, msgVars
  <2>2. pc'["task"] # "insert"
    BY <1>0, <1>2, TaskFrame, GotoFacts
  <2> QED BY <2>1, <2>2 DEF FreshInv, Asked
<1>3. ASSUME NEW t \in Thread, SendAndFlush(t)
      PROVE  FreshInv'
  <2>1. pc[t] \in Sending /\ UNCHANGED <<curr_msg_id, prev_msg_id, rows>>
    BY <1>0, <1>3, SendFrame DEF msgVars
  <2>2. pc["task"] # "insert"
    BY <2>1 DEF FreshInv, Sending
  <2>3. pc'["task"] # "insert"
    BY <1>0, <1>3, <2>2, SendFrame, GotoFacts DEF Return, ThreadType, Sending
  <2> QED BY <2>1, <2>2, <2>3, FreshMove DEF Asked
<1>4. ASSUME NEW c \in Callbacks,
             ClearWriting(c) \/ WriteFailedCancel(c) \/ WriteFailedFinish(c)
             \/ \E ok \in BOOLEAN : CompleteWrite(c, ok)
      PROVE  FreshInv'
  <2>1. /\ UNCHANGED <<curr_msg_id, prev_msg_id, rows>>
        /\ pc[c] # "idle" \/ inflight
        /\ \E l : Goto(c, l)
    BY <1>4 DEF ClearWriting, WriteFailedCancel, WriteFailedFinish, CompleteWrite, msgVars
  <2>2. pc["task"] # "insert"
    BY <1>0, <2>1 DEF FreshInv
  <2>3. pc'["task"] # "insert"
    BY <1>0, <2>1, <2>2, GotoFacts
  <2> QED BY <2>1, <2>2, <2>3, FreshMove DEF Asked
<1>5. CASE OnDoneStores \/ OnDoneFails \/ Delete
  <2>1. /\ UNCHANGED <<curr_msg_id, prev_msg_id>>
        /\ rows' = rows \/ rows' = rows \cup {AnswerRow}
        /\ finish # "none" \/ pc["done"] # "idle"
        /\ \E l : Goto("done", l)
    BY <1>5 DEF OnDoneStores, OnDoneFails, Delete, DoneReady, CallSend, msgVars
  <2>2. pc["task"] # "insert"
    BY <1>0, <2>1 DEF FreshInv
  <2>3. pc'["task"] # "insert"
    BY <1>0, <2>1, <2>2, GotoFacts
  <2>4. Asked' <=> Asked
    BY <2>1 DEF Asked, AnswerRow
  <2> QED BY <2>1, <2>2, <2>3, <2>4, FreshMove
<1>6. CASE UseAfterFree \/ Bind \/ Disconnect \/ OnCancel \/ SameSessionQuery \/ StopBegin
           \/ StopCancel \/ StopUnwrite
  BY <1>6 DEF UseAfterFree, Bind, Disconnect, OnCancel, SameSessionQuery, StopBegin,
     StopCancel, StopUnwrite, threadVars, flagVars, msgVars, grpcVars, FreshInv, Asked
<1>7. CASE StopDrain
  <2>1. UNCHANGED <<pc, rows, curr_msg_id, prev_msg_id, wire, inflight, finish>>
        /\ (queue = <<>> => queue' = <<>>)
    BY <1>7 DEF StopDrain, threadVars, msgVars, grpcVars
  <2> QED BY <2>1 DEF FreshInv, Asked
<1>8. CASE UNCHANGED vars
  BY <1>8 DEF vars, threadVars, flagVars, msgVars, grpcVars, FreshInv, Asked
<1> QED BY <1>1, <1>2, <1>3, <1>4, <1>5, <1>6, <1>7, <1>8, StepCases

\* The steps of other threads finish the call only after a failed write.
LEMMA TaskInvOther ==
    ASSUME TaskInv, pc'["task"] = pc["task"], UNCHANGED ret,
           cancelled => cancelled', failed => failed', Asked' <=> Asked,
           finish' = finish \/ failed', finish # "none" => finish' # "none",
           misuse' = "double_finish" => misuse = "double_finish" \/ failed',
           \A c \in Callbacks : pc'[c] \in Failing => failed'
    PROVE  TaskInv'
<1>1. UnfinishedOnlyIfCancelledOrUnstored'
  BY DEF TaskInv, UnfinishedOnlyIfCancelledOrUnstored, Asked
<1>2. FinishedUnderTaskOnlyAfterStop'
  BY DEF TaskInv, FinishedUnderTaskOnlyAfterStop
<1>3. DoubleFinishNeedsFailedWrite'
  BY DEF TaskInv, DoubleFinishNeedsFailedWrite
<1> QED BY <1>1, <1>2, <1>3 DEF TaskInv

\* The task's own steps.
LEMMA TaskInvOwn ==
    ASSUME TypeOK, FreshInv, TaskInv, TaskOwn
    PROVE  TaskInv'
<1>0. ThreadType /\ "task" \in Thread /\ "task" \notin Callbacks /\ Callbacks \subseteq Thread
  BY CallbacksAssumption DEF TypeOK, Thread
<1>1. UNCHANGED <<cancelled, failed>> /\ pc["task"] \notin Sending \cup {"end"}
  BY TaskFrame DEF flagVars
<1>2. \A c \in Callbacks : pc'[c] \in Failing => failed'
  BY <1>0, <1>1, TaskFrame, GotoFacts DEF TaskInv
<1>3. finish # "none" => failed \/ (pc["task"] = "after" /\ cancelled)
  <2>1. pc["task"] # "end"
    BY <1>1
  <2>2. FinishedUnderTaskOnlyAfterStop
    BY DEF TaskInv
  <2> QED BY <2>1, <2>2 DEF FinishedUnderTaskOnlyAfterStop
<1>4. CASE RecordQuery \/ LocalStart \/ RemoteStart \/ Produce \/ EndOfPieces
  <2>1. /\ UNCHANGED <<finish, misuse>> /\ pc["task"] \in {"insert", "start", "loop"}
        /\ \E l \in {"start", "loop", "after", "callback"} : Goto("task", l)
    BY <1>4 DEF RecordQuery, LocalStart, RemoteStart, Produce, EndOfPieces, grpcVars,
       histVars
  <2>2. pc'["task"] \in {"start", "loop", "after", "callback"}
    BY <1>0, <2>1, GotoFacts
  <2> QED BY <1>1, <1>2, <1>3, <2>1, <2>2 DEF TaskInv, Sending,
             UnfinishedOnlyIfCancelledOrUnstored, FinishedUnderTaskOnlyAfterStop,
             DoubleFinishNeedsFailedWrite
<1>5. CASE RecordQueryFails
  <2>1. /\ UNCHANGED <<finish, misuse, rows>> /\ pc["task"] = "insert"
        /\ ret' = "end" /\ pc'["task"] = "send"
    BY <1>0, <1>5, GotoFacts DEF RecordQueryFails, CallSend, msgVars, grpcVars, histVars
  <2>2. ~Asked'
    BY <2>1 DEF FreshInv, Asked
  <2> QED BY <1>1, <1>2, <1>3, <2>1, <2>2 DEF TaskInv, Sending,
             UnfinishedOnlyIfCancelledOrUnstored, FinishedUnderTaskOnlyAfterStop,
             DoubleFinishNeedsFailedWrite
<1>6. CASE Callback
  <2>1. UNCHANGED <<finish, misuse>> /\ pc["task"] = "callback"
    BY <1>6 DEF Callback, grpcVars, histVars
  <2>2. \/ pc'["task"] = "send" /\ ret' = "finish_stopped" /\ cancelled
        \/ pc'["task"] = "loop"
        \/ pc'["task"] = "send" /\ ret' = "loop"
    BY <1>0, <1>6, GotoFacts DEF Callback, CallSend
  <2> QED BY <1>1, <1>2, <1>3, <2>1, <2>2 DEF TaskInv, Sending,
             UnfinishedOnlyIfCancelledOrUnstored, FinishedUnderTaskOnlyAfterStop,
             DoubleFinishNeedsFailedWrite
<1>7. CASE FinishStopped
  <2>1. /\ finish' = "stopped" /\ pc["task"] = "finish_stopped" /\ pc'["task"] = "after"
        /\ misuse' = IF finish = "none" THEN misuse ELSE "double_finish"
    BY <1>0, <1>7, GotoFacts DEF FinishStopped, Finish
  <2>2. cancelled
    BY <2>1 DEF TaskInv
  <2> QED BY <1>1, <1>2, <1>3, <2>1, <2>2 DEF TaskInv, Sending,
             UnfinishedOnlyIfCancelledOrUnstored, FinishedUnderTaskOnlyAfterStop,
             DoubleFinishNeedsFailedWrite
<1>8. CASE AfterLoop
  <2>1. UNCHANGED <<finish, misuse>> /\ pc["task"] = "after"
    BY <1>8 DEF AfterLoop, grpcVars, histVars
  <2>2. \/ pc'["task"] = "end" /\ cancelled
        \/ pc'["task"] = "send" /\ ret' = "finish_completed" /\ ~cancelled
    BY <1>0, <1>8, GotoFacts DEF AfterLoop, CallSend
  <2> QED BY <1>1, <1>2, <1>3, <2>1, <2>2 DEF TaskInv, Sending,
             UnfinishedOnlyIfCancelledOrUnstored, FinishedUnderTaskOnlyAfterStop,
             DoubleFinishNeedsFailedWrite
<1>9. CASE FinishCompleted
  <2>1. /\ finish' = "completed" /\ pc["task"] = "finish_completed" /\ pc'["task"] = "end"
        /\ misuse' = IF finish = "none" THEN misuse ELSE "double_finish"
    BY <1>0, <1>9, GotoFacts DEF FinishCompleted, Finish
  <2> QED BY <1>1, <1>2, <1>3, <2>1 DEF TaskInv, Sending,
             UnfinishedOnlyIfCancelledOrUnstored, FinishedUnderTaskOnlyAfterStop,
             DoubleFinishNeedsFailedWrite
<1> QED BY <1>4, <1>5, <1>6, <1>7, <1>8, <1>9 DEF TaskOwn

\* Every step keeps the end of the task in order.
LEMMA TaskInvStep ==
    ASSUME TypeOK, FreshInv, TaskInv, [Next]_vars
    PROVE  TaskInv'
<1>0. /\ ThreadType /\ "task" \in Thread /\ "done" \in Thread /\ Callbacks \subseteq Thread
      /\ "task" \notin Callbacks /\ "done" \notin Callbacks
  BY CallbacksAssumption DEF TypeOK, Thread
<1>1. ASSUME NEW t \in Thread, SendAndFlush(t)
      PROVE  TaskInv'
  <2>1. /\ UNCHANGED <<ret, cancelled, rows, finish, failed>> /\ pc[t] \in Sending
        /\ Asked' <=> Asked
    BY <1>0, <1>1, SendFrame DEF msgVars, Asked
  <2>2. PICK l \in Sending \cup {Return(t)} : Goto(t, l)
    BY <1>0, <1>1, SendFrame
  <2>3. pc'[t] = l /\ \A u \in Thread : u # t => pc'[u] = pc[u]
    BY <1>0, <2>2, GotoFacts
  <2>4. misuse' = "double_finish" => misuse = "double_finish"
    <3>1. FlushStart(t) => misuse' # "double_finish"
      BY DEF FlushStart, WriteMisuse
    <3> QED BY <1>0, <1>1, <3>1, SendFrame DEF histVars
  <2>5. \A c \in Callbacks : pc'[c] \in Failing => failed'
    <3>1. l \notin Failing
      BY <1>0, <2>2 DEF Return, Failing, Sending, ThreadType
    <3> QED BY <1>0, <2>1, <2>3, <3>1 DEF TaskInv
  <2>6. CASE t # "task"
    BY <1>0, <2>1, <2>3, <2>4, <2>5, <2>6, TaskInvOther
  <2>7. CASE t = "task"
    <3>1. finish # "none" => failed
      BY <2>1, <2>7 DEF TaskInv, FinishedUnderTaskOnlyAfterStop, Sending
    <3>2. pc'["task"] \in Sending \/ pc'["task"] = ret
      BY <2>2, <2>3, <2>7 DEF Return
    <3>3. ret \in {"end", "loop", "finish_stopped", "finish_completed"}
      BY <1>0 DEF ThreadType
    <3>4. UnfinishedOnlyIfCancelledOrUnstored'
      BY <2>1, <2>7, <3>2 DEF TaskInv, UnfinishedOnlyIfCancelledOrUnstored, Asked, Sending
    <3>5. FinishedUnderTaskOnlyAfterStop' /\ DoubleFinishNeedsFailedWrite'
      BY <2>1, <2>4, <3>1 DEF TaskInv, FinishedUnderTaskOnlyAfterStop,
         DoubleFinishNeedsFailedWrite
    <3> QED BY <2>1, <2>5, <2>7, <3>2, <3>3, <3>4, <3>5 DEF TaskInv, Sending
  <2> QED BY <2>6, <2>7
<1>2. ASSUME NEW c \in Callbacks,
             ClearWriting(c) \/ WriteFailedCancel(c) \/ WriteFailedFinish(c)
             \/ \E ok \in BOOLEAN : CompleteWrite(c, ok)
      PROVE  TaskInv'
  <2>0. ASSUME NEW ok \in BOOLEAN, CompleteWrite(c, ok)
        PROVE  (failed => failed') /\ (~ok => failed')
    <3>1. failed' = (failed \/ ~ok)
      BY <2>0 DEF CompleteWrite
    <3>2. failed \in BOOLEAN
      BY DEF TypeOK, HistType
    <3> QED BY <3>1, <3>2, Zenon
  <2>1. /\ UNCHANGED <<ret, rows>> /\ (cancelled => cancelled') /\ (failed => failed')
    <3>1. CASE ClearWriting(c) \/ WriteFailedCancel(c) \/ WriteFailedFinish(c)
      BY <3>1 DEF ClearWriting, WriteFailedCancel, WriteFailedFinish, flagVars, msgVars,
         histVars
    <3>2. ASSUME NEW ok \in BOOLEAN, CompleteWrite(c, ok)
          PROVE  UNCHANGED <<ret, rows, cancelled>>
      BY <3>2 DEF CompleteWrite, flagVars, msgVars
    <3> QED BY <1>2, <2>0, <3>1, <3>2
  <2>2. PICK l : Goto(c, l) /\ (l \in Failing => failed' \/ pc[c] \in Failing)
    <3>1. ASSUME NEW ok \in BOOLEAN, CompleteWrite(c, ok)
          PROVE  \E l : Goto(c, l) /\ (l \in Failing => failed')
      <4>1. CASE ok
        BY <3>1, <4>1 DEF CompleteWrite, Failing
      <4>2. CASE ~ok
        BY <2>0, <3>1, <4>2 DEF CompleteWrite
      <4> QED BY <4>1, <4>2
    <3> QED BY <1>2, <3>1 DEF ClearWriting, WriteFailedCancel, WriteFailedFinish, Failing
  <2>3. pc'[c] = l /\ \A u \in Thread : u # c => pc'[u] = pc[u]
    BY <1>0, <2>2, GotoFacts
  <2>4. \A d \in Callbacks : pc'[d] \in Failing => failed'
    BY <1>0, <2>1, <2>2, <2>3 DEF TaskInv
  <2>5. UNCHANGED <<finish, misuse>> \/ WriteFailedFinish(c)
    BY <1>2 DEF ClearWriting, WriteFailedCancel, CompleteWrite, grpcVars, histVars
  <2>6. WriteFailedFinish(c) => failed /\ finish' # "none"
    BY DEF WriteFailedFinish, Finish, TaskInv, Failing
  <2>7. Asked' <=> Asked
    BY <2>1 DEF Asked
  <2> QED BY <1>0, <2>1, <2>3, <2>4, <2>5, <2>6, <2>7, TaskInvOther
<1>3. CASE OnDoneStores \/ OnDoneFails \/ Delete
  <2>1. /\ UNCHANGED <<ret, cancelled, failed, finish, misuse>>
        /\ rows' = rows \/ rows' = rows \cup {AnswerRow}
        /\ \E l : Goto("done", l)
    BY <1>3 DEF OnDoneStores, OnDoneFails, Delete, CallSend, flagVars, msgVars, grpcVars,
       histVars
  <2>2. \A u \in Thread : u # "done" => pc'[u] = pc[u]
    BY <1>0, <2>1, GotoFacts
  <2>3. Asked' <=> Asked
    BY <2>1 DEF Asked, AnswerRow
  <2>4. pc'["task"] = pc["task"] /\ \A c \in Callbacks : pc'[c] = pc[c]
    BY <1>0, <2>2
  <2>5. \A c \in Callbacks : pc'[c] \in Failing => failed'
    BY <2>1, <2>4 DEF TaskInv
  <2> QED BY <2>1, <2>3, <2>4, <2>5, TaskInvOther
<1>4. CASE UseAfterFree \/ Bind \/ Disconnect \/ OnCancel \/ SameSessionQuery \/ StopBegin
           \/ StopCancel \/ StopUnwrite \/ StopDrain \/ UNCHANGED vars
  <2>1. UNCHANGED <<pc, ret, rows, failed, finish>> /\ (cancelled => cancelled')
    BY <1>4 DEF UseAfterFree, Bind, Disconnect, OnCancel, SameSessionQuery, StopBegin,
       StopCancel, StopUnwrite, StopDrain, vars, threadVars, flagVars, msgVars, grpcVars,
       histVars
  <2>2. misuse' = misuse \/ misuse' = "use_after_free"
    BY <1>4 DEF UseAfterFree, Bind, Disconnect, OnCancel, SameSessionQuery, StopBegin,
       StopCancel, StopUnwrite, StopDrain, vars, histVars
  <2>3. \A c \in Callbacks : pc'[c] \in Failing => failed'
    BY <2>1 DEF TaskInv
  <2> QED BY <2>1, <2>2, <2>3, TaskInvOther DEF Asked
<1> QED BY <1>1, <1>2, <1>3, <1>4, StepCases, TaskInvOwn

\* A step that moves one thread, whose response is kept if it is to be sent.
LEMMA StreamMove ==
    ASSUME TypeOK, StreamInv, NEW t \in Thread, NEW l, Goto(t, l),
           UNCHANGED <<curr_msg_id, answer, queue, wire>>, cancelled => cancelled',
           \A u \in Thread : u # t => resp'[u] = resp[u],
           l \in InHand \cup {"send"} => Kept(resp'[t], curr_msg_id, answer)
    PROVE  StreamInv'
<1>1. pc'[t] = l /\ \A u \in Thread : u # t => pc'[u] = pc[u]
  BY GotoFacts DEF TypeOK
<1> QED BY <1>1 DEF StreamInv

\* What was kept stays kept when the answer grows.
LEMMA KeptGrows ==
    ASSUME NEW a \in Seq(1..MaxPieces), NEW p \in 1..MaxPieces, NEW m
    PROVE  \A x : /\ Kept(x, m, a) => Kept(x, m, Append(a, p))
                  /\ x.piece = p /\ x.msg = m => Kept(x, m, Append(a, p))
<1>1. /\ Len(Append(a, p)) = Len(a) + 1 /\ Append(a, p)[Len(a) + 1] = p /\ Len(a) \in Nat
      /\ \A j \in 1..Len(a) : Append(a, p)[j] = a[j]
  BY AppendProperties
<1>2. 1..Len(a) \subseteq 1..Len(Append(a, p)) /\ Len(a) + 1 \in 1..Len(Append(a, p))
  BY <1>1
<1> QED BY <1>1, <1>2 DEF Kept

\* The task keeps a piece before it sends it.
LEMMA StreamOwn ==
    ASSUME TypeOK, FreshInv, StreamInv, TaskOwn
    PROVE  StreamInv'
<1>0. ThreadType /\ "task" \in Thread /\ resp \in [Thread -> Resp]
  BY DEF TypeOK, ThreadType, Thread
<1>1. UNCHANGED <<cancelled, queue, wire>>
  BY TaskFrame DEF flagVars
<1>2. CASE RecordQuery
  <2>1. /\ pc["task"] = "insert" /\ pc'["task"] = "start"
        /\ \A u \in Thread : u # "task" => pc'[u] = pc[u]
    BY <1>0, <1>2, GotoFacts DEF RecordQuery
  <2>2. queue' = <<>> /\ wire' = <<>> /\ \A u \in Thread : u # "task" => pc'[u] = "idle"
    BY <1>1, <2>1 DEF FreshInv
  <2> QED BY <2>1, <2>2 DEF StreamInv, InHand
<1>3. CASE RecordQueryFails \/ AfterLoop
  <2>1. UNCHANGED <<curr_msg_id, answer>>
    BY <1>3 DEF RecordQueryFails, AfterLoop, msgVars
  <2>2. CASE \E e, l : CallSend("task", 0, TRUE, e, l)
    <3>1. Goto("task", "send") /\ \A u \in Thread : u # "task" => resp'[u] = resp[u]
      BY <1>0, <2>2 DEF CallSend
    <3>2. resp'["task"].piece = 0
      BY <1>0, <2>2 DEF CallSend
    <3> QED BY <1>0, <1>1, <2>1, <3>1, <3>2, StreamMove DEF Kept
  <2>3. CASE Goto("task", "end") /\ UNCHANGED resp
    BY <1>0, <1>1, <2>1, <2>3, StreamMove DEF InHand
  <2> QED BY <1>3, <2>2, <2>3 DEF RecordQueryFails, AfterLoop
<1>4. CASE LocalStart \/ RemoteStart \/ EndOfPieces \/ FinishStopped \/ FinishCompleted
  <2>1. UNCHANGED <<curr_msg_id, answer, resp>>
    BY <1>4 DEF LocalStart, RemoteStart, EndOfPieces, FinishStopped, FinishCompleted, msgVars
  <2>2. \E l \in {"loop", "after", "end"} : Goto("task", l)
    BY <1>4 DEF LocalStart, RemoteStart, EndOfPieces, FinishStopped, FinishCompleted
  <2> QED BY <1>0, <1>1, <2>1, <2>2, StreamMove DEF InHand
<1>5. CASE Produce
  <2>1. UNCHANGED <<curr_msg_id, answer>> /\ Goto("task", "callback")
        /\ \A u \in Thread : u # "task" => resp'[u] = resp[u]
    BY <1>0, <1>5 DEF Produce, msgVars
  <2> QED BY <1>0, <1>1, <2>1, StreamMove DEF InHand
<1>6. CASE Callback
  <2>0. UNCHANGED curr_msg_id /\ \A u \in Thread : u # "task" => resp'[u] = resp[u]
    BY <1>0, <1>6 DEF Callback, CallSend
  <2>1. CASE cancelled
    <3>1. Goto("task", "send") /\ UNCHANGED answer
      BY <1>6, <2>1 DEF Callback, CallSend
    <3>2. pc'["task"] = "send" /\ \A u \in Thread : u # "task" => pc'[u] = pc[u]
      BY <1>0, <3>1, GotoFacts
    <3> QED BY <1>1, <2>0, <2>1, <3>1, <3>2 DEF StreamInv, InHand
  <2>2. CASE ~cancelled /\ resp["task"].piece = 0
    BY <1>0, <1>1, <1>6, <2>0, <2>2, StreamMove DEF Callback, InHand
  <2>3. CASE ~cancelled /\ resp["task"].piece # 0
    <3>0. PICK p : p = resp["task"].piece
      OBVIOUS
    <3>1. /\ answer' = Append(answer, p) /\ Goto("task", "send")
          /\ resp'["task"].piece = p /\ resp'["task"].msg = curr_msg_id
      BY <1>0, <1>6, <2>3, <3>0 DEF Callback, CallSend
    <3>2. p \in 1..MaxPieces /\ answer \in Seq(1..MaxPieces)
      BY <1>0, <2>3, <3>0, BoundsAssumption DEF Resp, TypeOK, MsgType
    <3>3. \A x : Kept(x, curr_msg_id, answer) => Kept(x, curr_msg_id, answer')
      BY <3>1, <3>2, KeptGrows
    <3>4. Kept(resp'["task"], curr_msg_id, answer')
      BY <3>1, <3>2, KeptGrows
    <3>5. pc'["task"] = "send" /\ \A u \in Thread : u # "task" => pc'[u] = pc[u]
      BY <1>0, <3>1, GotoFacts
    <3> QED BY <1>1, <2>0, <3>3, <3>4, <3>5 DEF StreamInv, InHand
  <2> QED BY <2>1, <2>2, <2>3
<1> QED BY <1>2, <1>3, <1>4, <1>5, <1>6 DEF TaskOwn

\* _send and _flush pass on what they were given.
LEMMA StreamSend ==
    ASSUME TypeOK, StreamInv, NEW t \in Thread, SendAndFlush(t)
    PROVE  StreamInv'
<1>0. /\ ThreadType /\ Return(t) \notin InHand \cup {"send"} /\ resp \in [Thread -> Resp]
      /\ queue \in Seq(Resp) /\ wire \in Seq(Resp)
  BY DEF TypeOK, ThreadType, FlagType, GrpcType, Return, InHand
<1>1. UNCHANGED <<cancelled, curr_msg_id, answer>>
  BY <1>0, SendFrame DEF msgVars
<1>2. CASE SendIfNotCancelled(t)
  <2>1. UNCHANGED <<resp, queue, wire>> /\ pc[t] = "send"
        /\ Goto(t, IF cancelled THEN Return(t) ELSE "enqueue")
    BY <1>2 DEF SendIfNotCancelled, flagVars, grpcVars
  <2>2. ~cancelled => Kept(resp[t], curr_msg_id, answer)
    BY <2>1 DEF StreamInv
  <2> QED BY <1>0, <1>1, <2>1, <2>2, StreamMove
<1>3. CASE Enqueue(t)
  <2>1. /\ UNCHANGED <<resp, wire>> /\ pc[t] = "enqueue" /\ Goto(t, "flush")
        /\ queue' = Append(queue, resp[t])
    BY <1>3 DEF Enqueue, grpcVars
  <2>2. pc'[t] = "flush" /\ \A u \in Thread : u # t => pc'[u] = pc[u]
    BY <1>0, <2>1, GotoFacts
  <2>3. Kept(resp[t], curr_msg_id, answer)
    BY <2>1 DEF StreamInv, InHand
  <2>4. \A i \in 1..Len(queue') : queue'[i] = resp[t] \/ \E j \in 1..Len(queue) :
                                                       queue'[i] = queue[j]
    BY <1>0, <2>1
  <2> QED BY <1>1, <2>1, <2>2, <2>3, <2>4 DEF StreamInv, InHand
<1>4. CASE FlushIfNotWriting(t) \/ FlushIfNotCancelled(t)
  <2>1. UNCHANGED <<resp, queue, wire>>
        /\ \E l \in {Return(t), "flush_cancelled", "flush_dequeue"} : Goto(t, l)
    BY <1>4 DEF FlushIfNotWriting, FlushIfNotCancelled, flagVars, grpcVars
  <2> QED BY <1>0, <1>1, <2>1, StreamMove DEF InHand
<1>5. CASE FlushDequeue(t)
  <2>1. CASE queue = <<>>
    BY <1>0, <1>1, <1>5, <2>1, StreamMove DEF FlushDequeue, grpcVars
  <2>2. CASE queue # <<>>
    <3>1. /\ UNCHANGED wire /\ Goto(t, "flush_store") /\ queue' = Tail(queue)
          /\ resp' = [resp EXCEPT ![t] = Head(queue)]
      BY <1>5, <2>2 DEF FlushDequeue, grpcVars
    <3>2. pc'[t] = "flush_store" /\ \A u \in Thread : u # t => pc'[u] = pc[u]
      BY <1>0, <3>1, GotoFacts
    <3>3. /\ resp'[t] = queue[1] /\ 1 \in 1..Len(queue)
          /\ \A u \in Thread : u # t => resp'[u] = resp[u]
          /\ \A i \in 1..Len(queue') : \E j \in 1..Len(queue) : queue'[i] = queue[j]
      BY <1>0, <2>2, <3>1
    <3> QED BY <1>1, <3>1, <3>2, <3>3 DEF StreamInv, InHand
  <2> QED BY <2>1, <2>2
<1>6. CASE FlushStore(t)
  <2>1. UNCHANGED <<resp, queue, wire>> /\ pc[t] = "flush_store" /\ Goto(t, "flush_start")
    BY <1>6 DEF FlushStore, grpcVars
  <2>2. Kept(resp[t], curr_msg_id, answer)
    BY <2>1 DEF StreamInv, InHand
  <2> QED BY <1>0, <1>1, <2>1, <2>2, StreamMove
<1>7. CASE FlushStart(t)
  <2>1. /\ UNCHANGED <<resp, queue>> /\ pc[t] = "flush_start" /\ Goto(t, Return(t))
        /\ wire' = wire \/ wire' = Append(wire, resp[t])
    BY <1>7 DEF FlushStart, flagVars
  <2>2. pc'[t] = Return(t) /\ \A u \in Thread : u # t => pc'[u] = pc[u]
    BY <1>0, <2>1, GotoFacts
  <2>3. Kept(resp[t], curr_msg_id, answer)
    BY <2>1 DEF StreamInv, InHand
  <2>4. \A i \in 1..Len(wire') : wire'[i] = resp[t] \/ \E j \in 1..Len(wire) :
                                                       wire'[i] = wire[j]
    BY <1>0, <2>1
  <2> QED BY <1>0, <1>1, <2>1, <2>2, <2>3, <2>4 DEF StreamInv
<1> QED BY <1>2, <1>3, <1>4, <1>5, <1>6, <1>7 DEF SendAndFlush

\* Every step keeps before it sends.
LEMMA StreamStep ==
    ASSUME TypeOK, FreshInv, StreamInv, [Next]_vars
    PROVE  StreamInv'
<1>0. /\ ThreadType /\ "done" \in Thread /\ Callbacks \subseteq Thread
      /\ resp \in [Thread -> Resp] /\ queue \in Seq(Resp)
  BY DEF TypeOK, ThreadType, FlagType, Thread
<1>1. ASSUME NEW c \in Callbacks,
             ClearWriting(c) \/ WriteFailedCancel(c) \/ WriteFailedFinish(c)
             \/ \E ok \in BOOLEAN : CompleteWrite(c, ok)
      PROVE  StreamInv'
  <2>1. UNCHANGED <<curr_msg_id, answer, queue, wire, resp>> /\ (cancelled => cancelled')
    BY <1>1 DEF ClearWriting, WriteFailedCancel, WriteFailedFinish, CompleteWrite, Finish,
       flagVars, msgVars, grpcVars
  <2>2. \E l \in {"flush", "wd_cancel", "wd_finish", "idle", "written", "write_failed"} :
           Goto(c, l)
    BY <1>1 DEF ClearWriting, WriteFailedCancel, WriteFailedFinish, CompleteWrite
  <2> QED BY <1>0, <2>1, <2>2, StreamMove DEF InHand
<1>2. CASE OnDoneStores \/ Delete
  <2>1. UNCHANGED <<curr_msg_id, answer, queue, wire, resp, cancelled>>
    BY <1>2 DEF OnDoneStores, Delete, flagVars, msgVars, grpcVars
  <2>2. \E l \in {"delete", "gone"} : Goto("done", l)
    BY <1>2 DEF OnDoneStores, Delete
  <2> QED BY <1>0, <2>1, <2>2, StreamMove DEF InHand
<1>3. CASE OnDoneFails
  <2>1. UNCHANGED <<curr_msg_id, answer, queue, wire, cancelled>> /\ Goto("done", "send")
    BY <1>3 DEF OnDoneFails, CallSend, flagVars, msgVars, grpcVars
  <2>2. resp'["done"].piece = 0 /\ \A u \in Thread : u # "done" => resp'[u] = resp[u]
    BY <1>0, <1>3 DEF OnDoneFails, CallSend
  <2> QED BY <1>0, <2>1, <2>2, StreamMove DEF Kept
<1>4. CASE UseAfterFree \/ Bind \/ Disconnect \/ OnCancel \/ SameSessionQuery \/ StopBegin
           \/ StopCancel \/ StopUnwrite \/ UNCHANGED vars
  <2>1. UNCHANGED <<pc, resp, curr_msg_id, answer, queue, wire>> /\ (cancelled => cancelled')
    BY <1>4 DEF UseAfterFree, Bind, Disconnect, OnCancel, SameSessionQuery, StopBegin,
       StopCancel, StopUnwrite, vars, threadVars, flagVars, msgVars, grpcVars
  <2> QED BY <2>1 DEF StreamInv
<1>5. CASE StopDrain
  <2>1. UNCHANGED <<pc, resp, curr_msg_id, answer, wire, cancelled>>
    BY <1>5 DEF StopDrain, threadVars, msgVars, grpcVars
  <2>2. \A i \in 1..Len(queue') : \E j \in 1..Len(queue) : queue'[i] = queue[j]
    BY <1>0, <1>5 DEF StopDrain
  <2> QED BY <2>1, <2>2 DEF StreamInv
<1> QED BY <1>1, <1>2, <1>3, <1>4, <1>5, StepCases, StreamOwn, StreamSend

\* A step that stores nothing and writes nothing.
LEMMA RowMove ==
    ASSUME RowInv, UNCHANGED <<rows, wire, curr_msg_id, prev_msg_id>>,
           finish # "none" => finish' # "none"
    PROVE  RowInv'
  BY DEF RowInv, StoredAnswerCoversStream

\* Every step stores what was streamed and streams nothing after it is stored.
LEMMA RowStep ==
    ASSUME TypeOK, FreshInv, StreamInv, RowInv, [Next]_vars
    PROVE  RowInv'
<1>0. ThreadType
  BY DEF TypeOK
<1>1. CASE RecordQuery
  <2>1. /\ pc["task"] = "insert" /\ rows' = rows \cup {UserRow}
        /\ UserRow.role = "user" /\ UserRow.id = curr_msg_id
    BY <1>1 DEF RecordQuery, UserRow
  <2>2. rows = {} /\ curr_msg_id = ClientMsg
    BY <2>1 DEF FreshInv, Asked
  <2>3. PICK u : u = UserRow
    OBVIOUS
  <2>4. rows' = {u} /\ u.role = "user" /\ u.id = ClientMsg
    BY <2>1, <2>2, <2>3
  <2> QED BY <2>4 DEF RowInv, StoredAnswerCoversStream
<1>2. CASE RecordQueryFails \/ LocalStart \/ RemoteStart \/ Produce \/ EndOfPieces
           \/ AfterLoop
  BY <1>2, RowMove DEF RecordQueryFails, LocalStart, RemoteStart, Produce, EndOfPieces,
     AfterLoop, msgVars, grpcVars
<1>3. CASE Callback \/ FinishStopped \/ FinishCompleted
  BY <1>3, RowMove DEF Callback, FinishStopped, FinishCompleted, Finish, msgVars, grpcVars
<1>4. ASSUME NEW t \in Thread, SendAndFlush(t)
      PROVE  RowInv'
  <2>1. UNCHANGED <<rows, curr_msg_id, prev_msg_id, finish>>
    BY <1>0, <1>4, SendFrame DEF msgVars
  <2>2. CASE FlushStart(t)
    <3>1. CASE finish # "none"
      <4>1. UNCHANGED wire
        BY <2>2, <3>1 DEF FlushStart, WriteMisuse
      <4> QED BY <2>1, <4>1, RowMove
    <3>2. CASE finish = "none"
      <4>1. \A r \in rows : r.role # "assistant"
        BY <3>2 DEF RowInv
      <4> QED BY <2>1, <4>1 DEF RowInv, StoredAnswerCoversStream
    <3> QED BY <3>1, <3>2
  <2>3. CASE ~FlushStart(t)
    <3>1. UNCHANGED wire
      BY <1>0, <1>4, <2>3, SendFrame DEF grpcVars
    <3> QED BY <2>1, <3>1, RowMove
  <2> QED BY <2>2, <2>3
<1>5. ASSUME NEW c \in Callbacks,
             ClearWriting(c) \/ WriteFailedCancel(c) \/ WriteFailedFinish(c)
             \/ \E ok \in BOOLEAN : CompleteWrite(c, ok)
      PROVE  RowInv'
  BY <1>5, RowMove DEF ClearWriting, WriteFailedCancel, WriteFailedFinish, CompleteWrite,
     Finish, msgVars, grpcVars
<1>6. CASE OnDoneStores
  <2>0. PICK a : a = AnswerRow
    OBVIOUS
  <2>1. /\ rows' = rows \cup {a} /\ a.role = "assistant" /\ a.id = curr_msg_id
        /\ a.prev = prev_msg_id /\ a.content = answer
    BY <1>6, <2>0 DEF OnDoneStores, AnswerRow
  <2>2. finish # "none" /\ UNCHANGED <<finish, wire, curr_msg_id, prev_msg_id>>
    BY <1>6 DEF OnDoneStores, DoneReady, grpcVars
  <2>3. \A i \in 1..Len(wire) : wire[i].piece # 0 =>
            /\ wire[i].msg = a.id
            /\ \E j \in 1..Len(a.content) : a.content[j] = wire[i].piece
    BY <2>1 DEF StreamInv, Kept
  <2>4. StoredAnswerCoversStream'
    BY <2>1, <2>2, <2>3 DEF RowInv, StoredAnswerCoversStream
  <2> QED BY <2>1, <2>2, <2>4 DEF RowInv
<1>7. CASE OnDoneFails \/ Delete \/ UseAfterFree \/ Bind \/ Disconnect \/ OnCancel
  BY <1>7, RowMove DEF OnDoneFails, Delete, UseAfterFree, Bind, Disconnect, OnCancel,
     msgVars, grpcVars
<1>8. CASE SameSessionQuery \/ StopBegin \/ StopCancel \/ StopUnwrite \/ StopDrain
           \/ UNCHANGED vars
  BY <1>8, RowMove DEF SameSessionQuery, StopBegin, StopCancel, StopUnwrite, StopDrain,
     msgVars, grpcVars, vars
<1> QED BY <1>1, <1>2, <1>3, <1>4, <1>5, <1>6, <1>7, <1>8, StepCases DEF TaskOwn

-----------------------------------------------------------------------------
(* The invariant of the stream, and what it says of the call.               *)

CallInv == CancelInv /\ FreshInv /\ TaskInv /\ StreamInv /\ RowInv

\* The constructor leaves an unfinished call with nothing stored or sent.
LEMMA CallInvInit == Init => CallInv
<1> SUFFICES ASSUME Init PROVE CallInv
  OBVIOUS
<1>1. /\ "task" \in Thread /\ pc["task"] = "insert"
      /\ \A t \in Thread : t # "task" => pc[t] = "idle"
  BY DEF Init, Thread
<1>2. /\ rows = {} /\ wire = <<>> /\ queue = <<>> /\ Len(wire) = 0 /\ Len(queue) = 0
      /\ finish = "none" /\ ~inflight /\ lateWriters = {} /\ ~stopped /\ stopPc = "idle"
      /\ misuse = "none" /\ curr_msg_id = ClientMsg /\ prev_msg_id = NoMsg
  BY DEF Init
<1>3. CancelInv
  BY <1>2 DEF CancelInv, AtMostOneLateWrite
<1>4. FreshInv
  BY <1>1, <1>2 DEF FreshInv, Asked
<1>5. \A c \in Callbacks : pc[c] = "idle"
  BY <1>1, CallbacksAssumption DEF Thread
<1>6. TaskInv
  BY <1>1, <1>2, <1>5 DEF TaskInv, Sending, Failing, UnfinishedOnlyIfCancelledOrUnstored,
     FinishedUnderTaskOnlyAfterStop, DoubleFinishNeedsFailedWrite
<1>7. StreamInv
  BY <1>1, <1>2 DEF StreamInv, InHand
<1>8. RowInv
  BY <1>2 DEF RowInv, StoredAnswerCoversStream
<1> QED BY <1>3, <1>4, <1>6, <1>7, <1>8 DEF CallInv

\* The conjuncts of CallInv are inductive together, given the types.
THEOREM QueryInvariant == Spec => []CallInv
<1>1. TypeOK /\ CallInv /\ [Next]_vars => CallInv'
  BY CancelStep, FreshStep, TaskInvStep, StreamStep, RowStep DEF CallInv
<1> QED BY CallInvInit, TypeCorrect, <1>1, PTL DEF Spec

\* After Stop has returned, a thread starts at most the one write whose test of
\* _is_cancelled it had already passed.
THEOREM StopLeavesOneWrite == Spec => []AtMostOneLateWrite
<1>1. CallInv => AtMostOneLateWrite
  BY DEF CallInv, CancelInv
<1> QED BY QueryInvariant, <1>1, PTL

\* The task ends without Finish only when the call was cancelled or the
\* question could not be stored.
THEOREM TaskFinishes == Spec => []UnfinishedOnlyIfCancelledOrUnstored
<1>1. CallInv => UnfinishedOnlyIfCancelledOrUnstored
  BY DEF CallInv, TaskInv
<1> QED BY QueryInvariant, <1>1, PTL

\* Without a failed write the call is finished under a running task only
\* between the Finish of the cancelled callback and the test that follows.
THEOREM FinishMeetsTask == Spec => []FinishedUnderTaskOnlyAfterStop
<1>1. CallInv => FinishedUnderTaskOnlyAfterStop
  BY DEF CallInv, TaskInv
<1> QED BY QueryInvariant, <1>1, PTL

\* Finish is called a second time only when OnWriteDone has reported a failure.
THEOREM FinishIsCalledOnce == Spec => []DoubleFinishNeedsFailedWrite
<1>1. CallInv => DoubleFinishNeedsFailedWrite
  BY DEF CallInv, TaskInv
<1> QED BY QueryInvariant, <1>1, PTL

\* OnDone stores every piece that was streamed, under the id the client saw.
THEOREM StoredIsStreamed == Spec => []StoredAnswerCoversStream
<1>1. CallInv => StoredAnswerCoversStream
  BY DEF CallInv, RowInv
<1> QED BY QueryInvariant, <1>1, PTL

\* The answer OnDone stores follows the question _process stored.
THEOREM AnswerIsLinked == Spec => []AnswerFollowsQuestion
<1>1. CallInv => AnswerFollowsQuestion
  <2> SUFFICES ASSUME CallInv, NEW q \in rows, NEW a \in rows,
                      q.role = "user", a.role = "assistant"
               PROVE  a.prev = q.id /\ a.id # q.id
    BY DEF AnswerFollowsQuestion
  <2>1. q.id = ClientMsg /\ a.id = curr_msg_id /\ a.prev = prev_msg_id
    BY DEF CallInv, RowInv
  <2>2. curr_msg_id = AnswerMsg /\ prev_msg_id = ClientMsg
    BY DEF CallInv, FreshInv, Asked
  <2> QED BY <2>1, <2>2 DEF ClientMsg, AnswerMsg
<1> QED BY QueryInvariant, <1>1, PTL
=============================================================================
